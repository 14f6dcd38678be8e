CONSTANTS
    Policies <- MCPolicies
    SignalFiles <- MCSignalFiles
    Letter = {"f", "t", "0", " "}
    Catalogues <- MCCatalogues
    SignalId <- MCSignalId
    ProfileName = {"default", "strict"}
    SubjectScore = 60
    SubjectSignal <- MCSignal
    MaxCrashes = 2
SPECIFICATION Spec
CHECK_DEADLOCK FALSE
INVARIANTS
    MostSpecific
    ExplainedAsDecided
PROPERTIES
    CheckedIsTrue
    RevokedKeyRefused
    NodeAnswers
    
