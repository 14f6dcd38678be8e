CONSTANTS
    ipsum = ipsum
    disposable = disposable
    Feeds <- MCFeeds
    JsonFeeds <- MCJsonFeeds
    Validating <- MCValidating
    Reachable <- MCReachable
    Broken <- MCBroken
    MaxVersion = 3
    MaxFaults = 2
SPECIFICATION Spec
INVARIANTS
    TypeOK
    ValidatorsVouch
    Provenance
PROPERTY
    CatchesUp
