CONSTANTS
    Bad <- MCBad
    MaxDownloads = 4
    MaxFaults = 2
SPECIFICATION Spec
INVARIANTS
    TypeOK
    LooksCurrentIsCurrent
PROPERTY
    PickedUp
