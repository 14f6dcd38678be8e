CONSTANTS
    MaxBuilds = 3
    MaxFaults = 2
SPECIFICATION Spec
INVARIANTS
    TypeOK
    DiskOneBuild
    LoadOrder
    SnapshotLoad
PROPERTIES
    ForwardOnly
    Noticed
    Republished
    ImplementsCache
