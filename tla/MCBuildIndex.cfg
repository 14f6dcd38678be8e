CONSTANTS
    mailinator = mailinator
    Cidr <- MCCidr
    Address <- MCAddress
    Covers <- MCCovers
    Domain <- MCDomain
    NumFeeds = 4
    IpFeeds <- MCIpFeeds
    Category <- MCCategory
    Weight <- MCWeight
    MaxEntries = 4
SPECIFICATION Spec
INVARIANTS
    TypeOK
    NarrowestCounts
    ExactWithoutNesting
    ChargedWithinOwner
    DomainFindings
PROPERTY
    NothingHidden
