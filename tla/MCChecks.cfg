CONSTANTS
    r1 = r1
    r2 = r2
    shop = shop
    gmial = gmial
    ip1 = ip1
    ip2 = ip2
    h1 = h1
    h2 = h2
    Invalid = Invalid
    Request <- MCRequest
    Domain <- MCDomain
    Ip <- MCIp
    Host <- MCHost
    Profile <- MCProfile
    Role = {TRUE, FALSE}
    Typo <- MCTypo
    MxAnswers <- MCMxAnswers
    AddressOf <- MCAddressOf
    Category <- MCCategory
    Source <- MCSource
    DomainHits <- MCDomainHits
    IpHits <- MCIpHits
    MaxBuilds = 2
    Letter = {"a", "b", "c"}
    MaxLength = 4
SYMMETRY Symmetric
SPECIFICATION Spec
INVARIANTS
    TypeOK
    OneBuild
    Explained
    OneFindingPerFeed
    DeliverabilityExplained
    TypoTestExact
