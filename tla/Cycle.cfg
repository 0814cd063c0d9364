CONSTANTS
    n = n  d = d  w = w  a1 = a1  a2 = a2  a3 = a3  x = x  nopage = nopage  eth0 = eth0
    Names = {d, n, w}
    Addresses = {a1, a2, a3, x}
    Ports <- MCPorts
    Pages <- MCPages
    Root = "/"
    WebNumbers = {80, 8080}
    Rank <- MCRank
    Excluded = {}
    Routes <- MCRoutes
    Ifaces = {eth0}
    Clues <- MCClues
    Site <- MCSite
    NoPage = nopage
    WildHosts = {a2}
    Words <- MCWords
    Zone <- MCZone
    Candidates <- MCCandidates
    RecordTypes <- MCRecords
    Open <- MCOpen
    TableName <- MCTableName
    TrueName <- MCTrueName
    MaxRedirects = 2
    MaxTroubles = 1
    MaxRelocations = 1
    ScopeLists <- MCScopes
    DomainOf <- MCDomainOf
SPECIFICATION CycleSpec
INVARIANTS ReconTypeOK RequestsStayInScope CoverageIsEarned OldAddressesLeftAlone RestIsEarned
PROPERTIES ComesToRest
CHECK_DEADLOCK FALSE
