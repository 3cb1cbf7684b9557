CONSTANTS
    h1 = h1  h2 = h2  h3 = h3  f = f  g = g  cf = cf  other = other  r1 = r1  r2 = r2
    None = None  Admin = Admin
    Host = {h1, h2, h3}
    V6 = {h2}
    Prefix <- Singletons
    MaxBreadth = 1
    MaxPrefixes = 1
    Fqdn = {f}
    Provider = {cf}
    Known = {cf}
    RuleId = {r1, r2}
    Configs <- HistoryConfigs
    Outcomes <- HistoryOutcomes
    Lists <- HistoryLists
    InitialLists <- EmptyLists
    Retry = 2
    Floor = 2
    MaxAge = 3
    MaxFaults = 1
    Free = {"dns", "fetch"}
SPECIFICATION HSpec
PROPERTIES GraceWindowEnds LastKnownKept PoliteFetching
