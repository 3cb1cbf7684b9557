CONSTANTS
    h1 = h1  h2 = h2  h3 = h3  f = f  g = g  cf = cf  other = other  r1 = r1  r2 = r2
    None = None  Admin = Admin
    Host = {h1}
    V6 = {}
    Prefix <- Singletons
    MaxBreadth = 1
    MaxPrefixes = 1
    Fqdn = {f}
    Provider = {}
    Known = {}
    RuleId = {r1}
    Configs <- OneNameConfigs
    Outcomes <- MovingOutcomes
    Lists = {}
    InitialLists <- EmptyLists
    Retry = 1
    Floor = 1
    MaxAge = 2
    MaxFaults = 1
    Free = {}
SPECIFICATION Spec
PROPERTIES AdminEntriesKept
