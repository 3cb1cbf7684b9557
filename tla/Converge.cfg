CONSTANTS
    h1 = h1  h2 = h2  h3 = h3  f = f  g = g  cf = cf  other = other  r1 = r1  r2 = r2
    None = None  Admin = Admin
    Host = {h1, h2}
    V6 = {}
    Prefix <- HostPairPrefixes
    MaxBreadth = 2
    MaxPrefixes = 2
    Fqdn = {f, g}
    Provider = {cf}
    Known = {cf}
    RuleId = {r1}
    Configs <- SteadyConfigs
    Outcomes <- SteadyOutcomes
    Lists <- SteadyLists
    InitialLists <- SteadyInitialLists
    Retry = 1
    Floor = 1
    MaxAge = 1
    MaxFaults = 1
    Free = {}
SPECIFICATION FairSpec
PROPERTIES Converges
