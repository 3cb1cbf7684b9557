CONSTANTS
    h1 = h1  h2 = h2  h3 = h3  f = f  g = g  cf = cf  other = other  r1 = r1  r2 = r2
    None = None  Admin = Admin
    Host = {h1, h2, h3}
    V6 = {}
    Prefix <- RangePrefixes
    MaxBreadth = 2
    MaxPrefixes = 2
    Fqdn = {}
    Provider = {cf, other}
    Known = {cf}
    RuleId = {r1}
    Configs <- ProviderConfigs
    Outcomes <- NoOutcomes
    Lists <- ProviderLists
    InitialLists <- ProviderInitialLists
    Retry = 1  Floor = 1  MaxAge = 2
    MaxFaults = 1
    Free = {"fetch"}
SPECIFICATION Spec
INVARIANTS NeverWantsBlocked PassExact
PROPERTIES ProviderNeverRevokes
