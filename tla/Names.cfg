CONSTANTS
    h1 = h1  h2 = h2  h3 = h3  f = f  g = g  cf = cf  other = other  r1 = r1  r2 = r2
    None = None  Admin = Admin
    Host = {h1, h2}
    V6 = {h2}
    Prefix <- Singletons
    MaxBreadth = 1
    MaxPrefixes = 2
    Fqdn = {f, g}
    Provider = {}
    Known = {}
    RuleId = {r1}
    Configs <- NamesConfigs
    Outcomes <- NamesOutcomes
    Lists = {}
    InitialLists <- NamesLists
    Retry = 1  Floor = 1  MaxAge = 1
    MaxFaults = 1
    Free = {"dns"}
SPECIFICATION Spec
INVARIANTS TypeOK PassInv PassExact
PROPERTIES TouchesOnlyItsOwn NeverLocksOut GraceProtects
