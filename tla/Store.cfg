CONSTANTS
    r1 = r1  f = f  cf = cf  bad = bad  open = open  shut = shut  dns = dns
    Value <- Values
    Malformed = {bad}
    MinInterval = 2  DefaultInterval = 3
    MinPeriod = 1  DefaultPeriod = 2
    DefaultGrace = 1
    DefaultBlocked = shut
    Absent = Absent  NoRequest = NoRequest  Missing = Missing  Torn = Torn
    Boot = Boot
    Worker = {w1, w2}
    Requests <- StoreRequests
    HandWritten <- OldFiles
    MaxFaults = 2
SPECIFICATION Spec
INVARIANTS TypeOK AlwaysUsable DiskWhole MemoryIsFile
PROPERTIES ConfirmedKept IsRegister
