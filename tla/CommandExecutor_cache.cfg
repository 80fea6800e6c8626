SPECIFICATION Spec
CONSTANTS
    t1 = t1
    t2 = t2
    t3 = t3
    DayGenerated = DayGenerated
    SetFlag = SetFlag
    SetDefaults = SetDefaults
    a = a
    b = b
    None = None
    Threads = {t1, t2}
    Commands = {DayGenerated, SetFlag, SetDefaults}
    SetCommands = {SetFlag, SetDefaults}
    Arguments = {a, b}
    Legal <- TwoGets
    Parses <- MCParses
    CacheTimeout = 1
    Delay = 0
    DeviceErrorLimit = 1
    Timeout = 1
    MaxTime = 3
    MaxRequests = 3
SYMMETRY ThreadSymmetry
INVARIANTS
    TypeOK
    CacheIsLatest
    NeverOlder
    CacheValidity
    OwnAnswer
    ExecutorInv
PROPERTIES
    ImplementsService
