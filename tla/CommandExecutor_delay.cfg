SPECIFICATION Spec
CONSTANTS
    t1 = t1
    t2 = t2
    t3 = t3
    DayGenerated = DayGenerated
    SetFlag = SetFlag
    SetDefaults = SetDefaults
    a = a
    b = b
    None = None
    Threads = {t1}
    Commands = {DayGenerated, SetFlag, SetDefaults}
    SetCommands = {SetFlag, SetDefaults}
    Arguments = {a, b}
    Legal <- OneSet
    Parses <- MCParses
    CacheTimeout = 0
    Delay = 2
    DeviceErrorLimit = 2
    Timeout = 1
    MaxTime = 3
    MaxRequests = 2
PROPERTIES
    DelayBetweenCommands
