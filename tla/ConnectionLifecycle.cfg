SPECIFICATION FairSpec
CONSTANTS
    b1 = b1
    b2 = b2
    None = None
    Blocks = {b1, b2}
    MaxSockets = 2
    MaxBacklog = 1
    MaxPending = 1
INVARIANTS
    TypeOK
    AtMostOneLate
    RegistryIsExact
    MisuseOnlyByRace
    LifecycleInv
PROPERTIES
    ConnectionsEnd
    ShutdownTakesEffect
