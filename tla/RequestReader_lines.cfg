SPECIFICATION Spec
CONSTANTS
    Inputs <- OnlyVersion
    Garbage <- FreshStack
    BufSize = 21
    MaxBytes = 10
INVARIANTS
    RequestIsComplete
