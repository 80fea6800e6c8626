SPECIFICATION Spec
CONSTANTS
    Inputs <- WithEot
    Garbage <- FreshStack
    BufSize = 15
    MaxBytes = 7
INVARIANTS
    EotCloses
