SPECIFICATION Spec
CONSTANTS
    Inputs <- AllInputs
    Garbage <- AnyStack
    BufSize = 25
    MaxBytes = 12
INVARIANTS
    TypeOK
    NothingLost
    NoLineHeldBack
    RegularFraming
    FormatInForce
