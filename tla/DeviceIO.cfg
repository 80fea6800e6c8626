SPECIFICATION Spec
CONSTANTS
    Backends <- BothBackends
    ReportSize = 2
    FrameSize = 3
    AnswerSizes <- Lengths
    BufSize = 4
    Timed = TRUE
    MaxRuns = 3
INVARIANTS
    TypeOK
    FrameInOrder
    AnswersApart
    CleanExchange
