SPECIFICATION Spec
CONSTANTS
    CommandLines <- AllLines
    Requests <- AllRequests
    OwnAnswers <- Own
    OtherAnswers <- Other
    Noise <- AllBytes
    Noisy <- NoisySet
    PowerOn <- Showing
    MaxRequests = 2
INVARIANTS
    TypeOK
    AcceptsDocumented
    FrameInPlace
    SettingIsShown
    NoiseIsRefused
    CrcIsSound
    OwnAnswersShown
    MisreadKnown
    ReadsInside
    CrashesKnown
    
