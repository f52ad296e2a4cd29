SPECIFICATION MCSpec
CONSTANTS
    Containers = {k1, k2}
    Cameras = {c1}
    Strangers = {x}
    BadTicks = 2
    GoodTicks = 2
    InitialTicks = 1
    MaxReportAge = 1
    ResendTicks = 1
    BadPercent = 50
    MinFresh = 1
    DecodeLimit = 2
    WindowFrames = 1
    MaxSendFails = 1
    Packets <- MCPackets
    SeqModulus = 6
    QueueCap = 2
    MismatchLimit = 2
    MaxPackets = 5
    MaxParams = 1
    MaxTries = 2
CHECK_DEADLOCK FALSE
INVARIANTS UnitsWhole
PROPERTIES RecoveryEarned SessionEnds
