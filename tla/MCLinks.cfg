SPECIFICATION MCSpec
CONSTANTS
    HbStale = 0
    HbPeriod = 1
    MaxHbChoices = {0, 3}
    MaxTrouble = 2
    RxStale = 0
    RxPeriod = 1
    RxMaxHb = 2
    MaxLatches = 1
    MaxCopies = 0
    MaxUnderWay = 2
CHECK_DEADLOCK FALSE
PROPERTIES RegisteredAgain HoldArrives ReleaseSucceeds
