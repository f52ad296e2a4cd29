SPECIFICATION MCSpec
CHECK_DEADLOCK FALSE
CONSTANTS
    SeqMod = 2
    AckTimeout = 1
    AckCleanup = 2
    MaxCommands = 3
    LastSecond = 2
    NoCommandStatus = NoCommandStatus
    Sources <- MCSources
    GroupOf <- MCGroupOf
    Requests <- MCRequests
    Commands <- MCCommands
    Reviewed = {1}
    WarnThreshold = 1
    MaxHbFailures = 3
    MaxTxLost = 1
    NoRequest = NoRequest
    Configs <- MCConfigs
    Unknown = "EVENT_UNKNOWN"
    PhysicalEvents <- MCPhysical
    Cameras = {1, 2}
    EngageWindow = 2
    EntryPulse = 1
    PersonHold = 2
    ForkliftHold = 2
    Debounce = 1
    Objects <- MCObjects
    Nobody = Nobody
    LastTick = 4
    Capacity = 2
    PairTtl = 1
    PairKeys <- MCPairKeys
    NoEntry = NoEntry
    LastMoment = 3
INVARIANTS AckGenuine WorstCaseWins HoldOnPlc SirenTimely PairsHonoured
PROPERTIES ControlContract ControlSpec
