SPECIFICATION LiveSpec
CONSTANTS
    Sources <- MCSources
    GroupOf <- MCGroupOf
    Requests <- LiveRequests
    Reviewed = {1}
    WarnThreshold = 1
    MaxHbFailures = 3
    PersonsMax = 1
    MaxTxLost = 1
    Weather = {"timeout"}
    NoId = NoId
    NoRequest = NoRequest
    VerdictSlots = {"s1"}
    CriticalDepth = 1
    OperationalDepth = 2
    BatchMax = 1
    RefusedPendingMax = 1
    RetryBudget = 2
    MaxAttempts = 2
    RequestIdMax = 3
    BaseModes = {"NORMAL"}
    Kinds = {"SW_FAIL", "FRESH"}
    MaxReports = 2
    MaxNoops = 1
CHECK_DEADLOCK FALSE
PROPERTIES LanesDrain HoldReached
