SPECIFICATION SenderSpec
CONSTANTS
    VerdictSlots = {"s1"}
    CriticalDepth = 2
    OperationalDepth = 2
    BatchMax = 1
    RefusedPendingMax = 1
    RetryBudget = 2
    MaxAttempts = 2
    RequestIdMax = 1000
    BaseModes = {"NORMAL"}
    Kinds = {"SW_FAIL"}
    MaxReports = 2
    MaxNoops = 1
INVARIANTS FailureHeldUntilTold
CHECK_DEADLOCK FALSE
