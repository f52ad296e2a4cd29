SPECIFICATION MCSpec
CONSTANTS
    VerdictSlots = {"s1", "s2"}
    CriticalDepth = 3
    OperationalDepth = 3
    BatchMax = 2
    RefusedPendingMax = 1
    RetryBudget = 1
    MaxAttempts = 2
    RequestIdMax = 1000
    BaseModes = {"NORMAL", "ERROR"}
    Kinds = {"SW_FAIL", "VERDICT", "DISTRUSTED", "ERROR_MODE", "FRESH", "LATE"}
    MaxReports = 6
    MaxNoops = 1
    Cases <- MCCases
    Sensors = {"cam1", "cam2"}
    MaxOrdinal = 4
    NoFrame = NoFrame
    PairOrder <- MCOrder
    Params <- MCParams
    Inputs <- MCInputs
    kMaxTrackedPairs = 1
    NoObs = NoObs
    atl = atl
    crossing = crossing
    Sdms <- MCSdms
    Subscribers <- MCSubscribers
    NumClients = 2
    MaxHbFailures = 3
    IdMax = 2
    TxSeqMax = 20
    Budgets <- MCBudgets
CHECK_DEADLOCK FALSE
INVARIANTS RefusalHeldUntilTold ViolationTold CarriageProven DebtStands NoPeerLeaked
PROPERTIES VerdictsNeverRollBack RetryIsSameRequest GapShown
