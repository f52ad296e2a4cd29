SPECIFICATION MCSpec
CONSTANTS
    Threads <- MCThreads
    NoThread = NoThread
    Stages <- MCStages
    Owner <- MCOwner
    ErrorMs = 1
    PeriodUs <- MCPeriodUs
    StreakWidth = 16
    MaxStreak = 3
    Cams = {1, 2}
    Group = 3
    AI = 0
    MaxReports = 3
    MaxData = 1
    MaxRestarts = 1
    MaxTransit = 2
    Conns = {1, 2, 3}
    NumIds = 2
    Types = {1, 2}
    PerMessage = 1
    Budgets <- MCBudgets
CHECK_DEADLOCK FALSE
INVARIANTS FaultHeld FaultReleased VerdictsTold AnswerGenuine
PROPERTIES ValidEarned StandingHeard LinkRerouted
