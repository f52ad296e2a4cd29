SPECIFICATION MCSpec
CONSTANTS
    CounterMax = 2
    MaxStep = 1
    MaxErrors = 2
    MaxReinits = 1
    MaxSendFails = 0
    MaxSessions = 1
CHECK_DEADLOCK FALSE
PROPERTIES SelfHealing
