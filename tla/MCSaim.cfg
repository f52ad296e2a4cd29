SPECIFICATION MCSpec
CONSTANTS
    CounterMax = 2
    MaxStep = 1
    MaxErrors = 2
    MaxReinits = 1
    MaxSendFails = 1
    MaxSessions = 2
CHECK_DEADLOCK FALSE
INVARIANTS LostStreamHeld
PROPERTIES Healed
