CONSTANTS
    Sources <- MCSources
    GroupOf <- MCGroupOf
    Requests <- MCRequests
    Reviewed = {1}
    WarnThreshold = 1
    MaxHbFailures = 3
    PersonsMax = 1
    MaxTxLost = 0
    Weather = {"gap", "miss", "timeout"}
    NoId = NoId
    NoRequest = NoRequest
SPECIFICATION MCSpec
INVARIANTS LossHeldUntilBack MuteJustified
PROPERTIES FaultDuringReleaseKept SafeStateContract
