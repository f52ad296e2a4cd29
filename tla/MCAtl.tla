-------------------------------- MODULE MCAtl --------------------------------
(***************************************************************************)
(* The ATL module under requests of the kinds the gateway forwards.  A     *)
(* behaviour keeps to one scenario: the requests, and what may go wrong    *)
(* outside.                                                                *)
(***************************************************************************)
EXTENDS AtlSafeState, TLC

VARIABLE scenario

MCSources == {"SM", "MDX1", "MDX2"}
MCGroupOf == "SM" :> "MONITOR_LOST" @@ "MDX1" :> "MDX_LOST" @@ "MDX2" :> "MDX_LOST"

Event(type, cause, id) ==
    [type |-> type, cause |-> cause, id |-> id, stale |-> FALSE, healthy |-> TRUE,
     trusted |-> TRUE, sensor |-> 0, names |-> {}]
Loss(cause, names, id) == [Event("SW_FAIL", cause, id) EXCEPT !.names = names]
Report(present, expected, unusable, confirmed) ==
    Event("PSS_STATUS_NOOP", "SOURCE_PRESENCE", 0) @@
    [present |-> present, expected |-> expected, unusable |-> unusable, confirmed |-> confirmed]
Health(type, cause, sensor, healthy, id) ==
    [Event(type, cause, id) EXCEPT !.sensor = sensor, !.healthy = healthy]
Normal(evs) == [mode |-> "NORMAL", evs |-> evs]
Error(evs) == [mode |-> "ERROR", evs |-> evs]
Noop == Event("PSS_STATUS_NOOP", "NONE", 0)

\* Sources lost and back, in every mode, among other traffic.
SourceRequests ==
    {Normal(<<Loss("MDX_LOST", {"MDX1"}, 1)>>),
     Normal(<<Report({"MDX2"}, {}, {}, {})>>),
     Normal(<<Report({"SM", "MDX1", "MDX2"}, {}, {}, {"SM"})>>),
     Error(<<Report({"MDX1", "MDX2"}, {}, {"SM"}, {})>>),
     Normal(<<Event("FORKLIFT_ENTERED", "NONE", 2)>>),
     Normal(<<Loss("CLIENT_INPUT_UNUSABLE", {"SM"}, 3), Report({"MDX1"}, {"MDX1", "MDX2"}, {}, {"SM"})>>)}

\* Gateway faults, PSS faults and their recovery.
FaultRequests ==
    {Normal(<<Event("SW_FAIL", "PSS_REQUEST_SEQUENCE_GAP", 1)>>),
     Normal(<<Event("PSS_STATUS_NOOP", "PSS_COMM_RECOVERED", 0)>>),
     Error(<<Event("SW_FAIL", "FUSION_ERROR", 2)>>),
     Normal(<<Event("FORKLIFT_ENTERED", "NONE", 3)>>),
     Normal(<<Noop>>)}

\* Physical events.
PhysicalRequests ==
    {Normal(<<Event("FORKLIFT_ENTERED", "NONE", 1), Event("PERSON_ENTERED", "NONE", 2)>>),
     Normal(<<Event("PERSON_ENTERED", "NONE", 3)>>), Normal(<<Event("PERSON_EXITED", "NONE", 4)>>),
     Normal(<<Event("FORKLIFT_ENTERED", "NONE", 1)>>)}

\* Sensor health, the AI pipeline and a PSS error among physical events.
SensorRequests ==
    {Normal(<<Health("SENSOR_INVALID", "SAIM_INIT", 1, FALSE, 1)>>),
     Normal(<<Health("FORKLIFT_ENTERED", "NONE", 1, FALSE, 2)>>),
     Normal(<<Health("SENSOR_INVALID", "SAIM_FRAME_DROP", 1, FALSE, 3)>>),
     Normal(<<Health("SENSOR_VALID", "NONE", 1, TRUE, 4), Event("FORKLIFT_ENTERED", "NONE", 5)>>),
     Normal(<<Event("AI_PIPELINE_INVALID", "NONE", 6), Event("ROI_VIOLATION", "NONE", 7)>>),
     Normal(<<Event("AI_PIPELINE_VALID", "NONE", 8), Event("ROI_CLEARED", "NONE", 9)>>),
     Error(<<Event("FORKLIFT_EXITED", "NONE", 10)>>)}

\* A MUTE and two ways out of it.
LiveRequests ==
    {Normal(<<Event("FORKLIFT_ENTERED", "NONE", 1)>>), Normal(<<Event("PERSON_EXITED", "NONE", 2)>>),
     Error(<<Noop>>), Normal(<<Noop>>)}

Scenarios ==
    {[requests |-> SourceRequests, weather |-> {"gap"}],
     [requests |-> FaultRequests, weather |-> {"gap", "miss"}],
     [requests |-> PhysicalRequests, weather |-> {"miss", "timeout"}],
     [requests |-> SensorRequests, weather |-> {"gap"}]}

MCRequests == SourceRequests \cup FaultRequests \cup PhysicalRequests \cup SensorRequests

MCInit == Init /\ scenario \in Scenarios

MCNext ==
    /\ Next
    /\ req' \in scenario.requests \cup {NoRequest}
    /\ "GatewayDecisionSequence" \in faults' => "gap" \in scenario.weather
    /\ pc'["heartbeat"] # "idle" \/ miss' # miss => "miss" \in scenario.weather
    /\ overdue' => "timeout" \in scenario.weather
    /\ UNCHANGED scenario

MCSpec == MCInit /\ [][MCNext]_<<vars, scenario>>
=============================================================================
