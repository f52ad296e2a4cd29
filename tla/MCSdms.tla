-------------------------------- MODULE MCSdms --------------------------------
(***************************************************************************)
(* The three command-sending SDMs.  A behaviour is one of them in one      *)
(* scenario: the requests the gateway forwards, and what may go wrong      *)
(* outside: gap, miss, timeout, loss of a command; whether a PLC asks for  *)
(* a release; and calm, where no thread is slow.  One scenario is about    *)
(* the acknowledgments of the commands, of all four SDMs (PlcAcks).        *)
(***************************************************************************)
EXTENDS ProximitySdm, CrossingSdm, AtlProximitySdm, PlcAcks, TLC

VARIABLE scenario

MCSources == {"SM", "MDX1", "MDX2"}
MCGroupOf == "SM" :> "MONITOR_LOST" @@ "MDX1" :> "MDX_LOST" @@ "MDX2" :> "MDX_LOST"

Person(n) == [id |-> n, person |-> TRUE]
Forklift(n) == [id |-> n, person |-> FALSE]

Event(type, cause, pair) ==
    [type |-> type, cause |-> cause, id |-> 1, stale |-> FALSE, healthy |-> TRUE,
     trusted |-> TRUE, sensor |-> 0, names |-> {}, pair |-> pair]
Plain(type, cause) == Event(type, cause, <<Forklift(1), Forklift(2)>>)
Loss(cause, names) == [Plain("SW_FAIL", cause) EXCEPT !.names = names]
Report(present, expected, unusable, confirmed) ==
    Plain("PSS_STATUS_NOOP", "SOURCE_PRESENCE") @@
    [present |-> present, expected |-> expected, unusable |-> unusable, confirmed |-> confirmed]
Health(type, cause, healthy) == [Plain(type, cause) EXCEPT !.sensor = 1, !.healthy = healthy]
Near(tier, f, p) == Event(tier, "NONE", <<Person(p), Forklift(f)>>)
At(kind, camera) ==
    Plain("JUNCTION", "NONE") @@ [kind |-> kind, object |-> kind]
Seen(kind, camera) == [At(kind, camera) EXCEPT !.sensor = camera]

Normal(evs) == [mode |-> "NORMAL", evs |-> evs]
Error(evs) == [mode |-> "ERROR", evs |-> evs]
Noop == Plain("PSS_STATUS_NOOP", "NONE")

\* Sources lost and back, sensors and the AI pipeline.
SourceRequests ==
    {Normal(<<Loss("MDX_LOST", {"MDX1"})>>),
     Normal(<<Report({"SM", "MDX1"}, {}, {}, {"SM"})>>),
     Normal(<<Report({"SM", "MDX2"}, {}, {}, {"SM"})>>),
     Error(<<Report({"MDX1"}, {"SM"}, {}, {})>>),
     Normal(<<Near("EVENT_9", 1, 2)>>)}

InputRequests ==
    {Normal(<<Loss("CLIENT_INPUT_UNUSABLE", {"SM"})>>),
     Normal(<<Report({"SM"}, {}, {}, {"SM"}), Plain("SW_FAIL", "FUSION_ERROR")>>),
     Normal(<<Plain("AI_PIPELINE_INVALID", "NONE"), Plain("AI_PIPELINE_VALID", "NONE")>>),
     Normal(<<Plain("PSS_STATUS_NOOP", "PSS_COMM_RECOVERED")>>),
     Normal(<<Near("EVENT_9", 1, 2)>>)}

SensorRequests ==
    {Normal(<<Health("SENSOR_INVALID", "SAIM_INIT", FALSE)>>),
     Normal(<<Health("EVENT_9", "NONE", FALSE)>>),
     Normal(<<Health("SENSOR_INVALID", "SAIM_FRAME_DROP", FALSE)>>),
     Normal(<<Health("SENSOR_VALID", "NONE", TRUE), Near("EVENT_10", 1, 2)>>),
     Error(<<Noop>>)}

\* Batches in different orders, of pairs in either order and of two persons.
TierRequests ==
    {Normal(<<Near("EVENT_9", 1, 2), Near("EVENT_10", 3, 4)>>),
     Normal(<<Near("EVENT_10", 1, 2), Near("EVENT_8", 3, 4)>>),
     Normal(<<Event("EVENT_8", "NONE", <<Person(1), Person(2)>>)>>),
     Normal(<<Health("EVENT_10", "NONE", FALSE), Event("EVENT_9", "NONE", <<Forklift(1), Person(2)>>)>>),
     Normal(<<Noop>>)}

\* Three pairs compete for the table.
PairRequests ==
    {Normal(<<Near(tier, f, 9)>>) : tier \in {"EVENT_8", "EVENT_10"}, f \in {1, 2}}
    \cup {Normal(<<Near("EVENT_8", 3, 9), Near("EVENT_10", 3, 9)>>),
           Normal(<<Near("EVENT_9", 3, 9), Near("EVENT_8", 1, 9)>>)}

\* Two cameras that disagree about a person while a forklift crosses; a forklift that
\* comes and stays.
PersonRequests ==
    {Normal(<<Seen("TRIPWIRE", 1)>>), Normal(<<Seen("PERSON_IN", 1)>>), Normal(<<Seen("PERSON_OUT", 1)>>),
     Normal(<<Seen("PERSON_OUT", 2)>>)}
ForkliftRequests ==
    {Normal(<<Seen("FORKLIFT_IN", 1)>>), Normal(<<Seen("FORKLIFT_OUT", 2), Seen("TRIPWIRE", 1)>>),
     Normal(<<Seen("PERSON_IN", 2), Seen("FORKLIFT_OUT", 1)>>)}

Scenarios ==
    {[sdm |-> "proximity", requests |-> SourceRequests, weather |-> {"release", "timeout"}],
     [sdm |-> "proximity", requests |-> InputRequests, weather |-> {"release", "gap", "loss"}],
     [sdm |-> "proximity", requests |-> SensorRequests, weather |-> {"release"}],
     [sdm |-> "proximity", requests |-> TierRequests, weather |-> {"release", "miss"}],
     [sdm |-> "atlProximity", requests |-> PairRequests, weather |-> {}],
     [sdm |-> "atlProximity", requests |-> {Normal(<<Near("EVENT_9", 1, 9)>>), Normal(<<Noop>>)},
      weather |-> {"release", "timeout"}],
     [sdm |-> "crossing", requests |-> PersonRequests, weather |-> {"calm"}],
     [sdm |-> "crossing", requests |-> ForkliftRequests, weather |-> {"calm"}],
     [sdm |-> "crossing",
      requests |-> {Normal(<<Seen("PERSON_IN", 1), Seen("TRIPWIRE", 2)>>), Normal(<<Noop>>)},
      weather |-> {"release", "timeout"}],
     [sdm |-> "acks", requests |-> {}, weather |-> {}]}

MCRequests == UNION {s.requests : s \in Scenarios}
MCPairKeys == UNION {{PairKey(r.evs[i].pair) : i \in PairEvents(r)} : r \in MCRequests}
MCObjects == JunctionKinds \cup {Nobody}

MCInit ==
    /\ ProximityInit /\ CrossingInit /\ AtlProximityInit /\ AckInit
    /\ scenario \in Scenarios /\ (scenario.sdm # "acks" => issuer = "atl")

MCNext ==
    /\ \/ scenario.sdm = "proximity" /\ ProximityNext /\ UNCHANGED <<crossingVars, pairVars, ackVars>>
       \/ scenario.sdm = "crossing" /\ CrossingNext /\ UNCHANGED <<proximityVars, pairVars, ackVars>>
       \/ scenario.sdm = "atlProximity" /\ AtlProximityNext /\ UNCHANGED <<proximityVars, crossingVars, ackVars>>
       \/ scenario.sdm = "acks" /\ AckNext /\ UNCHANGED <<proximityVars, crossingVars, pairVars, controlVars>>
    /\ req' \in scenario.requests \cup {NoRequest}
    /\ "GatewayDecisionSequence" \in faults' => "gap" \in scenario.weather
    /\ pc'["heartbeat"] # "idle" \/ miss' # miss => "miss" \in scenario.weather
    /\ overdue' => "timeout" \in scenario.weather
    /\ txLost' > 0 => "loss" \in scenario.weather
    /\ pc'["release"] # "idle" => "release" \in scenario.weather
    /\ "calm" \in scenario.weather =>
         /\ clock' # clock => pc["listener"] = "idle" /\ pending = NoCommand
         /\ pc["listener"] # "idle" => pc' # pc \/ resolved' # resolved
    /\ UNCHANGED scenario

MCSpec == MCInit /\ [][MCNext]_<<proximityVars, crossingVars, pairVars, controlVars, ackVars, scenario>>

MCConfigs ==
    {<<"EVENT_8", "EVENT_9", "EVENT_10", Unknown, Unknown, Unknown>>,
     <<"EVENT_8", "EVENT_9", Unknown, Unknown, Unknown, Unknown>>,
     <<"EVENT_8", "EVENT_9", "EVENT_9", "EVENT_10", "EVENT_1", "EVENT_2">>}
MCPhysical == {"EVENT_1", "EVENT_2", "EVENT_8", "EVENT_9", "EVENT_10"}
MCCommands == {"NORMAL", "REDUCE", "ALARM", "STOP"}
=============================================================================
