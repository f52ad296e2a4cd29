---------------------------- MODULE TrustVerdicts ----------------------------
(***************************************************************************)
(* Which sources the daemon trusts, and what the decision modules come to  *)
(* believe of them (NvPSSSafetyEventManager.cpp).  A monitor's trust       *)
(* report changes the trust table first and is queued afterwards; in a 3D  *)
(* deployment the health of the camera group is derived from its members   *)
(* and announced by the daemon itself; every status interval the verdicts  *)
(* that stand are sent again.  Each of these happens on a thread of its    *)
(* own, so the table, the input queue and the two staging lanes disagree   *)
(* for a while.                                                            *)
(*                                                                         *)
(* An event is [type, src, cause, named, late]: src is a camera, Group or  *)
(* AI; named says whether its sensorIdentifier is the configured one, is   *)
(* left out, or contradicts it; late that its timestamp is outside         *)
(* timeWindowSize.  Popping an event and reading the trust table are one   *)
(* step here: only one thread pops, and what others append to the queue in *)
(* between does not change what was popped.                                *)
(***************************************************************************)
EXTENDS Integers, Sequences, FiniteSets, Functions

CONSTANTS
    Cams,         \* pipelineIDs of the configured cameras
    Group,        \* pipelineID of the camera group of a 3D deployment
    AI,           \* pipelineID 0: the AI pipeline as a whole
    MaxReports,   \* bound: trust reports of the monitors
    MaxData,      \* bound: ordinary events
    MaxRestarts,  \* bound: restarts of the decision module
    MaxTransit    \* bound: events under way at which nothing more is offered

ASSUME TrustAssumption ==
    \* finitely many cameras: any of them can be listed
    /\ \A S \in SUBSET Cams : Cardinality(S) \in Nat /\ ExistsBijection(1..Cardinality(S), S)
    /\ Group \notin Cams /\ AI \notin Cams \cup {Group}
    /\ {MaxReports, MaxData, MaxRestarts, MaxTransit} \subseteq Nat

VARIABLES
    members,      \* sensorGroupMembers_; empty in a 2D deployment
    invalid,      \* invalidSensors: the cause recorded for a camera, or "valid"
    aiInvalid,    \* aiPipelineInvalidGlobal
    emitted,      \* lastEmittedGroupVerdict_
    rpc,          \* what the RPC thread still has to append to the queue
    snap,         \* what ReassertStandingVerdicts has collected
    queue,        \* inputSafetyEventQue
    lane,         \* the staging lanes: events with the trust they were queued with
    sdm,          \* the decision module: [failed, init, ai]
    owed,         \* sources whose verdict the next re-assertion has to bring
    healthySeen,  \* a member has been healthy since the group's loss was last announced
    budget        \* [reports, data, restarts] used

trustVars == <<members, invalid, aiInvalid, emitted>>
tvVars == <<trustVars, rpc, snap, queue, lane, sdm, owed, healthySeen, budget>>

Sources == Cams \cup {Group, AI}
TrustReports == {"SENSOR_INVALID", "SENSOR_VALID", "AI_PIPELINE_INVALID", "AI_PIPELINE_VALID"}
Ev(type, src, cause, named, late) ==
    [type |-> type, src |-> src, cause |-> cause, named |-> named, late |-> late]

\* SetSensorGroup, SetSensorConfig
SensorConfig == Cams \cup (IF members = {} THEN {} ELSE {Group})
IsSensorGroupId(src) == members # {} /\ src = Group

\* The sources whose loss the decision modules latch on (IsRequiredSourcePipeline).
IsRequiredSourcePipeline(src) ==
    IF members # {} THEN src = Group ELSE src \in SensorConfig

\* Bound: reports and re-assertions come seldom enough for the lanes to drain meanwhile.
Room == Len(queue) + Len(lane.critical) + Len(lane.operational) < MaxTransit

TrustInit ==
    /\ members \in {{}, Cams}
    /\ invalid = [c \in Cams |-> "valid"]
    /\ aiInvalid = FALSE
    /\ emitted = "Trusted"
    /\ rpc = <<>> /\ snap = <<>> /\ queue = <<>>
    /\ lane = [critical |-> <<>>, operational |-> <<>>]
    /\ sdm = [failed |-> {}, init |-> {}, ai |-> FALSE]
    /\ owed = {}
    /\ healthySeen = TRUE
    /\ budget = [reports |-> 0, data |-> 0, restarts |-> 0]

\* Mutant: a group with no healthy member that is only initialising reads as trusted.
VerdictBinary(table) ==
    IF \A m \in members : table[m] = "FAULT" THEN "Untrusted" ELSE "Trusted"

\* EvaluateGroupVerdictLocked over a trust table
EvaluateGroupVerdict(table) ==
    IF \E m \in members : table[m] = "valid" THEN "Trusted"
    ELSE IF \E m \in members : table[m] = "INIT" THEN "Pending"
    ELSE "Untrusted"

\* QueryTrustState: a group is only its verdict, and Pending reads as trusted.
QueryTrustState(src) ==
    [sensor |-> IF IsSensorGroupId(src) THEN EvaluateGroupVerdict(invalid) # "Untrusted"
                ELSE src \notin Cams \/ invalid[src] = "valid",
     ai |-> ~aiInvalid]

\* The group's verdict is announced when it changes; Pending leaves the modules as they are.
Announces(verdict) == members # {} /\ verdict \notin {"Pending", emitted}

\* What a report makes of the table and of the verdict the modules were last told.
OnTrustReport(ev) ==
    LET table == CASE ev.type = "SENSOR_INVALID" -> [invalid EXCEPT ![ev.src] = ev.cause]
                   [] ev.type = "SENSOR_VALID" -> [invalid EXCEPT ![ev.src] = "valid"]
                   [] OTHER -> invalid
        verdict == EvaluateGroupVerdict(table)
        emit == ev.src \in Cams /\ Announces(verdict)
        announced == Ev(IF verdict = "Untrusted" THEN "SENSOR_INVALID" ELSE "SENSOR_VALID",
                        Group, IF verdict = "Untrusted" THEN "FAULT" ELSE "none", "right", FALSE)
    IN  /\ invalid' = table
        /\ aiInvalid' = IF ev.src = AI THEN ev.type = "AI_PIPELINE_INVALID" ELSE aiInvalid
        /\ emitted' = IF emit THEN verdict ELSE emitted
        /\ rpc' = IF emit THEN <<announced, ev>> ELSE <<ev>>
        /\ healthySeen' = (\/ \E m \in members : table[m] = "valid"
                           \/ healthySeen /\ ~(emit /\ verdict = "Untrusted"))

\* A monitor's report, as the RPC server admits it.  A client's report on the group
\* is refused before the table is touched and changes nothing.
Report(ev) ==
    /\ rpc = <<>>
    /\ budget.reports < MaxReports /\ Room
    /\ ~IsSensorGroupId(ev.src)
    /\ OnTrustReport(ev)
    /\ budget' = [budget EXCEPT !.reports = @ + 1]
    /\ owed' = IF ev.late THEN owed \cup {ev.src} ELSE owed
    /\ UNCHANGED <<members, snap, queue, lane, sdm>>

Reports ==
    \/ \E c \in Cams, named \in {"right", "empty", "wrong"}, late \in BOOLEAN :
        \/ \E cause \in {"INIT", "FAULT"} : Report(Ev("SENSOR_INVALID", c, cause, named, late))
        \/ Report(Ev("SENSOR_VALID", c, "none", named, late))
    \/ \E type \in {"AI_PIPELINE_INVALID", "AI_PIPELINE_VALID"} :
        Report(Ev(type, AI, "none", "right", FALSE))

\* EmitGroupTrustEvent, then the RPC server: each appends under the queue's own lock.
Append1 ==
    /\ rpc # <<>>
    /\ queue' = Append(queue, Head(rpc))
    /\ rpc' = Tail(rpc)
    /\ UNCHANGED <<trustVars, snap, lane, sdm, owed, healthySeen, budget>>

\* An ordinary event of a camera or of the group, accepted by the RPC server.
Data(src, named) ==
    /\ rpc = <<>>
    /\ budget.data < MaxData /\ Room
    /\ queue' = Append(queue, Ev("EVENT", src, "none", named, FALSE))
    /\ budget' = [budget EXCEPT !.data = @ + 1]
    /\ UNCHANGED <<trustVars, rpc, snap, lane, sdm, owed, healthySeen>>

\* The verdicts that stand, as ReassertStandingVerdicts reads them under the lock: the
\* AI pipeline's, then the group's or each camera's.
StandingAi == IF aiInvalid THEN <<Ev("AI_PIPELINE_INVALID", AI, "none", "right", FALSE)>> ELSE <<>>
StandingCameras ==
    LET down == {c \in Cams : invalid[c] # "valid"}
        order == CHOOSE f \in Bijection(1..Cardinality(down), down) : TRUE
    IN  [i \in 1..Cardinality(down) |-> Ev("SENSOR_INVALID", order[i], invalid[order[i]], "right", FALSE)]

\* Mutant: only the AI pipeline's verdict is re-sent.
StandingAiOnly == StandingAi

Standing ==
    StandingAi \o
    (IF members = {} THEN StandingCameras
     ELSE IF emitted = "Untrusted" THEN <<Ev("SENSOR_INVALID", Group, "FAULT", "right", FALSE)>>
     ELSE <<>>)

\* ReassertStandingVerdicts, its first half: the snapshot.
Snapshot ==
    /\ snap = <<>> /\ Room
    /\ snap' = Standing
    /\ UNCHANGED <<trustVars, rpc, queue, lane, sdm, owed, healthySeen, budget>>

\* ... and its second half: the events are appended in one go.
PushSnapshot ==
    /\ snap # <<>>
    /\ queue' = queue \o snap
    /\ snap' = <<>>
    /\ owed' = owed \ {e.src : e \in Range(snap) \cap Range(Standing)}
    /\ UNCHANGED <<trustVars, rpc, lane, sdm, healthySeen, budget>>

\* ValidateEventSource: asked of a trusted source only.
ValidateEventSource(ev) ==
    \/ ev.src = AI
    \/ /\ ev.src \in SensorConfig
       /\ \/ ev.named = "right"
          \/ /\ ev.named = "empty"
             /\ ~IsSensorGroupId(ev.src)
             /\ ev.type \in TrustReports

\* NvPSSClassifyPsdSeverity decides the lane.
LaneOf(ev, trust) ==
    IF ev.type \in TrustReports \/ ~trust.sensor \/ ~trust.ai THEN "critical" ELSE "operational"

\* Mutant: identity is checked before trust.
HandleIdentityFirst ==
    LET ev == Head(queue)
        trust == QueryTrustState(ev.src)
        l == LaneOf(ev, trust)
    IN  /\ queue # <<>>
        /\ queue' = Tail(queue)
        /\ lane' = IF ~ValidateEventSource(ev) THEN lane
                   ELSE [lane EXCEPT ![l] = Append(@, [ev |-> ev, trust |-> trust])]
        /\ UNCHANGED <<trustVars, rpc, snap, sdm, owed, healthySeen, budget>>

\* The event processor takes one event (HandleFusedEvents with fusion off, and the same
\* route for trust reports with fusion on): an untrusted source's event goes on as
\* evidence, a trusted one's only under its own name.
HandleEvent ==
    LET ev == Head(queue)
        trust == QueryTrustState(ev.src)
        untrusted == ~trust.sensor \/ ~trust.ai
        l == LaneOf(ev, trust)
    IN  /\ queue # <<>>
        /\ queue' = Tail(queue)
        /\ lane' = IF ~untrusted /\ ~ValidateEventSource(ev) THEN lane
                   ELSE [lane EXCEPT ![l] = Append(@, [ev |-> ev, trust |-> trust])]
        /\ UNCHANGED <<trustVars, rpc, snap, sdm, owed, healthySeen, budget>>

\* What one delivered event does to the decision module's view of a source
\* (updateSensorHealthFromDecisionRequest).
Hears(view, ev, healthy, trusted) ==
    IF ev.late \/ ~IsRequiredSourcePipeline(ev.src) THEN view
    ELSE IF ev.type = "SENSOR_INVALID" \/ ~healthy
    THEN IF ev.cause = "INIT"
         THEN [view EXCEPT !.init = IF ev.type = "SENSOR_INVALID" THEN @ \cup {ev.src} ELSE @]
         ELSE IF ev.type # "SENSOR_INVALID" /\ ev.src \in view.init THEN view
         ELSE [view EXCEPT !.failed = @ \cup {ev.src}]
    ELSE IF ev.type = "SENSOR_VALID" \/ (healthy /\ trusted)
    THEN [view EXCEPT !.failed = @ \ {ev.src}, !.init = @ \ {ev.src}]
    ELSE view

\* ... and of the AI pipeline (SdmAiPipelineVerdictApply).
HearsAi(view, ev) ==
    IF ev.src = AI /\ ~ev.late THEN [view EXCEPT !.ai = ev.type = "AI_PIPELINE_INVALID"] ELSE view

\* buildDecisionRequestFromQueuedEvents stamps the trust of now and of then; the lanes
\* take turns when a critical send has failed, so either may go next.
Deliver(l) ==
    LET q == lane[l][1]
        now == QueryTrustState(q.ev.src)
        healthy == now.sensor /\ q.trust.sensor
        trusted == now.ai /\ q.trust.ai
        after == HearsAi(Hears(sdm, q.ev, healthy, trusted), q.ev)
        pendingClear == q.ev.type = "EVENT" /\ Group \in sdm.failed \ after.failed
    IN  /\ lane[l] # <<>>
        /\ lane' = [lane EXCEPT ![l] = Tail(@)]
        /\ sdm' = after
        /\ owed' = IF pendingClear THEN owed \cup {Group} ELSE owed
        /\ UNCHANGED <<trustVars, rpc, snap, queue, healthySeen, budget>>

\* The decision module restarts with nothing failed.
Restart ==
    /\ budget.restarts < MaxRestarts
    /\ sdm' = [failed |-> {}, init |-> {}, ai |-> FALSE]
    /\ owed' = Sources
    /\ budget' = [budget EXCEPT !.restarts = @ + 1]
    /\ UNCHANGED <<trustVars, rpc, snap, queue, lane, healthySeen>>

TrustNext ==
    \/ Reports
    \/ \E src \in SensorConfig, named \in {"right", "wrong"} : Data(src, named)
    \/ Append1 \/ Snapshot \/ PushSnapshot \/ HandleEvent
    \/ \E l \in {"critical", "operational"} : Deliver(l)
    \/ Restart

\* Each of the daemon's threads keeps running, and the status interval keeps coming.
TrustFairness ==
    /\ WF_tvVars(Append1) /\ WF_tvVars(PushSnapshot) /\ WF_tvVars(HandleEvent)
    /\ WF_tvVars(Snapshot)
    /\ \A l \in {"critical", "operational"} : WF_tvVars(Deliver(l))

TrustSpec == TrustInit /\ [][TrustNext]_tvVars /\ TrustFairness

----------------------------------------------------------------------------
TrustTypeOK ==
    /\ invalid \in [Cams -> {"valid", "INIT", "FAULT"}]
    /\ emitted \in {"Trusted", "Untrusted"}
    /\ sdm.failed \subseteq Sources /\ sdm.init \subseteq Sources
    /\ owed \subseteq Sources
    /\ Len(rpc) <= 2 /\ Len(queue) <= MaxTransit + 3 + Cardinality(Cams)

\* A source the daemon holds failed, for a reason that is not start-up.
Fails(src) ==
    IF IsSensorGroupId(src) THEN EvaluateGroupVerdict(invalid) = "Untrusted"
    ELSE src \in Cams /\ invalid[src] = "FAULT"

InFlight == {rpc[i].src : i \in 1..Len(rpc)} \cup {queue[i].src : i \in 1..Len(queue)}
            \cup UNION {{lane[l][i].ev.src : i \in 1..Len(lane[l])} : l \in DOMAIN lane}

\* Once nothing about a reviewed source is under way and no re-assertion is due, the
\* decision module holds failed every source the daemon holds failed: no order of
\* report, announcement, re-assertion and delivery loses a failure (OnTrustReport,
\* HandleFusedEvents).
FailureTold ==
    \A src \in Cams \cup {Group} :
        IsRequiredSourcePipeline(src) /\ Fails(src) /\ src \notin InFlight \cup owed
            => src \in sdm.failed

\* The same of the AI pipeline's verdict.
AiTold == AI \notin InFlight \cup owed => (aiInvalid => sdm.ai)

\* What the daemon holds failed, a source or the AI pipeline, the decision module holds
\* failed too, once nothing about it is under way.
VerdictsTold == FailureTold /\ AiTold

GroupCleared == Group \in sdm.failed /\ Group \notin sdm'.failed
ByReport ==
    \E l \in DOMAIN lane :
        /\ lane[l] # <<>> /\ lane'[l] = Tail(lane[l])
        /\ Head(lane[l]).ev.type = "SENSOR_VALID"

\* A report of the group's loss that the decision module has still to hear.
LossFollows ==
    \E e \in Range(rpc) \cup Range(queue) \cup {q.ev : q \in Range(lane.critical)} :
        e.src = Group /\ e.type = "SENSOR_INVALID"

\* The group's own SENSOR_VALID withdraws its failure only if a member has been healthy
\* since the loss was announced, or if the next announcement of a loss follows behind
\* it: a restart of the monitor, with every camera initialising, withdraws nothing
\* (EvaluateGroupVerdictLocked's Pending).
ValidEarned == [][GroupCleared /\ ByReport => healthySeen \/ LossFollows']_tvVars

\* A source that stands failed is eventually failed in the decision module too, or
\* recovers first, however often the module restarts or a report arrives too late to
\* count (ReassertStandingVerdicts).
StandingHeard ==
    \A src \in Cams \cup {Group} :
        IsRequiredSourcePipeline(src) /\ Fails(src) ~> (src \in sdm.failed \/ ~Fails(src))

\* "Pending emits NOTHING -- leaving the SDM's failed bit unchanged is the whole point":
\* while no member has been healthy, nothing the module is sent withdraws the group's
\* failure.
PendingKeepsFailure ==
    [][GroupCleared /\ budget'.restarts = budget.restarts => healthySeen \/ LossFollows']_tvVars
=============================================================================
