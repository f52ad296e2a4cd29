------------------------------ MODULE SdmControl ------------------------------
(***************************************************************************)
(* The control every command-sending decision module is built on: the      *)
(* proximity, crossing-junction and combined ATL-proximity modules carry   *)
(* the same listener, watchdogs, periodic re-assertion and PLC release and *)
(* differ in how a request becomes a command.  Here the command a request  *)
(* leads to is arbitrary; the modules of the three SDMs fill it in.        *)
(* The lines mapped are ProximityControl.cpp's.                            *)
(*                                                                         *)
(* transition is the owner of faultTransitionMtx, send of decisionSendMtx. *)
(* Only the release keeps decisionSendMtx over several steps, and it takes *)
(* faultTransitionMtx first, so the listener never waits for it.  STOP     *)
(* stands for the pair STOP, SW_ERROR of a safe hold as well.              *)
(***************************************************************************)
EXTENDS SdmRequestState

CONSTANTS
    Commands,       \* the commands this SDM may send, STOP and NORMAL among them
    Reviewed,       \* gReviewedSensors
    WarnThreshold,  \* g_warnThresholdCfg
    MaxHbFailures,  \* g_maxHbFailuresCfg
    MaxTxLost,      \* bound: commands that do not reach the PLC
    NoRequest

ASSUME ControlAssumption ==
    /\ WarnThreshold \in Nat /\ MaxHbFailures \in Nat /\ WarnThreshold < MaxHbFailures
    /\ MaxTxLost \in Nat
    /\ {"STOP", "NORMAL"} \subseteq Commands
    /\ NoRequest \notin Requests

VARIABLES
    faults,      \* hbFaultLatched, decisionFreshnessFaultActive, ..., aiPipelineInvalidActive
    sub,         \* pssSubCauseActive
    suppress,    \* pssErrorFusionSuppressLatched
    latch,       \* safeStateLatchCauses
    tier2,       \* hbTier2SafeHoldActive
    miss,        \* prevMiss of the heartbeat watchdog
    overdue,     \* the time since lastValidDecisionRequestTime exceeds the timeout
    failed,      \* failedSafetyRelevantSensorMask
    initPending, \* saimInitPendingSensorMask
    seen,        \* sourcePresenceSeen
    held,        \* sourceInputUnusableSeen
    active,      \* proximityActiveCommand
    plc,         \* the command the PLC received last
    txLost,      \* commands lost so far
    transition,  \* owner of faultTransitionMtx
    send,        \* owner of decisionSendMtx
    pc,          \* where each thread is
    req,         \* the listener's request
    sensorLatch, \* sensorLatchEntered
    snap,        \* releaseLatchSnapshot
    raised,      \* history: a watchdog raised a fault since releaseLatchSnapshot
    gone         \* history: the sources the latest evidence says are lost

faultVars == <<faults, sub, suppress, latch, tier2>>
sourceVars == <<failed, initPending, seen, held, gone>>
output == <<active, plc, txLost>>
locks == <<transition, send>>
local == <<req, sensorLatch, snap, raised>>
controlVars == <<faultVars, miss, overdue, sourceVars, output, locks, pc, local>>

Threads == {"listener", "release", "heartbeat", "freshness"}
Free == "free"

FlagCauses == {"GatewayHb", "DecisionFreshness", "GatewayDecisionSequence",
               "AllSensorsFailed", "AiPipelineInvalid"}
LatchCauses == FlagCauses \cup {"Pss"}

\* The state after resetSafeStateFaultsForLaunch and the launch of the threads.
ControlInit ==
    /\ faults = {} /\ sub = {} /\ suppress = FALSE /\ latch = {} /\ tier2 = FALSE
    /\ miss = 0 /\ overdue = FALSE
    /\ failed = {} /\ initPending = {} /\ seen = {} /\ held = {}
    /\ active = "NORMAL" /\ plc = "NORMAL" /\ txLost = 0
    /\ transition = Free /\ send = Free
    /\ pc = [t \in Threads |-> "idle"]
    /\ req = NoRequest /\ sensorLatch = FALSE
    /\ snap = {} /\ raised = FALSE /\ gone = {}

\* activeSafeLatchCauses
ActiveCauses ==
    faults \cup (IF tier2 THEN {"GatewayHb"} ELSE {}) \cup (IF sub # {} THEN {"Pss"} ELSE {})

\* What the periodic re-assertion looks at before it repeats a command.
MustHold == latch # {} \/ suppress \/ tier2

-----------------------------------------------------------------------------
(* Shared steps. *)

Goto(t, label) == pc' = [pc EXCEPT ![t] = label]

\* sendDecisionCommand: the PLC gets it, or it is lost.
Send(command) ==
    \/ plc' = command /\ txLost' = txLost
    \/ txLost < MaxTxLost /\ plc' = plc /\ txLost' = txLost + 1

\* sendProximitySafeHold, as the listener sends it: the active command is STOP too.
Hold == Send("STOP") /\ active' = "STOP"

\* sendLatchedProximitySafeHold: the active command stays.
LatchedHold == send = Free /\ Send("STOP") /\ UNCHANGED active

\* markPssSubCause, for every cause in S
MarkPss(S) == sub' = sub \cup S /\ suppress' = TRUE /\ latch' = latch \cup {"Pss"}

\* clearPssSubCause, for every cause in S
ClearPss(S) ==
    /\ sub' = sub \ S
    /\ suppress' = (suppress /\ ~(sub \cap S # {} /\ sub \subseteq S))

\* mark...Latched: the flag and its latch bit; a flag already up sets neither.
MarkFault(c) ==
    /\ faults' = faults \cup {c}
    /\ latch' = IF c \in faults THEN latch ELSE latch \cup {c}

-----------------------------------------------------------------------------
(* psdGatewayEventListener and processDecisionRequestLocked: one packet,    *)
(* under faultTransitionMtx.                                                *)

Step(at, next) == pc["listener"] = at /\ Goto("listener", next) /\ UNCHANGED transition

\* The request is done with: the listener leaves the critical section.
Done(at) ==
    /\ pc["listener"] = at /\ Goto("listener", "idle")
    /\ transition' = Free /\ req' = NoRequest /\ sensorLatch' = FALSE

\* The sequence check (sdmGatewayDecisionSequenceObserve, an input here), then
\* markDecisionRequestFresh.  A duplicate or invalid packet is dropped unseen.
Receive(r, gap) ==
    /\ pc["listener"] = "idle" /\ transition = Free
    /\ transition' = "listener" /\ req' = r /\ Goto("listener", "ai")
    /\ IF gap
       THEN /\ faults' = (faults \cup {"GatewayDecisionSequence"}) \ {"DecisionFreshness"}
            /\ IF "GatewayDecisionSequence" \in faults
               THEN UNCHANGED <<latch, plc, txLost>>
               ELSE latch' = latch \cup {"GatewayDecisionSequence"} /\ Send("STOP")
       ELSE /\ faults' = faults \ {"GatewayDecisionSequence", "DecisionFreshness"}
            /\ UNCHANGED <<latch, plc, txLost>>
    /\ overdue' = FALSE
    /\ UNCHANGED <<sub, suppress, tier2, miss, sourceVars, active, send, sensorLatch, snap, raised>>

\* updateAiPipelineTrustFromDecisionRequest and the hold on its edge
ApplyAiVerdicts ==
    /\ Step("ai", "presence")
    /\ LET v == AiPipelineVerdictApply("AiPipelineInvalid" \in faults, req)
       IN  /\ faults' = IF v.active THEN faults \cup {"AiPipelineInvalid"}
                                    ELSE faults \ {"AiPipelineInvalid"}
           /\ latch' = IF v.saw THEN latch \cup {"AiPipelineInvalid"} ELSE latch
           /\ IF v.entered THEN Hold ELSE UNCHANGED output
    /\ UNCHANGED <<sub, suppress, tier2, miss, overdue, sourceVars, send, local>>

ApplySourcePresence ==
    /\ Step("presence", "input")
    /\ LET d == SourcePresenceEvaluate(seen, req)
           entered == d.raised \ sub
       IN  /\ seen' = d.seen
           /\ IF entered = {}
              THEN ClearPss(d.cleared) /\ UNCHANGED <<latch, output>>
              ELSE /\ Hold
                   /\ sub' = (sub \ d.cleared) \cup entered
                   /\ suppress' = TRUE /\ latch' = latch \cup {"Pss"}
    /\ gone' = GoneAfter(gone, req)
    /\ UNCHANGED <<faults, tier2, miss, overdue, failed, initPending, held, send, local>>

ApplySourceInputState ==
    /\ Step("input", "health")
    /\ LET d == SourceInputStateEvaluate(held, req)
       IN  /\ held' = d.held
           /\ IF d.raised \subseteq sub
              THEN ClearPss(d.cleared) /\ UNCHANGED <<latch, output>>
              ELSE Hold /\ MarkPss(d.raised)
    /\ UNCHANGED <<faults, tier2, miss, overdue, failed, initPending, seen, gone, send, local>>

\* updateSensorHealthFromDecisionRequest, one event: [failed, pending, active, latched]
SensorHealth(h, ev) ==
    LET relevant == ~ev.stale /\ ev.type # "PSS_STATUS_NOOP" /\ ev.sensor \in Reviewed
        bad == relevant /\ (ev.type = "SENSOR_INVALID" \/ ~ev.healthy)
        seed == bad /\ ev.cause = "SAIM_INIT"
        fails == bad /\ ~seed /\ (ev.type = "SENSOR_INVALID" \/ ev.sensor \notin h.pending)
        recovers == relevant /\ ~bad /\ (ev.type = "SENSOR_VALID" \/ (ev.healthy /\ ev.trusted))
        mask == IF fails THEN h.failed \cup {ev.sensor}
                ELSE IF recovers THEN h.failed \ {ev.sensor} ELSE h.failed
        all == Reviewed \subseteq mask
    IN  [failed |-> mask,
         pending |-> IF seed /\ ev.type = "SENSOR_INVALID" THEN h.pending \cup {ev.sensor}
                     ELSE IF recovers THEN h.pending \ {ev.sensor} ELSE h.pending,
         active |-> IF fails \/ recovers THEN all ELSE h.active,
         latched |-> h.latched \/ ((fails \/ recovers) /\ all /\ ~h.active)]

\* ... and all of them in order, from what is known before: element i is after event i.
SensorHealths(start, evs) ==
    LET h[i \in 0..Len(evs)] == IF i = 0 THEN start ELSE SensorHealth(h[i - 1], evs[i])
    IN  h

UpdateSensorHealth ==
    /\ Step("health", "mode")
    /\ LET start == [failed |-> failed, pending |-> initPending,
                     active |-> "AllSensorsFailed" \in faults, latched |-> FALSE]
           end == SensorHealths(start, req.evs)[Len(req.evs)]
       IN  /\ failed' = end.failed /\ initPending' = end.pending
           /\ faults' = IF end.active THEN faults \cup {"AllSensorsFailed"}
                                      ELSE faults \ {"AllSensorsFailed"}
           /\ latch' = IF end.latched THEN latch \cup {"AllSensorsFailed"} ELSE latch
           /\ sensorLatch' = end.latched
    /\ UNCHANGED <<sub, suppress, tier2, miss, overdue, seen, held, gone, output, send, req, snap, raised>>

\* The PSS mode: a request not in ERROR clears what it refutes; a no-op ends there.
ApplyMode ==
    /\ pc["listener"] = "mode"
    /\ IF req.mode = "ERROR"
       THEN Step("mode", "swFail") /\ UNCHANGED <<sub, suppress, req, sensorLatch>>
       ELSE IF IsNoopOnly(req)
       THEN /\ ClearPss({"MODE_ERROR"} \cup
                        IF IsGatewayCommRecovered(req) THEN {"GATEWAY_COMM"} ELSE {})
            /\ Done("mode")
       ELSE /\ ClearPss({"MODE_ERROR"} \cup
                        IF ClearsPssSwFail(req) THEN {"SW_FAIL", "GATEWAY_COMM"} ELSE {})
            /\ Step("mode", "swFail") /\ UNCHANGED <<req, sensorLatch>>
    /\ UNCHANGED <<faults, latch, tier2, miss, overdue, sourceVars, output, send, snap, raised>>

\* applySwFailEvents, then the PSS-ERROR return, the SW_FAIL return or the
\* sensor-latch return; what is left goes to the decision.
ApplySwFailEvents ==
    /\ pc["listener"] = "swFail"
    /\ LET causes == SwFailSubCausesRaised(req)
       IN  /\ IF causes # {} THEN Hold /\ MarkPss(causes)
              ELSE IF sensorLatch /\ req.mode # "ERROR"
              THEN Hold /\ UNCHANGED <<sub, suppress, latch>>
              ELSE UNCHANGED <<sub, suppress, latch, output>>
           /\ IF req.mode = "ERROR" THEN Step("swFail", "modeError") /\ UNCHANGED <<req, sensorLatch>>
              ELSE IF causes # {} \/ sensorLatch THEN Done("swFail")
              ELSE Step("swFail", "decide") /\ UNCHANGED <<req, sensorLatch>>
    /\ UNCHANGED <<faults, tier2, miss, overdue, sourceVars, send, snap, raised>>

ApplyModeError ==
    /\ Hold /\ MarkPss({"MODE_ERROR"})
    /\ Done("modeError")
    /\ UNCHANGED <<faults, tier2, miss, overdue, sourceVars, send, snap, raised>>

\* No event of the request takes part in the decision.
NoDecision ==
    /\ Done("decide")
    /\ UNCHANGED <<faultVars, miss, overdue, sourceVars, output, send, snap, raised>>

\* The decision: recorded, and sent unless a hold stands.
Decide(command) ==
    /\ Done("decide")
    /\ active' = command
    /\ Send(IF tier2 \/ latch # {} THEN "STOP" ELSE command)
    /\ UNCHANGED <<faultVars, miss, overdue, sourceVars, send, snap, raised>>

RequestSteps ==
    \/ ApplyAiVerdicts \/ ApplySourcePresence \/ ApplySourceInputState \/ UpdateSensorHealth
    \/ ApplyMode \/ ApplySwFailEvents \/ ApplyModeError

-----------------------------------------------------------------------------
(* handleSafeReleaseRequest, under both locks. *)

ReleaseRequested ==
    /\ pc["release"] = "idle" /\ transition = Free
    /\ transition' = "release" /\ Goto("release", "check")
    /\ UNCHANGED <<faultVars, miss, overdue, sourceVars, output, send, local>>

\* SAFE_RELEASE_DENIED and the hold while a cause is active, else releaseLatchSnapshot.
ReleaseCheck ==
    /\ pc["release"] = "check" /\ send = Free
    /\ IF ActiveCauses # {}
       THEN /\ LatchedHold /\ transition' = Free /\ Goto("release", "idle")
            /\ UNCHANGED <<send, snap, raised>>
       ELSE /\ send' = "release" /\ snap' = latch /\ raised' = FALSE
            /\ Goto("release", "answer") /\ UNCHANGED <<transition, output>>
    /\ UNCHANGED <<faultVars, miss, overdue, sourceVars, req, sensorLatch>>

ReleaseEnd ==
    /\ transition' = Free /\ send' = Free /\ Goto("release", "idle")
    /\ snap' = {} /\ raised' = FALSE

\* SAFE_RELEASE_ACK and NORMAL, the second whether or not the first could be sent.  If
\* either could not, the release ends with the latch up and the state as it was, even
\* where NORMAL is what the PLC was told.
ReleaseAnswer ==
    /\ pc["release"] = "answer"
    /\ \/ Send("NORMAL") /\ Goto("release", "clear") /\ UNCHANGED <<locks, snap, raised>>
       \/ txLost < MaxTxLost /\ txLost' = txLost + 1 /\ plc' \in {plc, "NORMAL"} /\ ReleaseEnd
    /\ UNCHANGED <<faultVars, miss, overdue, sourceVars, active, req, sensorLatch>>

\* The latch goes down only if it is the one read and no cause became active;
\* resetProximityStateFromPlcSafeRelease follows.  With nothing latched there is
\* nothing to re-check.
ReleaseClear ==
    /\ pc["release"] = "clear"
    /\ IF snap = {}
       THEN active' = "NORMAL" /\ UNCHANGED <<latch, tier2, plc, txLost>>
       ELSE IF latch = snap /\ ActiveCauses = {}
       THEN latch' = {} /\ active' = "NORMAL" /\ tier2' = FALSE /\ UNCHANGED <<plc, txLost>>
       ELSE Send("STOP") /\ UNCHANGED <<active, latch, tier2>>
    /\ ReleaseEnd
    /\ UNCHANGED <<faults, sub, suppress, miss, overdue, sourceVars, req, sensorLatch>>

Release == ReleaseRequested \/ ReleaseCheck \/ ReleaseAnswer \/ ReleaseClear

-----------------------------------------------------------------------------
(* gatewayHeartbeatWatchdog.  The miss count follows the time since the     *)
(* last gateway heartbeat (gatewayMissFromElapsedMs), an input here.        *)

\* clearGatewayHbFaultActive at zero misses; tier 2 ends at the warning threshold
\* without decisionSendMtx.
HbTick(m) ==
    /\ pc["heartbeat"] = "idle"
    /\ miss' = m
    /\ faults' = IF m = 0 THEN faults \ {"GatewayHb"} ELSE faults
    /\ tier2' = (tier2 /\ m > WarnThreshold)
    /\ Goto("heartbeat",
            CASE m <= WarnThreshold /\ tier2 /\ suppress -> "hold"
              [] m > WarnThreshold /\ m < MaxHbFailures /\ miss <= WarnThreshold -> "tier2"
              [] m >= MaxHbFailures -> "mark"
              [] OTHER -> "idle")
    /\ UNCHANGED <<sub, suppress, latch, overdue, sourceVars, output, locks, local>>

\* Mutant: tier 2 is entered without the hold.
HbTier2Silent ==
    /\ pc["heartbeat"] = "tier2" /\ send = Free
    /\ tier2' = TRUE
    /\ Goto("heartbeat", "idle")
    /\ UNCHANGED <<faults, sub, suppress, latch, miss, overdue, sourceVars, output, locks, local>>

HbTier2 ==
    /\ pc["heartbeat"] = "tier2"
    /\ tier2' = TRUE /\ LatchedHold
    /\ Goto("heartbeat", "idle")
    /\ UNCHANGED <<faults, sub, suppress, latch, miss, overdue, sourceVars, locks, local>>

\* markGatewayHbFaultLatched and its hold, under decisionSendMtx
HbMark ==
    /\ pc["heartbeat"] = "mark" /\ send = Free
    /\ MarkFault("GatewayHb")
    /\ IF "GatewayHb" \in faults THEN UNCHANGED output ELSE LatchedHold
    /\ Goto("heartbeat", "idle")
    /\ UNCHANGED <<sub, suppress, tier2, miss, overdue, sourceVars, locks, local>>

\* The hold of a watchdog.
WatchdogHold(t) ==
    /\ pc[t] = "hold"
    /\ LatchedHold
    /\ Goto(t, "idle")
    /\ UNCHANGED <<faultVars, miss, overdue, sourceVars, locks, local>>

HbWatchdog ==
    \/ \E m \in 0..MaxHbFailures : HbTick(m)
    \/ HbTier2 \/ HbMark \/ WatchdogHold("heartbeat")

-----------------------------------------------------------------------------
(* decisionFreshnessWatchdog: the time of the last request is read before   *)
(* the fault is marked; a request may come in between.                      *)

Timeout ==
    /\ ~overdue /\ overdue' = TRUE
    /\ UNCHANGED <<faultVars, miss, sourceVars, output, locks, pc, local>>

FreshnessExpired ==
    /\ pc["freshness"] = "idle" /\ overdue
    /\ Goto("freshness", "mark")
    /\ UNCHANGED <<faultVars, miss, overdue, sourceVars, output, locks, local>>

\* Mutant: the flag alone, its latch bit forgotten.
FreshnessMarkFlag ==
    /\ pc["freshness"] = "mark"
    /\ faults' = faults \cup {"DecisionFreshness"}
    /\ Goto("freshness", IF "DecisionFreshness" \in faults THEN "idle" ELSE "hold")
    /\ UNCHANGED <<latch, sub, suppress, tier2, miss, overdue, sourceVars, output, locks, local>>

\* markDecisionFreshnessFaultLatched, without decisionSendMtx
FreshnessMark ==
    /\ pc["freshness"] = "mark"
    /\ MarkFault("DecisionFreshness")
    /\ Goto("freshness", IF "DecisionFreshness" \in faults THEN "idle" ELSE "hold")
    /\ raised' = (raised \/ ("DecisionFreshness" \notin faults /\ pc["release"] \in {"answer", "clear"}))
    /\ UNCHANGED <<sub, suppress, tier2, miss, overdue, sourceVars, output, locks, req, sensorLatch, snap>>

FreshnessWatchdog == FreshnessExpired \/ FreshnessMark \/ WatchdogHold("freshness")

-----------------------------------------------------------------------------
\* The periodic loop: the hold while one stands, else the standing command.
Reassert(command) ==
    /\ send = Free
    /\ IF MustHold THEN Send("STOP") /\ UNCHANGED active
       ELSE Send(command) /\ active' = command
    /\ UNCHANGED <<faultVars, miss, overdue, sourceVars, locks, pc, local>>

\* A thread of the SDM that decides between requests records a command and sends it
\* if it is new and no hold stands.
Revise(command) ==
    /\ send = Free
    /\ active' = command
    /\ IF active = command \/ MustHold THEN UNCHANGED <<plc, txLost>> ELSE Send(command)
    /\ UNCHANGED <<faultVars, miss, overdue, sourceVars, locks, pc, local>>

ControlNext ==
    \/ \E r \in Requests, gap \in BOOLEAN : Receive(r, gap)
    \/ RequestSteps \/ NoDecision
    \/ \E c \in Commands : Decide(c) \/ Reassert(c) \/ Revise(c)
    \/ Release \/ HbWatchdog \/ Timeout \/ FreshnessWatchdog

ControlSpec == ControlInit /\ [][ControlNext]_controlVars

-----------------------------------------------------------------------------
(* Properties. *)

ControlTypeOK ==
    /\ faults \subseteq FlagCauses /\ sub \subseteq SubCauses /\ suppress \in BOOLEAN
    /\ latch \subseteq LatchCauses /\ snap \subseteq LatchCauses /\ tier2 \in BOOLEAN
    /\ miss \in 0..MaxHbFailures /\ overdue \in BOOLEAN
    /\ failed \subseteq Reviewed /\ initPending \subseteq Reviewed
    /\ seen \subseteq Sources /\ held \subseteq Sources /\ gone \subseteq Sources
    /\ active \in Commands /\ plc \in Commands /\ txLost \in 0..MaxTxLost
    /\ transition \in {Free, "listener", "release"} /\ send \in {Free, "release"}
    /\ req \in Requests \cup {NoRequest} /\ sensorLatch \in BOOLEAN /\ raised \in BOOLEAN

Contract == INSTANCE SafeState WITH
    Causes <- LatchCauses,
    active <- faults \cup (IF sub # {} THEN {"Pss"} ELSE {})

(* The latch keeps every cause that was active until a release that finds   *)
(* none (the contract of SafeState), with flags set and cleared by three    *)
(* threads of which the freshness watchdog takes no lock of the release's.  *)
ControlContract == Contract!Spec

(* A lost source keeps its group's sub-cause, whatever else arrives.        *)
LostSourceHeld ==
    /\ \A s \in gone : GroupOf[s] \in sub
    /\ held # {} => "INPUT_UNUSABLE" \in sub

(* No thread is between a change of state and the command it owes. *)
Settled ==
    /\ pc["listener"] = "idle" /\ pc["heartbeat"] = "idle" /\ pc["freshness"] = "idle"
    /\ send = Free

(* At rest, and with no command lost, the PLC is in STOP whenever a latch,  *)
(* a suppression or a tier-2 hold stands, although the listener, two        *)
(* watchdogs, the periodic thread and the release all send, each from flags *)
(* it read earlier.                                                         *)
HoldOnPlc == Settled /\ txLost = 0 /\ MustHold => plc = "STOP"
=============================================================================
