----------------------------- MODULE AtlSafeState -----------------------------
(***************************************************************************)
(* The safe state of the automatic-truck-loading decision module           *)
(* (ATLControl.cpp): fault causes, the latch that outlives them, the PLC   *)
(* release, and the MUTE / UNMUTE decision they guard.                     *)
(*                                                                         *)
(* Five threads: the gateway listener, the PLC receiver (release), the     *)
(* gateway-heartbeat watchdog, the freshness watchdog and the periodic     *)
(* decision.  transition is the owner of faultTransitionMtx, eval of       *)
(* decisionEvalSendMtx.  A section of safeStateLatchMtx or masterStateMtx  *)
(* is one step.  A command sent is received, or lost.                      *)
(***************************************************************************)
EXTENDS SdmRequestState

CONSTANTS
    Reviewed,       \* gReviewedSensors: the safety-relevant sensors
    WarnThreshold,  \* g_warnThresholdCfg
    MaxHbFailures,  \* g_maxHbFailuresCfg
    PersonsMax,     \* PERSONS_IN_TRAILER_MAX
    MaxTxLost,      \* bound: commands that do not reach the PLC
    Weather,        \* bound: what may go wrong outside, of "gap", "miss" and "timeout"
    NoId,           \* lastEventId before any event
    NoRequest

ASSUME AtlAssumption ==
    /\ WarnThreshold \in Nat /\ MaxHbFailures \in Nat /\ WarnThreshold < MaxHbFailures
    /\ PersonsMax \in Nat /\ MaxTxLost \in Nat
    /\ NoRequest \notin Requests

Threads == {"listener", "release", "heartbeat", "freshness", "periodic"}
Free == "free"

\* kSafeLatch*: the causes with an active flag of their own, and the other two.
FlagCauses == {"GatewayHb", "DecisionFreshness", "GatewayDecisionSequence",
               "AllSensorsFailed", "AiPipelineInvalid"}
LatchCauses == FlagCauses \cup {"Pss", "CountDrift"}

VARIABLES
    faults,      \* hbFaultLatched, decisionFreshnessFaultActive, ..., aiPipelineInvalidActive
    sub,         \* pssSubCauseActive
    suppress,    \* pssErrorFusionSuppressLatched
    latch,       \* safeStateLatchCauses
    miss,        \* g_lastGatewayHbMissCount
    overdue,     \* the time since lastValidDecisionRequestTime exceeds the timeout
    failed,      \* failedSafetyRelevantSensorMask
    initPending, \* saimInitPendingSensorMask
    seen,        \* sourcePresenceSeen
    held,        \* sourceInputUnusableSeen
    lastId,      \* lastEventId, per slot
    phys,        \* forkliftInTrailer, personsInTrailerCount, restrictedAreaViolationByPerson
    plc,         \* the decision the PLC received last
    txLost,      \* commands lost so far
    transition,  \* owner of faultTransitionMtx
    eval,        \* owner of decisionEvalSendMtx
    pc,          \* where each thread is
    req,         \* the listener: its request, the event it is at,
    idx,
    flags,       \* and sensorLatchEntered, latchEnteredThisRequest, stateChanged
    snap,        \* the releaser's releaseLatchSnapshot
    view,        \* evaluateATLDecision: the snapshot of the master state allows MUTE
    raised,      \* history: a watchdog raised a fault since releaseLatchSnapshot
    gone         \* history: the sources the latest evidence says are lost

faultVars == <<faults, sub, suppress, latch>>
sourceVars == <<failed, initPending, seen, held, lastId>>
wire == <<plc, txLost>>
locks == <<transition, eval>>
listenerVars == <<req, idx, flags>>
vars == <<faultVars, miss, overdue, sourceVars, phys, wire, locks, pc, listenerVars, snap, view, raised, gone>>

Clear == [forklift |-> FALSE, persons |-> 0, violation |-> FALSE]
NoFlags == [sensorLatch |-> FALSE, driftLatch |-> FALSE, changed |-> FALSE]

\* The state after resetSafeStateFaultsForLaunch.
Init ==
    /\ faults = {} /\ sub = {} /\ suppress = FALSE /\ latch = {}
    /\ miss = 0 /\ overdue = FALSE
    /\ failed = {} /\ initPending = {} /\ seen = {} /\ held = {}
    /\ lastId = [i \in 1..8 |-> NoId]
    /\ phys = Clear
    /\ plc = "SAFE" /\ txLost = 0
    /\ transition = Free /\ eval = Free
    /\ pc = [t \in Threads |-> "idle"]
    /\ req = NoRequest /\ idx = 1 /\ flags = NoFlags
    /\ snap = {} /\ view = FALSE
    /\ raised = FALSE /\ gone = {}

-----------------------------------------------------------------------------
(* What the flags mean. *)

\* gatewayHbTier2SafeHoldBand
Tier2 == "GatewayHb" \notin faults /\ miss > WarnThreshold /\ miss < MaxHbFailures

\* activeSafeLatchCauses; a count drift is never active.
ActiveCauses ==
    faults \cup (IF Tier2 THEN {"GatewayHb"} ELSE {}) \cup (IF sub # {} THEN {"Pss"} ELSE {})

\* safeStateLatched, pssErrorFusionSuppressLatched and the tier-2 band: repeat the hold.
MustHold == latch # {} \/ suppress \/ Tier2

\* gatewayHbSuppressFusionDecisions
HbSuppress == latch # {} \/ "GatewayHb" \in faults \/ miss > WarnThreshold

MuteAllowed(p) == p.forklift /\ p.persons = 0 /\ ~p.violation

-----------------------------------------------------------------------------
(* Shared steps. *)

Goto(t, label) == pc' = [pc EXCEPT ![t] = label]

\* sendDecisionCommand: the PLC gets it, or it is lost.
Send(command) ==
    \/ plc' = command /\ txLost' = txLost
    \/ txLost < MaxTxLost /\ plc' = plc /\ txLost' = txLost + 1

\* UNMUTE and SW_ERROR, sent by a thread that takes decisionEvalSendMtx for it.
SendHold == eval = Free /\ Send("SAFE") /\ UNCHANGED eval

\* markPssSubCause, for every cause in S
MarkPss(S) == sub' = sub \cup S /\ suppress' = TRUE /\ latch' = latch \cup {"Pss"}

\* clearPssSubCause, for every cause in S
ClearPss(S) ==
    /\ sub' = sub \ S
    /\ suppress' = (suppress /\ ~(sub \cap S # {} /\ sub \subseteq S))

\* Mutant: only the first fault latches.
MarkFaultFirst(c) ==
    /\ faults' = faults \cup {c}
    /\ latch' = IF faults = {} THEN latch \cup {c} ELSE latch

\* mark...Latched: the flag and its latch bit; a flag already up sets neither.
MarkFault(c) ==
    /\ faults' = faults \cup {c}
    /\ latch' = IF c \in faults THEN latch ELSE latch \cup {c}

-----------------------------------------------------------------------------
(* evaluateATLDecision, by the listener or the periodic thread.  Done(t) is *)
(* what follows for that thread.                                            *)

\* The listener leaves psdGatewayEventListener's critical section with its request.
Done(t) ==
    /\ Goto(t, "idle")
    /\ IF t = "listener"
       THEN transition' = Free /\ req' = NoRequest /\ idx' = 1 /\ flags' = NoFlags
       ELSE UNCHANGED <<transition, listenerVars>>

\* Mutant: the hold is not repeated.
EvalEnterSilent(t) ==
    /\ pc[t] = "eval" /\ eval = Free
    /\ IF MustHold \/ HbSuppress
       THEN Done(t) /\ UNCHANGED <<wire, eval>>
       ELSE /\ eval' = t /\ Goto(t, "snapshot")
            /\ UNCHANGED <<wire, transition, listenerVars>>
    /\ UNCHANGED <<faultVars, miss, overdue, sourceVars, phys, snap, view>>

EvalEnter(t) ==
    /\ pc[t] = "eval" /\ eval = Free
    /\ IF MustHold
       THEN SendHold /\ Done(t)
       ELSE IF HbSuppress
       THEN Done(t) /\ UNCHANGED <<wire, eval>>
       ELSE /\ eval' = t /\ Goto(t, "snapshot")
            /\ UNCHANGED <<wire, transition, listenerVars>>
    /\ UNCHANGED <<faultVars, miss, overdue, sourceVars, phys, snap, view>>

EvalSnapshot(t) ==
    /\ pc[t] = "snapshot"
    /\ view' = MuteAllowed(phys)
    /\ Goto(t, "recheck")
    /\ UNCHANGED <<faultVars, miss, overdue, sourceVars, phys, wire, locks, listenerVars, snap>>

EvalEnd(t) == eval' = Free /\ view' = FALSE /\ Done(t)

EvalRecheck(t) ==
    /\ pc[t] = "recheck"
    /\ IF MustHold
       THEN Send("SAFE") /\ EvalEnd(t)
       ELSE IF HbSuppress
       THEN EvalEnd(t) /\ UNCHANGED wire
       ELSE Goto(t, "emit") /\ UNCHANGED <<wire, locks, listenerVars, view>>
    /\ UNCHANGED <<faultVars, miss, overdue, sourceVars, phys, snap>>

EvalEmit(t) ==
    /\ pc[t] = "emit"
    /\ Send(IF view THEN "MUTE" ELSE "SAFE")
    /\ EvalEnd(t)
    /\ UNCHANGED <<faultVars, miss, overdue, sourceVars, phys, snap>>

Evaluate(t) == EvalEnter(t) \/ EvalSnapshot(t) \/ EvalRecheck(t) \/ EvalEmit(t)

\* atlPeriodicDecisionLoop wakes up.
PeriodicWake ==
    /\ pc["periodic"] = "idle"
    /\ Goto("periodic", "eval")
    /\ UNCHANGED <<faultVars, miss, overdue, sourceVars, phys, wire, locks, listenerVars, snap, view>>

-----------------------------------------------------------------------------
(* psdGatewayEventListener: one packet, under faultTransitionMtx.           *)

\* Sequence check; a duplicate or invalid packet is dropped unseen.  The result
\* (sdmGatewayDecisionSequenceObserve) is an input here.
Receive(r, gap) ==
    /\ pc["listener"] = "idle" /\ transition = Free
    /\ transition' = "listener" /\ req' = r
    /\ IF gap
       THEN /\ MarkFault("GatewayDecisionSequence")
            /\ Goto("listener", IF "GatewayDecisionSequence" \in faults
                                THEN "fresh" ELSE "sequenceHold")
       ELSE /\ faults' = faults \ {"GatewayDecisionSequence"}
            /\ Goto("listener", "fresh") /\ UNCHANGED latch
    /\ UNCHANGED <<sub, suppress, miss, overdue, sourceVars, phys, wire, eval, idx, flags, snap, view>>

\* sendLatchedSafeHold or sendPhysicalEventSafeHold in the middle of a packet.
ListenerHold(at, next) ==
    /\ pc["listener"] = at
    /\ SendHold
    /\ Goto("listener", next)
    /\ UNCHANGED <<faultVars, miss, overdue, sourceVars, phys, transition, listenerVars, snap, view>>

\* markDecisionRequestFresh
MarkFresh ==
    /\ pc["listener"] = "fresh"
    /\ overdue' = FALSE
    /\ faults' = faults \ {"DecisionFreshness"}
    /\ Goto("listener", "ai")
    /\ UNCHANGED <<sub, suppress, latch, miss, sourceVars, phys, wire, locks, listenerVars, snap, view>>

\* updateAiPipelineTrustFromDecisionRequest
ApplyAiVerdicts ==
    /\ pc["listener"] = "ai"
    /\ LET v == AiPipelineVerdictApply("AiPipelineInvalid" \in faults, req)
       IN  /\ faults' = IF v.active THEN faults \cup {"AiPipelineInvalid"}
                                    ELSE faults \ {"AiPipelineInvalid"}
           /\ latch' = IF v.saw THEN latch \cup {"AiPipelineInvalid"} ELSE latch
           /\ Goto("listener", IF v.entered THEN "aiHold" ELSE "presence")
    /\ UNCHANGED <<sub, suppress, miss, overdue, sourceVars, phys, wire, locks, listenerVars, snap, view>>

\* applySourcePresence up to the hold: clears take effect at once, a raise of an
\* inactive sub-cause waits for decisionEvalSendMtx.
ApplySourcePresence ==
    /\ pc["listener"] = "presence"
    /\ LET d == SourcePresenceEvaluate(seen, req)
           entered == d.raised \ sub
       IN  /\ seen' = d.seen
           /\ IF entered = {}
              THEN ClearPss(d.cleared) /\ UNCHANGED <<latch, wire, eval>>
              ELSE /\ SendHold
                   /\ sub' = (sub \ d.cleared) \cup entered
                   /\ suppress' = TRUE /\ latch' = latch \cup {"Pss"}
    /\ gone' = GoneAfter(gone, req)
    /\ Goto("listener", "input")
    /\ UNCHANGED <<faults, miss, overdue, failed, initPending, held, lastId, phys, transition, listenerVars, snap, view>>

\* applySourceInputState
ApplySourceInputState ==
    /\ pc["listener"] = "input"
    /\ LET d == SourceInputStateEvaluate(held, req)
       IN  /\ held' = d.held
           /\ IF d.raised \subseteq sub
              THEN ClearPss(d.cleared) /\ UNCHANGED <<latch, wire, eval>>
              ELSE SendHold /\ MarkPss(d.raised)
    /\ Goto("listener", "health")
    /\ UNCHANGED <<faults, miss, overdue, failed, initPending, seen, lastId, phys, transition, listenerVars, snap, view>>

\* One iteration of updateSensorHealthFromDecisionRequest.
UpdateSensorHealth ==
    /\ pc["listener"] = "health" /\ idx <= Len(req.evs)
    /\ LET ev == req.evs[idx]
           relevant == ~ev.stale /\ ev.type # "PSS_STATUS_NOOP" /\ ev.sensor \in Reviewed
           bad == relevant /\ (ev.type = "SENSOR_INVALID" \/ ~ev.healthy)
           seed == bad /\ ev.cause = "SAIM_INIT"
           fails == bad /\ ~seed /\ (ev.type = "SENSOR_INVALID" \/ ev.sensor \notin initPending)
           recovers == relevant /\ ~bad /\ (ev.type = "SENSOR_VALID" \/ (ev.healthy /\ ev.trusted))
           mask == IF fails THEN failed \cup {ev.sensor}
                   ELSE IF recovers THEN failed \ {ev.sensor} ELSE failed
       IN  /\ failed' = mask
           /\ initPending' = IF seed /\ ev.type = "SENSOR_INVALID" THEN initPending \cup {ev.sensor}
                             ELSE IF recovers THEN initPending \ {ev.sensor} ELSE initPending
           /\ IF ~(fails \/ recovers)
              THEN UNCHANGED <<faults, latch, flags>>
              ELSE IF Reviewed \subseteq mask
              THEN /\ MarkFault("AllSensorsFailed")
                   /\ flags' = [flags EXCEPT !.sensorLatch = @ \/ "AllSensorsFailed" \notin faults]
              ELSE faults' = faults \ {"AllSensorsFailed"} /\ UNCHANGED <<latch, flags>>
    /\ idx' = idx + 1
    /\ UNCHANGED <<sub, suppress, miss, overdue, seen, held, lastId, phys, wire, locks, pc, req, snap, view>>

\* The PSS mode: suppression goes up before the SW_FAILs of an ERROR request are
\* applied; otherwise the request clears what it refutes, and a no-op ends there.
ApplyMode ==
    /\ pc["listener"] = "health" /\ idx > Len(req.evs)
    /\ IF req.mode = "ERROR"
       THEN /\ suppress' = TRUE /\ Goto("listener", "swFail")
            /\ UNCHANGED <<sub, transition, listenerVars>>
       ELSE IF IsNoopOnly(req)
       THEN /\ ClearPss({"MODE_ERROR"} \cup
                        IF IsGatewayCommRecovered(req) THEN {"GATEWAY_COMM"} ELSE {})
            /\ Done("listener")
       ELSE /\ ClearPss({"MODE_ERROR"} \cup
                        IF ClearsPssSwFail(req) THEN {"SW_FAIL", "GATEWAY_COMM"} ELSE {})
            /\ Goto("listener", "swFail")
            /\ UNCHANGED <<transition, listenerVars>>
    /\ UNCHANGED <<faults, latch, miss, overdue, sourceVars, phys, wire, eval, snap, view>>

\* applySwFailEvents: the SW_FAILs that are neither STALE nor the last id of their slot.
NewSwFails ==
    {i \in 1..Len(req.evs) : /\ req.evs[i].type = "SW_FAIL" /\ ~req.evs[i].stale
                             /\ req.evs[i].id # lastId[i]}

ApplySwFailEvents ==
    /\ pc["listener"] = "swFail"
    /\ lastId' = [i \in DOMAIN lastId |-> IF i \in NewSwFails THEN req.evs[i].id ELSE lastId[i]]
    /\ IF NewSwFails = {}
       THEN UNCHANGED <<sub, suppress, latch, wire, eval>>
       ELSE SendHold /\ MarkPss({SwFailSubCause(req.evs[i]) : i \in NewSwFails})
    /\ IF req.mode = "ERROR"
       THEN Goto("listener", "modeError") /\ UNCHANGED <<transition, listenerVars>>
       ELSE IF NewSwFails # {}
       THEN Done("listener")
       ELSE /\ Goto("listener", IF flags.sensorLatch THEN "hold" ELSE "event")
            /\ idx' = 1 /\ UNCHANGED <<transition, req, flags>>
    /\ UNCHANGED <<faults, miss, overdue, failed, initPending, seen, held, phys, snap, view>>

ApplyModeError ==
    /\ pc["listener"] = "modeError"
    /\ SendHold /\ MarkPss({"MODE_ERROR"})
    /\ Done("listener")
    /\ UNCHANGED <<faults, miss, overdue, sourceVars, phys, snap, view>>

\* The physical events, one masterStateMtx section each.
ApplyPhysical(type) ==
    CASE type = "FORKLIFT_ENTERED" -> [phys EXCEPT !.forklift = TRUE]
      [] type = "FORKLIFT_EXITED" -> [phys EXCEPT !.forklift = FALSE]
      [] type = "PERSON_ENTERED" -> [phys EXCEPT !.persons = IF @ < PersonsMax THEN @ + 1 ELSE @]
      [] type = "PERSON_EXITED" -> [phys EXCEPT !.persons = IF @ > 0 THEN @ - 1 ELSE @]
      [] type = "ROI_VIOLATION" -> [phys EXCEPT !.violation = TRUE]
      [] type = "ROI_CLEARED" -> [phys EXCEPT !.violation = FALSE]

Physical == {"FORKLIFT_ENTERED", "FORKLIFT_EXITED", "PERSON_ENTERED", "PERSON_EXITED",
             "ROI_VIOLATION", "ROI_CLEARED"}

CountDrifts(type) ==
    \/ type = "PERSON_ENTERED" /\ phys.persons >= PersonsMax
    \/ type = "PERSON_EXITED" /\ phys.persons = 0

ApplyEvent ==
    /\ pc["listener"] = "event" /\ idx <= Len(req.evs)
    /\ LET ev == req.evs[idx]
           new == ~ev.stale /\ ev.id # lastId[idx]
           applies == new /\ ev.type \in Physical /\ ev.healthy /\ ev.trusted
           drifts == applies /\ CountDrifts(ev.type)
       IN  /\ lastId' = IF new THEN [lastId EXCEPT ![idx] = ev.id] ELSE lastId
           /\ phys' = IF applies THEN ApplyPhysical(ev.type) ELSE phys
           /\ latch' = IF drifts THEN latch \cup {"CountDrift"} ELSE latch
           /\ flags' = [flags EXCEPT !.changed = @ \/ applies,
                                     !.driftLatch = @ \/ (drifts /\ latch = {})]
    /\ idx' = idx + 1
    /\ UNCHANGED <<faults, sub, suppress, miss, overdue, failed, initPending, seen, held,
                   wire, locks, pc, req, snap, view>>

\* After the loop: hold, nothing while latched, or the immediate decision.
ApplyDone ==
    /\ pc["listener"] = "event" /\ idx > Len(req.evs)
    /\ IF flags.driftLatch
       THEN Goto("listener", "hold") /\ UNCHANGED <<transition, listenerVars>>
       ELSE IF latch = {} /\ flags.changed
       THEN Goto("listener", "eval") /\ UNCHANGED <<transition, listenerVars>>
       ELSE Done("listener")
    /\ UNCHANGED <<faultVars, miss, overdue, sourceVars, phys, wire, eval, snap, view>>

\* The hold that ends a request: all sensors failed, or a count drift.
FinalHold ==
    /\ pc["listener"] = "hold"
    /\ SendHold /\ Done("listener")
    /\ UNCHANGED <<faultVars, miss, overdue, sourceVars, phys, snap, view>>

Listener ==
    \/ \E r \in Requests, gap \in {FALSE, "gap" \in Weather} : Receive(r, gap)
    \/ ListenerHold("sequenceHold", "fresh") \/ ListenerHold("aiHold", "presence")
    \/ MarkFresh \/ ApplyAiVerdicts \/ ApplySourceInputState
    \/ UpdateSensorHealth \/ ApplyMode \/ ApplySwFailEvents \/ ApplyModeError
    \/ ApplyEvent \/ ApplyDone \/ FinalHold

-----------------------------------------------------------------------------
(* handleSafeReleaseRequest, under both locks.                              *)

ReleaseRequested ==
    /\ pc["release"] = "idle" /\ transition = Free
    /\ transition' = "release" /\ Goto("release", "check")
    /\ UNCHANGED <<faultVars, miss, overdue, sourceVars, phys, wire, eval, listenerVars, snap, view, raised>>

\* SAFE_RELEASE_DENIED and the hold while a cause is active.
ReleaseCheck ==
    /\ pc["release"] = "check" /\ eval = Free
    /\ IF ActiveCauses # {}
       THEN SendHold /\ transition' = Free /\ Goto("release", "idle")
       ELSE eval' = "release" /\ Goto("release", "read") /\ UNCHANGED <<transition, wire>>
    /\ UNCHANGED <<faultVars, miss, overdue, sourceVars, phys, listenerVars, snap, view, raised>>

ReleaseRead ==
    /\ pc["release"] = "read"
    /\ snap' = latch /\ raised' = FALSE
    /\ Goto("release", "answer")
    /\ UNCHANGED <<faultVars, miss, overdue, sourceVars, phys, wire, locks, listenerVars, view>>

ReleaseEnd ==
    /\ transition' = Free /\ eval' = Free /\ Goto("release", "idle")
    /\ snap' = {} /\ raised' = FALSE

\* SAFE_RELEASE_ACK and UNMUTE, the second whether or not the first could be sent; if
\* either could not, the release ends with the latch up and the state as it was.
ReleaseAnswer ==
    /\ pc["release"] = "answer"
    /\ \/ /\ Send("SAFE")
          /\ Goto("release", IF snap = {} THEN "reset" ELSE "clear")
          /\ UNCHANGED <<locks, snap, raised>>
       \/ txLost < MaxTxLost /\ txLost' = txLost + 1 /\ plc' \in {plc, "SAFE"} /\ ReleaseEnd
    /\ UNCHANGED <<faultVars, miss, overdue, sourceVars, phys, listenerVars, view>>

\* The latch goes down only if it is the one read and no cause became active.
ReleaseClear ==
    /\ pc["release"] = "clear"
    /\ IF latch = snap /\ ActiveCauses = {}
       THEN latch' = {} /\ Goto("release", "reset") /\ UNCHANGED <<wire, locks, snap, raised>>
       ELSE Send("SAFE") /\ ReleaseEnd /\ UNCHANGED latch
    /\ UNCHANGED <<faults, sub, suppress, miss, overdue, sourceVars, phys, listenerVars, view>>

\* resetAtlStateFromPlcSafeRelease
ReleaseReset ==
    /\ pc["release"] = "reset"
    /\ phys' = Clear
    /\ ReleaseEnd
    /\ UNCHANGED <<faultVars, miss, overdue, sourceVars, wire, listenerVars, view>>

Release ==
    \/ ReleaseRequested \/ ReleaseCheck \/ ReleaseRead \/ ReleaseAnswer
    \/ ReleaseClear \/ ReleaseReset

-----------------------------------------------------------------------------
(* gatewayHeartbeatWatchdog.  The miss count follows the time since the     *)
(* last gateway heartbeat (gatewayMissFromElapsedMs), an input here.        *)

HbTick(m) ==
    /\ pc["heartbeat"] = "idle"
    /\ miss' = m
    /\ Goto("heartbeat", CASE m = 0 -> "recovered"
                           [] m >= MaxHbFailures -> "mark"
                           [] m > WarnThreshold /\ m < MaxHbFailures /\ miss <= WarnThreshold -> "hold"
                           [] OTHER -> "idle")
    /\ UNCHANGED <<faultVars, overdue, sourceVars, phys, wire, locks, listenerVars, snap, view, raised>>

HbRecovered ==
    /\ pc["heartbeat"] = "recovered"
    /\ faults' = faults \ {"GatewayHb"}
    /\ Goto("heartbeat", "idle")
    /\ UNCHANGED <<sub, suppress, latch, miss, overdue, sourceVars, phys, wire, locks, listenerVars, snap, view, raised>>

\* Mutant: the watchdog latches and leaves the PLC to the next decision.
WatchdogMarkOnly(t, c) ==
    /\ pc[t] = "mark"
    /\ MarkFault(c)
    /\ Goto(t, "idle")
    /\ UNCHANGED <<sub, suppress, miss, overdue, sourceVars, phys, wire, locks, listenerVars, snap, view, raised>>

\* markGatewayHbFaultLatched, markDecisionFreshnessFaultLatched
WatchdogMark(t, c) ==
    /\ pc[t] = "mark"
    /\ MarkFault(c)
    /\ Goto(t, IF c \in faults THEN "idle" ELSE "hold")
    /\ raised' = (raised \/ (c \notin faults /\ pc["release"] \in {"answer", "clear"}))
    /\ UNCHANGED <<sub, suppress, miss, overdue, sourceVars, phys, wire, locks, listenerVars, snap, view>>

\* Mutant: the hold is sent without decisionEvalSendMtx.
WatchdogHoldUnlocked(t) ==
    /\ pc[t] = "hold"
    /\ Send("SAFE") /\ UNCHANGED eval
    /\ Goto(t, "idle")
    /\ UNCHANGED <<faultVars, miss, overdue, sourceVars, phys, transition, listenerVars, snap, view, raised>>

WatchdogHold(t) ==
    /\ pc[t] = "hold"
    /\ SendHold
    /\ Goto(t, "idle")
    /\ UNCHANGED <<faultVars, miss, overdue, sourceVars, phys, transition, listenerVars, snap, view, raised>>

HbWatchdog ==
    \/ "miss" \in Weather /\ \E m \in 0..MaxHbFailures : HbTick(m)
    \/ HbRecovered \/ WatchdogMark("heartbeat", "GatewayHb") \/ WatchdogHold("heartbeat")

-----------------------------------------------------------------------------
(* decisionFreshnessWatchdog: the time of the last request is read before   *)
(* the fault is marked; a request may come in between.                      *)

Timeout ==
    /\ "timeout" \in Weather /\ ~overdue /\ overdue' = TRUE
    /\ UNCHANGED <<faultVars, miss, sourceVars, phys, wire, locks, pc, listenerVars, snap, view, raised>>

FreshnessExpired ==
    /\ pc["freshness"] = "idle" /\ overdue
    /\ Goto("freshness", "mark")
    /\ UNCHANGED <<faultVars, miss, overdue, sourceVars, phys, wire, locks, listenerVars, snap, view, raised>>

FreshnessWatchdog ==
    FreshnessExpired \/ WatchdogMark("freshness", "DecisionFreshness") \/ WatchdogHold("freshness")

-----------------------------------------------------------------------------
Next ==
    \/ ApplySourcePresence /\ UNCHANGED raised
    \/ (Listener \/ Evaluate("listener")) /\ UNCHANGED <<raised, gone>>
    \/ (PeriodicWake \/ Evaluate("periodic")) /\ UNCHANGED <<raised, gone>>
    \/ (Release \/ HbWatchdog \/ Timeout \/ FreshnessWatchdog) /\ UNCHANGED gone

Spec == Init /\ [][Next]_vars

-----------------------------------------------------------------------------
(* Properties. *)

TypeOK ==
    /\ faults \subseteq FlagCauses /\ sub \subseteq SubCauses /\ suppress \in BOOLEAN
    /\ latch \subseteq LatchCauses /\ snap \subseteq LatchCauses
    /\ miss \in 0..MaxHbFailures /\ overdue \in BOOLEAN
    /\ seen \subseteq Sources /\ held \subseteq Sources /\ gone \subseteq Sources
    /\ phys.persons \in 0..PersonsMax
    /\ plc \in {"MUTE", "SAFE"} /\ txLost \in 0..MaxTxLost
    /\ transition \in {Free, "listener", "release"}
    /\ eval \in {Free, "listener", "periodic", "release"}
    /\ req \in Requests \cup {NoRequest} /\ raised \in BOOLEAN /\ view \in BOOLEAN

Atl == INSTANCE SafeState WITH
    Causes <- LatchCauses,
    active <- faults \cup (IF sub # {} THEN {"Pss"} ELSE {})

(* The latch keeps every cause that was active until a release that finds   *)
(* none (the contract of SafeState).  The flags are set and cleared by four *)
(* threads under three locks, some of them (markDecisionRequestFresh, the   *)
(* sequence recovery) without safeStateLatchMtx.                            *)
SafeStateContract == Atl!Spec

(* handleSafeReleaseRequest: "Do not clear a new latch cause that arrives   *)
(* while TX is in flight", also when its bit was already in the snapshot.   *)
FaultDuringReleaseKept == [][latch # {} /\ latch' = {} => ~raised]_vars

(* A source known to be lost keeps its group's sub-cause active, whatever   *)
(* other traffic, modes and reports arrive (applySourcePresence), and so    *)
(* does a source whose reports are rejected (applySourceInputState).        *)
LossHeldUntilBack ==
    /\ \A s \in gone : GroupOf[s] \in sub
    /\ held # {} => "INPUT_UNUSABLE" \in sub

(* No thread but the periodic one is between reading and sending. *)
Settled ==
    /\ pc["listener"] = "idle" /\ pc["heartbeat"] = "idle" /\ pc["freshness"] = "idle"
    /\ eval = Free

(* When no thread is half way, a MUTE the PLC last received is one the      *)
(* current state allows: nothing latched or suppressed, no heartbeat fault, *)
(* forklift in, nobody in.  evaluateATLDecision decides from a snapshot and *)
(* a re-check that faults and events may outrun; whoever outran it corrects *)
(* the PLC afterwards.                                                      *)
MuteJustified ==
    Settled /\ plc = "MUTE" /\ txLost = 0 => MuteAllowed(phys) /\ ~MustHold /\ ~HbSuppress

(* Suppression of decisions lasts exactly as long as some PSS sub-cause,    *)
(* between requests: it neither strands the module silent nor lifts early.  *)
SuppressedByCause == pc["listener"] = "idle" => (suppress <=> sub # {})

(* Every thread that can take a step takes one: each loops forever, and the *)
(* locks are held for a bounded time.                                       *)
Fairness ==
    /\ WF_vars(Next /\ PeriodicWake) /\ WF_vars(Next /\ Evaluate("periodic"))
    /\ WF_vars(Next /\ Evaluate("listener"))
    /\ WF_vars(Next /\ pc["listener"] # "idle" /\ pc'["listener"] # pc["listener"])
    /\ WF_vars(Next /\ pc["release"] # "idle" /\ pc'["release"] # pc["release"])

FairSpec == Spec /\ Fairness

(* A latched module has the PLC told, although commands may be lost: the    *)
(* periodic decision repeats the hold (atlPeriodicDecisionLoop).            *)
HoldReached == latch # {} ~> (plc = "SAFE" \/ latch = {})
=============================================================================
