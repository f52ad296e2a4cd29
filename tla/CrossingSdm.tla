------------------------------ MODULE CrossingSdm ------------------------------
(***************************************************************************)
(* The crossing-junction decision module: the threads of SdmControl, the   *)
(* junction's state and the thread that re-evaluates it as time passes.    *)
(* The cameras are two views of one crossing (no --per_sensor_junctions).  *)
(*                                                                         *)
(* A junction event has, beside the fields of SdmRequestState, the fields  *)
(* kind and object.                                                        *)
(***************************************************************************)
EXTENDS SdmControl, JunctionZone

CONSTANT LastTick  \* bound: ticks of the clock

VARIABLES
    zone,      \* g_junctions, its one entry
    clock,     \* cjsSteadyNowMs
    resolved,  \* the listener's desired command, between compute and send
    pending,   \* desired of cjsJunctionEvalLoop, before decisionSendMtx
    reports    \* history: the time of each camera's last TRIPWIRE, PERSON_IN and PERSON_OUT

crossingVars == <<zone, clock, resolved, pending, reports>>

NoCommand == "none"

JunctionCommand(z) == IF Alarm(Verdict(z, clock)) THEN "ALARM" ELSE "NORMAL"

ASSUME CrossingAssumption ==
    "ALARM" \in Commands /\ LastTick \in Nat \ {0} /\ \A r \in Requests : JunctionBatch(r)

\* computeJunctionCommandFromBatch: every event is taken in before anything is
\* decided, then resolveJunctionCommand.
CrossingCompute ==
    /\ pc["listener"] = "decide" /\ resolved = NoCommand
    /\ JunctionEvents(req) # {}
    /\ LET after == Evaluate(IngestAll(zone, req, clock)[Len(req.evs)], clock)
       IN  /\ zone' = after
           /\ resolved' = JunctionCommand(after)
    /\ reports' = [k \in DOMAIN reports |->
                     IF \E i \in JunctionEvents(req) : req.evs[i].sensor = k[1] /\ req.evs[i].kind = k[2]
                     THEN clock ELSE reports[k]]
    /\ UNCHANGED <<clock, pending, controlVars>>

CrossingDecide ==
    \/ /\ resolved # NoCommand /\ Decide(resolved) /\ resolved' = NoCommand
       /\ UNCHANGED <<zone, clock, pending, reports>>
    \/ pc["listener"] = "decide" /\ JunctionEvents(req) = {} /\ NoDecision /\ UNCHANGED crossingVars

\* cjsJunctionEvalLoop: the junction is read before decisionSendMtx is taken.
EvalRead ==
    /\ pending = NoCommand
    /\ zone' = IF zone = NewZone THEN zone ELSE Evaluate(zone, clock)
    /\ pending' = JunctionCommand(zone')
    /\ UNCHANGED <<clock, resolved, reports, controlVars>>

EvalSend ==
    /\ pending # NoCommand
    /\ Revise(pending)
    /\ pending' = NoCommand
    /\ UNCHANGED <<zone, clock, resolved, reports>>

Tick ==
    /\ clock < LastTick /\ clock' = clock + 1
    /\ UNCHANGED <<zone, resolved, pending, reports, controlVars>>

\* cjsPeriodicDecisionLoop
CrossingReassert == Reassert(active) /\ UNCHANGED crossingVars

\* The steps of SdmControl, from CrossingJunctionSafetyControl.cpp.
CjsReceive(r, gap) == Receive(r, gap)
CjsAiVerdicts == ApplyAiVerdicts
CjsSourcePresence == ApplySourcePresence
CjsSourceInputState == ApplySourceInputState
CjsSensorHealth == UpdateSensorHealth
CjsPssMode == ApplyMode \/ ApplyModeError
CjsSwFailEvents == ApplySwFailEvents
CjsRelease == Release
CjsHeartbeatWatchdog == HbWatchdog
CjsFreshnessWatchdog == FreshnessWatchdog

CjsControl ==
    \/ \E r \in Requests, gap \in BOOLEAN : CjsReceive(r, gap)
    \/ CjsAiVerdicts \/ CjsSourcePresence \/ CjsSourceInputState \/ CjsSensorHealth
    \/ CjsPssMode \/ CjsSwFailEvents \/ CjsRelease \/ CjsHeartbeatWatchdog
    \/ Timeout \/ CjsFreshnessWatchdog

CrossingInit ==
    /\ ControlInit
    /\ zone = NewZone /\ clock = 1
    /\ resolved = NoCommand /\ pending = NoCommand
    /\ reports = [k \in Cameras \X {"TRIPWIRE", "PERSON_IN", "PERSON_OUT"} |-> 0]

CrossingNext ==
    \/ CrossingCompute \/ CrossingDecide \/ EvalRead \/ EvalSend \/ Tick \/ CrossingReassert
    \/ CjsControl /\ UNCHANGED crossingVars

CrossingSpec == CrossingInit /\ [][CrossingNext]_<<crossingVars, controlVars>>

-----------------------------------------------------------------------------
(* Properties. *)

CrossingTypeOK ==
    /\ clock \in 1..LastTick
    /\ {resolved, pending} \subseteq {NoCommand, "ALARM", "NORMAL"}
    /\ zone.tripwire <= clock /\ zone.entry <= clock

\* A camera's last word is that a person is in, within the hold; a forklift crossed
\* the wire within the window.
PersonStated == \E c \in Cameras : /\ Fresh(reports[<<c, "PERSON_IN">>], clock, PersonHold)
                                   /\ reports[<<c, "PERSON_IN">>] > reports[<<c, "PERSON_OUT">>]
CrossingStated == \E c \in Cameras : Fresh(reports[<<c, "TRIPWIRE">>], clock, EngageWindow)

(* "The hazard must be announced with no added latency": while a crossing   *)
(* and a person are both on record the verdict is an alarm, whatever other  *)
(* camera says otherwise and however often the junction was re-evaluated or *)
(* released in between.                                                     *)
SirenAtOnce == PersonStated /\ CrossingStated => Alarm(Verdict(zone, clock))

(* The two holds bound the siren: with no person reported by any camera     *)
(* since before the hold, a level that already read vacated a debounce ago  *)
(* no longer sounds it once the junction is evaluated.                      *)
SirenEnds ==
    (/\ \A c \in Cameras : ~Fresh(reports[<<c, "PERSON_IN">>], clock, PersonHold)
     /\ zone.personVacant # 0 /\ clock - zone.personVacant >= Debounce)
      => ~Alarm(Verdict(Evaluate(zone, clock), clock))

(* The siren sounds as long as it should: from the moment a crossing and a  *)
(* person are on record, and not past the holds.                            *)
SirenTimely == SirenAtOnce /\ SirenEnds

(* An alarm names both parties: the event that completes it need not carry  *)
(* them (fillJunctionAlarmObjectRecords).                                   *)
AlarmNamesPair ==
    Alarm(Verdict(zone, clock)) => zone.forkliftRecord # Nobody /\ zone.personRecord # Nobody

(* cjsPeriodicDecisionLoop: "the periodic emission always reflects the      *)
(* current worst-case fusion view, not a stale "desired"".                  *)
ReassertCurrent ==
    [][CrossingReassert /\ plc' = "NORMAL" => ~Alarm(Verdict(zone, clock))]_<<crossingVars, controlVars>>
=============================================================================
