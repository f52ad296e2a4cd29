-------------------------- MODULE AtlSafeStateProofs --------------------------
(***************************************************************************)
(* What the ATL module keeps, for every set of requests and every          *)
(* configuration: the safe-state contract, the sub-cause of a lost source, *)
(* a fault that comes during a release, and a MUTE that is still justified *)
(* when everyone is at rest.                                               *)
(***************************************************************************)
EXTENDS AtlSafeState, RequestProofs

-----------------------------------------------------------------------------
(* The contract. *)

(* Every active cause has its latch bit. *)
Latched ==
    /\ faults \subseteq FlagCauses /\ latch \subseteq LatchCauses
    /\ faults \subseteq latch
    /\ sub # {} => "Pss" \in latch

(* updateAiPipelineTrustFromDecisionRequest: the flag is up afterwards only *)
(* if it was before, or the request carried an INVALID verdict.             *)
LEMMA AiVerdict ==
    ASSUME NEW b, NEW r
    PROVE  LET v == AiPipelineVerdictApply(b, r) IN v.active => b \/ v.saw
  BY Zenon DEF AiPipelineVerdictApply

LEMMA LatchedInit == Init => Latched
  BY Zenon DEF Init, Latched

(* A step of the listener that leaves the latch and the flags alone. *)
LEMMA StepKept ==
    ASSUME Latched, UNCHANGED <<faults, sub, latch>>
    PROVE  Latched' /\ latch \subseteq latch'
  BY Zenon DEF Latched

LEMMA FaultMarked ==
    ASSUME Latched, NEW c \in FlagCauses, MarkFault(c), UNCHANGED sub
    PROVE  Latched' /\ latch \subseteq latch'
  BY Zenon DEF Latched, MarkFault, LatchCauses

LEMMA FaultCleared ==
    ASSUME Latched, NEW c, faults' = faults \ {c}, UNCHANGED <<sub, latch>>
    PROVE  Latched' /\ latch \subseteq latch'
  BY Zenon DEF Latched

LEMMA PssMarked ==
    ASSUME Latched, NEW S, MarkPss(S), UNCHANGED faults
    PROVE  Latched' /\ latch \subseteq latch'
  BY Zenon DEF Latched, MarkPss, LatchCauses

LEMMA PssCleared ==
    ASSUME Latched, NEW S, ClearPss(S), UNCHANGED <<faults, latch>>
    PROVE  Latched' /\ latch \subseteq latch'
  BY Zenon DEF Latched, ClearPss

(* One step of the module: whatever is active stays latched, and the latch *)
(* grows or is released with nothing active.                               *)
Step == Latched' /\ (latch \subseteq latch' \/ (latch' = {} /\ faults = {} /\ sub = {}))

LEMMA ListenerStep == Latched /\ (Listener \/ ApplySourcePresence) => Step
<1> SUFFICES ASSUME Latched, Listener \/ ApplySourcePresence PROVE Step
  BY Zenon
<1>1. ASSUME NEW r \in Requests, NEW gap \in {FALSE, "gap" \in Weather}, Receive(r, gap) PROVE Step
  <2>1. CASE gap
    BY <1>1, <2>1, FaultMarked, Zenon DEF Receive, FlagCauses, Step
  <2>2. CASE ~gap
    BY <1>1, <2>2, FaultCleared, Zenon DEF Receive, Step
  <2> QED BY <2>1, <2>2, Zenon
<1>2. ASSUME NEW a, NEW b, ListenerHold(a, b) PROVE Step
  BY <1>2, StepKept, Zenon DEF ListenerHold, faultVars, Step
<1>3. CASE MarkFresh
  BY <1>3, FaultCleared, Zenon DEF MarkFresh, Step
<1>4. CASE ApplyAiVerdicts
  <2> DEFINE v == AiPipelineVerdictApply("AiPipelineInvalid" \in faults, req)
  <2>1. v.active => "AiPipelineInvalid" \in faults \/ v.saw
    BY AiVerdict, Zenon
  <2>2. /\ faults' = IF v.active THEN faults \cup {"AiPipelineInvalid"}
                                 ELSE faults \ {"AiPipelineInvalid"}
        /\ latch' = IF v.saw THEN latch \cup {"AiPipelineInvalid"} ELSE latch
        /\ sub' = sub
    BY <1>4, Zenon DEF ApplyAiVerdicts
  <2> HIDE DEF v
  <2> QED BY <2>1, <2>2, Zenon DEF Latched, Step, FlagCauses, LatchCauses
<1>5. CASE ApplySourcePresence
  <2> DEFINE d == SourcePresenceEvaluate(seen, req)
             entered == d.raised \ sub
  <2>1. CASE entered = {}
    BY <1>5, <2>1, PssCleared, Zenon DEF ApplySourcePresence, Step
  <2>2. CASE entered # {}
    <3>1. sub' = (sub \ d.cleared) \cup entered /\ latch' = latch \cup {"Pss"} /\ faults' = faults
      BY <1>5, <2>2, Zenon DEF ApplySourcePresence
    <3> HIDE DEF d
    <3> QED BY <3>1, Zenon DEF Latched, Step, LatchCauses
  <2> QED BY <2>1, <2>2, Zenon
<1>6. CASE ApplySourceInputState
  <2> DEFINE d == SourceInputStateEvaluate(held, req)
  <2>1. CASE d.raised \subseteq sub
    BY <1>6, <2>1, PssCleared, Zenon DEF ApplySourceInputState, Step
  <2>2. CASE ~(d.raised \subseteq sub)
    <3>1. MarkPss(d.raised) /\ faults' = faults
      BY <1>6, <2>2, Zenon DEF ApplySourceInputState
    <3> QED BY <3>1, PssMarked, Zenon DEF Step
  <2> QED BY <2>1, <2>2, Zenon
<1>7. CASE UpdateSensorHealth
  <2>1. sub' = sub
    BY <1>7, Zenon DEF UpdateSensorHealth
  <2>2. \/ UNCHANGED <<faults, latch>>
        \/ MarkFault("AllSensorsFailed")
        \/ faults' = faults \ {"AllSensorsFailed"} /\ latch' = latch
    BY <1>7, Zenon DEF UpdateSensorHealth
  <2> QED BY <2>1, <2>2, StepKept, FaultMarked, FaultCleared, Zenon DEF FlagCauses, Step
<1>8. CASE ApplyMode
  <2>1. faults' = faults /\ latch' = latch
    BY <1>8, Zenon DEF ApplyMode
  <2>2. sub' \subseteq sub
    BY <1>8, Zenon DEF ApplyMode, ClearPss
  <2> QED BY <2>1, <2>2, Zenon DEF Latched, Step
<1>9. CASE ApplySwFailEvents
  <2>1. CASE NewSwFails = {}
    BY <1>9, <2>1, StepKept, Zenon DEF ApplySwFailEvents, Step
  <2>2. CASE NewSwFails # {}
    BY <1>9, <2>2, PssMarked, Zenon DEF ApplySwFailEvents, Step
  <2> QED BY <2>1, <2>2, Zenon
<1>10. CASE ApplyModeError
  BY <1>10, PssMarked, Zenon DEF ApplyModeError, Step
<1>11. CASE ApplyEvent
  <2>1. faults' = faults /\ sub' = sub
    BY <1>11, Zenon DEF ApplyEvent
  <2>2. latch' = latch \/ latch' = latch \cup {"CountDrift"}
    BY <1>11, Zenon DEF ApplyEvent
  <2> QED BY <2>1, <2>2, Zenon DEF Latched, Step, LatchCauses
<1>12. CASE ApplyDone
  BY <1>12, StepKept, Zenon DEF ApplyDone, faultVars, Step
<1>13. CASE FinalHold
  BY <1>13, StepKept, Zenon DEF FinalHold, faultVars, Step
<1> QED
  BY <1>1, <1>2, <1>3, <1>4, <1>5, <1>6, <1>7, <1>8, <1>9, <1>10, <1>11, <1>12, <1>13, Zenon DEF Listener

LEMMA EvaluateStep == ASSUME Latched, NEW t, Evaluate(t) PROVE Step
  BY StepKept, Zenon DEF Evaluate, EvalEnter, EvalSnapshot, EvalRecheck, EvalEmit, faultVars, Step

LEMMA ReleaseStep == Latched /\ Release => Step
<1> SUFFICES ASSUME Latched, Release PROVE Step
  BY Zenon
<1>1. CASE ReleaseClear
  <2>1. CASE latch = snap /\ ActiveCauses = {}
    BY <1>1, <2>1, Zenon DEF ReleaseClear, ActiveCauses, Latched, Step
  <2>2. CASE ~(latch = snap /\ ActiveCauses = {})
    BY <1>1, <2>2, StepKept, Zenon DEF ReleaseClear, Step
  <2> QED BY <2>1, <2>2, Zenon
<1>2. CASE ReleaseRequested \/ ReleaseCheck \/ ReleaseRead \/ ReleaseAnswer \/ ReleaseReset
  BY <1>2, StepKept, Zenon
     DEF ReleaseRequested, ReleaseCheck, ReleaseRead, ReleaseAnswer, ReleaseReset, faultVars, Step
<1> QED BY <1>1, <1>2, Zenon DEF Release

LEMMA MarkStep ==
    ASSUME Latched, NEW t, NEW c \in FlagCauses, WatchdogMark(t, c) PROVE Step
  BY FaultMarked, Zenon DEF WatchdogMark, Step

LEMMA WatchdogStep ==
    Latched /\ (HbWatchdog \/ Timeout \/ FreshnessWatchdog) => Step
<1> SUFFICES ASSUME Latched, HbWatchdog \/ Timeout \/ FreshnessWatchdog PROVE Step
  BY Zenon
<1>1. ASSUME NEW m, HbTick(m) PROVE Step
  BY <1>1, StepKept, Zenon DEF HbTick, faultVars, Step
<1>2. CASE HbRecovered
  BY <1>2, FaultCleared, Zenon DEF HbRecovered, Step
<1>3. CASE WatchdogMark("heartbeat", "GatewayHb") \/ WatchdogMark("freshness", "DecisionFreshness")
  BY <1>3, MarkStep, Zenon DEF FlagCauses
<1>4. CASE WatchdogHold("heartbeat") \/ WatchdogHold("freshness") \/ Timeout \/ FreshnessExpired
  BY <1>4, StepKept, Zenon DEF WatchdogHold, Timeout, FreshnessExpired, faultVars, Step
<1> QED BY <1>1, <1>2, <1>3, <1>4, Zenon DEF HbWatchdog, FreshnessWatchdog

LEMMA NextStep == Latched /\ [Next]_vars => Step
<1> SUFFICES ASSUME Latched, [Next]_vars PROVE Step
  BY Zenon
<1>1. CASE PeriodicWake
  BY <1>1, StepKept, Zenon DEF PeriodicWake, faultVars, Step
<1>2. CASE UNCHANGED vars
  BY <1>2, StepKept, Zenon DEF vars, faultVars, Step
<1> QED
  BY <1>1, <1>2, ListenerStep, EvaluateStep, ReleaseStep, WatchdogStep, Zenon DEF Next

(* The ATL module implements SafeState: every cause that becomes active is  *)
(* latched, and the latch is only ever given up by a release that finds no  *)
(* cause active, whatever the interleaving of the threads that mark, clear  *)
(* and release.                                                             *)
THEOREM ContractKept == Spec => SafeStateContract
<1>1. Init => Atl!Init
  BY Zenon DEF Init, Atl!Init
<1>2. Latched /\ [Next]_vars => Latched' /\ [Atl!Next]_(Atl!vars)
  <2> SUFFICES ASSUME Latched, [Next]_vars PROVE Latched' /\ [Atl!Next]_(Atl!vars)
    BY Zenon
  <2>1. Step
    BY NextStep, Zenon
  <2> DEFINE act == faults \cup (IF sub # {} THEN {"Pss"} ELSE {})
  <2>2. act' \subseteq latch' /\ latch' \subseteq LatchCauses
    BY <2>1, Zenon DEF Step, Latched
  <2>3. CASE latch \subseteq latch'
    BY <2>2, <2>3, <2>1, Zenon DEF Atl!Next, Atl!Observe, Step
  <2>4. CASE latch' = {} /\ faults = {} /\ sub = {} /\ latch # {}
    <3>1. act = {} /\ act' = {}
      BY <2>2, <2>4, Zenon
    <3> QED BY <3>1, <2>1, <2>4, Zenon DEF Atl!Next, Atl!Release, Step
  <2> QED BY <2>1, <2>3, <2>4, Zenon DEF Step
<1> QED
  BY <1>1, <1>2, LatchedInit, PTL DEF Spec, SafeStateContract, Atl!Spec

-----------------------------------------------------------------------------
(* The shared state is well typed, and each lock has the owner the threads' *)
(* places say.                                                              *)

Deciding == {"snapshot", "recheck", "emit"}
ListenerPlaces == {"idle", "sequenceHold", "fresh", "ai", "aiHold", "presence", "input", "health",
                   "swFail", "modeError", "event", "hold", "eval"} \cup Deciding
PeriodicPlaces == {"idle", "eval"} \cup Deciding
ReleasePlaces == {"idle", "check", "read", "answer", "clear", "reset"}
HeartbeatPlaces == {"idle", "recovered", "mark", "hold"}
FreshnessPlaces == {"idle", "mark", "hold"}
Labels == ListenerPlaces \cup ReleasePlaces \cup HeartbeatPlaces

Places ==
    /\ pc \in [Threads -> Labels]
    /\ pc["listener"] \in ListenerPlaces /\ pc["periodic"] \in PeriodicPlaces
    /\ pc["release"] \in ReleasePlaces
    /\ pc["heartbeat"] \in HeartbeatPlaces /\ pc["freshness"] \in FreshnessPlaces
    /\ pc["listener"] # "idle" <=> transition = "listener"
    /\ pc["release"] # "idle" <=> transition = "release"
    /\ pc["listener"] \in Deciding <=> eval = "listener"
    /\ pc["periodic"] \in Deciding <=> eval = "periodic"
    /\ pc["release"] \in {"read", "answer", "clear", "reset"} <=> eval = "release"
    /\ pc["listener"] # "idle" => req \in Requests

ListenerFlags == [sensorLatch : BOOLEAN, driftLatch : BOOLEAN, changed : BOOLEAN]

LEMMA GotoPlace ==
    ASSUME pc \in [Threads -> Labels], NEW t \in Threads, NEW l \in Labels, Goto(t, l)
    PROVE  pc' \in [Threads -> Labels] /\ pc'[t] = l /\ \A u \in Threads \ {t} : pc'[u] = pc[u]
  BY Zenon DEF Goto

LEMMA ListenerAt ==
    ASSUME Places, NEW l \in ListenerPlaces, Goto("listener", l)
    PROVE  /\ pc' \in [Threads -> Labels] /\ pc'["listener"] = l /\ pc'["periodic"] = pc["periodic"]
           /\ pc'["release"] = pc["release"] /\ pc'["heartbeat"] = pc["heartbeat"]
           /\ pc'["freshness"] = pc["freshness"]
<1>1. l \in Labels /\ "listener" \in Threads /\ pc \in [Threads -> Labels]
  BY Zenon DEF Labels, Threads, Places
<1>2. {"periodic", "release", "heartbeat", "freshness"} \subseteq Threads \ {"listener"}
  BY Zenon DEF Threads
<1> QED BY <1>1, <1>2, GotoPlace, Zenon

LEMMA PeriodicAt ==
    ASSUME Places, NEW l \in PeriodicPlaces, Goto("periodic", l)
    PROVE  /\ pc' \in [Threads -> Labels] /\ pc'["periodic"] = l /\ pc'["listener"] = pc["listener"]
           /\ pc'["release"] = pc["release"] /\ pc'["heartbeat"] = pc["heartbeat"]
           /\ pc'["freshness"] = pc["freshness"]
<1>1. l \in Labels /\ "periodic" \in Threads /\ pc \in [Threads -> Labels]
  BY Zenon DEF Labels, Threads, Places, ListenerPlaces, PeriodicPlaces
<1>2. {"listener", "release", "heartbeat", "freshness"} \subseteq Threads \ {"periodic"}
  BY Zenon DEF Threads
<1> QED BY <1>1, <1>2, GotoPlace, Zenon

LEMMA ReleaseAt ==
    ASSUME Places, NEW l \in ReleasePlaces, Goto("release", l)
    PROVE  /\ pc' \in [Threads -> Labels] /\ pc'["release"] = l /\ pc'["listener"] = pc["listener"]
           /\ pc'["periodic"] = pc["periodic"] /\ pc'["heartbeat"] = pc["heartbeat"]
           /\ pc'["freshness"] = pc["freshness"]
<1>1. l \in Labels /\ "release" \in Threads /\ pc \in [Threads -> Labels]
  BY Zenon DEF Labels, Threads, Places
<1>2. {"listener", "periodic", "heartbeat", "freshness"} \subseteq Threads \ {"release"}
  BY Zenon DEF Threads
<1> QED BY <1>1, <1>2, GotoPlace, Zenon

LEMMA HeartbeatAt ==
    ASSUME Places, NEW l \in HeartbeatPlaces, Goto("heartbeat", l)
    PROVE  /\ pc' \in [Threads -> Labels] /\ pc'["heartbeat"] = l /\ pc'["listener"] = pc["listener"]
           /\ pc'["periodic"] = pc["periodic"] /\ pc'["release"] = pc["release"]
           /\ pc'["freshness"] = pc["freshness"]
<1>1. l \in Labels /\ "heartbeat" \in Threads /\ pc \in [Threads -> Labels]
  BY Zenon DEF Labels, Threads, Places
<1>2. {"listener", "periodic", "release", "freshness"} \subseteq Threads \ {"heartbeat"}
  BY Zenon DEF Threads
<1> QED BY <1>1, <1>2, GotoPlace, Zenon

LEMMA FreshnessAt ==
    ASSUME Places, NEW l \in FreshnessPlaces, Goto("freshness", l)
    PROVE  /\ pc' \in [Threads -> Labels] /\ pc'["freshness"] = l /\ pc'["listener"] = pc["listener"]
           /\ pc'["periodic"] = pc["periodic"] /\ pc'["release"] = pc["release"]
           /\ pc'["heartbeat"] = pc["heartbeat"]
<1>1. l \in Labels /\ "freshness" \in Threads /\ pc \in [Threads -> Labels]
  BY Zenon DEF Labels, Threads, Places, FreshnessPlaces, HeartbeatPlaces
<1>2. {"listener", "periodic", "release", "heartbeat"} \subseteq Threads \ {"freshness"}
  BY Zenon DEF Threads
<1> QED BY <1>1, <1>2, GotoPlace, Zenon

\* The listener goes on with its request.
LEMMA ListenerGoesOn ==
    ASSUME Places, pc["listener"] # "idle", pc["listener"] \notin Deciding,
           NEW l \in ListenerPlaces \ Deciding, l # "idle", Goto("listener", l),
           UNCHANGED <<transition, eval, req>>
    PROVE  Places'
<1>1. /\ pc' \in [Threads -> Labels] /\ pc'["listener"] = l /\ pc'["periodic"] = pc["periodic"]
      /\ pc'["release"] = pc["release"] /\ pc'["heartbeat"] = pc["heartbeat"]
      /\ pc'["freshness"] = pc["freshness"]
  BY ListenerAt, Zenon
<1> QED BY <1>1, Zenon DEF Places

\* It is done with it, or the periodic thread with its decision.
LEMMA ListenerDone ==
    ASSUME Places, pc["listener"] # "idle", Done("listener"),
           eval' = IF pc["listener"] \in Deciding THEN Free ELSE eval
    PROVE  Places'
<1>1. /\ pc' \in [Threads -> Labels] /\ pc'["listener"] = "idle" /\ pc'["periodic"] = pc["periodic"]
      /\ pc'["release"] = pc["release"] /\ pc'["heartbeat"] = pc["heartbeat"]
      /\ pc'["freshness"] = pc["freshness"]
  BY ListenerAt, Zenon DEF Done, ListenerPlaces
<1>2. transition' = Free /\ transition = "listener" /\ pc["release"] = "idle"
  BY Zenon DEF Done, Places
<1> QED BY <1>1, <1>2, Zenon DEF Places, ListenerPlaces, Free, Deciding

LEMMA PeriodicDone ==
    ASSUME Places, Done("periodic"), eval' = IF pc["periodic"] \in Deciding THEN Free ELSE eval
    PROVE  Places'
<1>1. /\ pc' \in [Threads -> Labels] /\ pc'["periodic"] = "idle" /\ pc'["listener"] = pc["listener"]
      /\ pc'["release"] = pc["release"] /\ pc'["heartbeat"] = pc["heartbeat"]
      /\ pc'["freshness"] = pc["freshness"]
  BY PeriodicAt, Zenon DEF Done, PeriodicPlaces
<1>2. transition' = transition /\ req' = req
  BY Zenon DEF Done, listenerVars
<1> QED BY <1>1, <1>2, Zenon DEF Places, PeriodicPlaces, Free, Deciding

LEMMA PlacesInit == Init => Places
  BY Zenon DEF Init, Places, Threads, Labels, ListenerPlaces, PeriodicPlaces, ReleasePlaces,
         HeartbeatPlaces, FreshnessPlaces, Deciding, Free

LEMMA ListenerPlace == Places /\ (Listener \/ ApplySourcePresence) => Places'
<1> SUFFICES ASSUME Places, Listener \/ ApplySourcePresence PROVE Places'
  BY Zenon
<1>1. ASSUME NEW r \in Requests, NEW gap, Receive(r, gap) PROVE Places'
  <2> DEFINE l == IF gap /\ "GatewayDecisionSequence" \notin faults THEN "sequenceHold" ELSE "fresh"
  <2>1. Goto("listener", l) /\ transition' = "listener" /\ transition = Free /\ req' = r /\ eval' = eval
    BY <1>1, Zenon DEF Receive
  <2>2. l \in ListenerPlaces \ Deciding /\ l # "idle"
    BY Zenon DEF ListenerPlaces, Deciding
  <2> HIDE DEF l
  <2>3. /\ pc' \in [Threads -> Labels] /\ pc'["listener"] = l /\ pc'["periodic"] = pc["periodic"]
        /\ pc'["release"] = pc["release"] /\ pc'["heartbeat"] = pc["heartbeat"]
        /\ pc'["freshness"] = pc["freshness"]
    BY <2>1, <2>2, ListenerAt, Zenon
  <2>4. pc["listener"] = "idle" /\ pc["release"] = "idle"
    BY <1>1, <2>1, Zenon DEF Receive, Places, Free
  <2> QED BY <2>1, <2>2, <2>3, <2>4, Zenon DEF Places, Deciding
<1>2. CASE ListenerHold("sequenceHold", "fresh") \/ ListenerHold("aiHold", "presence")
  BY <1>2, ListenerGoesOn, Zenon DEF ListenerHold, SendHold, listenerVars, ListenerPlaces, Deciding
<1>3. CASE MarkFresh
  BY <1>3, ListenerGoesOn, Zenon DEF MarkFresh, locks, listenerVars, ListenerPlaces, Deciding
<1>4. CASE ApplyAiVerdicts
  <2>1. PICK l \in {"aiHold", "presence"} : Goto("listener", l)
    BY <1>4, Zenon DEF ApplyAiVerdicts
  <2>2. pc["listener"] = "ai" /\ UNCHANGED <<transition, eval, req>>
    BY <1>4, Zenon DEF ApplyAiVerdicts, locks, listenerVars
  <2> QED BY <2>1, <2>2, ListenerGoesOn, Zenon DEF ListenerPlaces, Deciding
<1>5. CASE ApplySourcePresence
  BY <1>5, ListenerGoesOn, Zenon DEF ApplySourcePresence, SendHold, listenerVars, ListenerPlaces, Deciding
<1>6. CASE ApplySourceInputState
  BY <1>6, ListenerGoesOn, Zenon DEF ApplySourceInputState, SendHold, listenerVars, ListenerPlaces, Deciding
<1>7. CASE UpdateSensorHealth
  <2>1. UNCHANGED <<pc, transition, eval, req>>
    BY <1>7, Zenon DEF UpdateSensorHealth, locks
  <2> QED BY <2>1, Zenon DEF Places
<1>8. CASE ApplyMode
  <2>1. pc["listener"] = "health" /\ eval' = eval
    BY <1>8, Zenon DEF ApplyMode
  <2>2. Done("listener") \/ (Goto("listener", "swFail") /\ UNCHANGED <<transition, req>>)
    BY <1>8, Zenon DEF ApplyMode, listenerVars
  <2>3. CASE Done("listener")
    BY <2>1, <2>3, ListenerDone, Zenon DEF Deciding
  <2>4. CASE Goto("listener", "swFail") /\ UNCHANGED <<transition, req>>
    BY <2>1, <2>4, ListenerGoesOn, Zenon DEF ListenerPlaces, Deciding
  <2> QED BY <2>2, <2>3, <2>4, Zenon
<1>9. CASE ApplySwFailEvents
  <2>1. pc["listener"] = "swFail" /\ eval' = eval
    BY <1>9, Zenon DEF ApplySwFailEvents, SendHold
  <2>2. \/ Done("listener")
        \/ \E l \in {"modeError", "hold", "event"} : Goto("listener", l) /\ UNCHANGED <<transition, req>>
    BY <1>9, Zenon DEF ApplySwFailEvents, listenerVars
  <2>3. CASE Done("listener")
    BY <2>1, <2>3, ListenerDone, Zenon DEF Deciding
  <2>4. ASSUME NEW l \in {"modeError", "hold", "event"}, Goto("listener", l), UNCHANGED <<transition, req>>
        PROVE  Places'
    BY <2>1, <2>4, ListenerGoesOn, Zenon DEF ListenerPlaces, Deciding
  <2> QED BY <2>2, <2>3, <2>4, Zenon
<1>10. CASE ApplyModeError
  BY <1>10, ListenerDone, Zenon DEF ApplyModeError, SendHold, Deciding
<1>11. CASE ApplyEvent
  <2>1. UNCHANGED <<pc, transition, eval, req>>
    BY <1>11, Zenon DEF ApplyEvent, locks
  <2> QED BY <2>1, Zenon DEF Places
<1>12. CASE ApplyDone
  <2>1. pc["listener"] = "event" /\ eval' = eval
    BY <1>12, Zenon DEF ApplyDone
  <2>2. \/ Done("listener")
        \/ \E l \in {"hold", "eval"} : Goto("listener", l) /\ UNCHANGED <<transition, req>>
    BY <1>12, Zenon DEF ApplyDone, listenerVars
  <2>3. CASE Done("listener")
    BY <2>1, <2>3, ListenerDone, Zenon DEF Deciding
  <2>4. ASSUME NEW l \in {"hold", "eval"}, Goto("listener", l), UNCHANGED <<transition, req>>
        PROVE  Places'
    BY <2>1, <2>4, ListenerGoesOn, Zenon DEF ListenerPlaces, Deciding
  <2> QED BY <2>2, <2>3, <2>4, Zenon
<1>13. CASE FinalHold
  BY <1>13, ListenerDone, Zenon DEF FinalHold, SendHold, Deciding
<1> QED
  BY <1>1, <1>2, <1>3, <1>4, <1>5, <1>6, <1>7, <1>8, <1>9, <1>10, <1>11, <1>12, <1>13, Zenon DEF Listener

\* A decision: the thread keeps decisionEvalSendMtx from the snapshot to the send.
LEMMA EvaluatePlace == ASSUME Places, NEW t \in {"listener", "periodic"}, Evaluate(t) PROVE Places'
<1>1. CASE EvalEnter(t) /\ Done(t)
  <2>1. pc[t] = "eval" /\ eval' = eval
    BY <1>1, Zenon DEF EvalEnter, SendHold, Done, Goto, Places, PeriodicPlaces, ListenerPlaces, Deciding, Threads
  <2>2. CASE t = "listener"
    BY <1>1, <2>1, <2>2, ListenerDone, Zenon DEF Deciding
  <2>3. CASE t = "periodic"
    BY <1>1, <2>1, <2>3, PeriodicDone, Zenon DEF Deciding
  <2> QED BY <2>2, <2>3, Zenon
<1>2. CASE EvalEnter(t) /\ ~Done(t)
  <2>1. pc[t] = "eval" /\ eval = Free /\ eval' = t /\ Goto(t, "snapshot") /\ UNCHANGED <<transition, req>>
    BY <1>2, Zenon DEF EvalEnter, listenerVars
  <2>2. CASE t = "listener"
    <3>1. /\ pc' \in [Threads -> Labels] /\ pc'["listener"] = "snapshot" /\ pc'["periodic"] = pc["periodic"]
          /\ pc'["release"] = pc["release"] /\ pc'["heartbeat"] = pc["heartbeat"]
          /\ pc'["freshness"] = pc["freshness"]
      BY <2>1, <2>2, ListenerAt, Zenon DEF ListenerPlaces, Deciding
    <3> QED BY <2>1, <2>2, <3>1, Zenon DEF Places, ListenerPlaces, Deciding, Free
  <2>3. CASE t = "periodic"
    <3>1. /\ pc' \in [Threads -> Labels] /\ pc'["periodic"] = "snapshot" /\ pc'["listener"] = pc["listener"]
          /\ pc'["release"] = pc["release"] /\ pc'["heartbeat"] = pc["heartbeat"]
          /\ pc'["freshness"] = pc["freshness"]
      BY <2>1, <2>3, PeriodicAt, Zenon DEF PeriodicPlaces, Deciding
    <3> QED BY <2>1, <2>3, <3>1, Zenon DEF Places, PeriodicPlaces, Deciding, Free
  <2> QED BY <2>2, <2>3, Zenon
<1>3. ASSUME NEW l \in Deciding, pc[t] \in Deciding, Goto(t, l), UNCHANGED <<transition, eval, req>>
      PROVE  Places'
  <2>1. CASE t = "listener"
    <3>1. /\ pc' \in [Threads -> Labels] /\ pc'["listener"] = l /\ pc'["periodic"] = pc["periodic"]
          /\ pc'["release"] = pc["release"] /\ pc'["heartbeat"] = pc["heartbeat"]
          /\ pc'["freshness"] = pc["freshness"]
      BY <1>3, <2>1, ListenerAt, Zenon DEF ListenerPlaces
    <3> QED BY <1>3, <2>1, <3>1, Zenon DEF Places, ListenerPlaces, Deciding
  <2>2. CASE t = "periodic"
    <3>1. /\ pc' \in [Threads -> Labels] /\ pc'["periodic"] = l /\ pc'["listener"] = pc["listener"]
          /\ pc'["release"] = pc["release"] /\ pc'["heartbeat"] = pc["heartbeat"]
          /\ pc'["freshness"] = pc["freshness"]
      BY <1>3, <2>2, PeriodicAt, Zenon DEF PeriodicPlaces
    <3> QED BY <1>3, <2>2, <3>1, Zenon DEF Places, PeriodicPlaces, Deciding
  <2> QED BY <2>1, <2>2, Zenon
<1>4. ASSUME pc[t] \in Deciding, EvalEnd(t) PROVE Places'
  <2>1. CASE t = "listener"
    BY <1>4, <2>1, ListenerDone, Zenon DEF EvalEnd, Deciding
  <2>2. CASE t = "periodic"
    BY <1>4, <2>2, PeriodicDone, Zenon DEF EvalEnd
  <2> QED BY <2>1, <2>2, Zenon
<1>5. CASE EvalSnapshot(t)
  BY <1>3, <1>5, Zenon DEF EvalSnapshot, Deciding, locks, listenerVars
<1>6. CASE EvalRecheck(t)
  <2>1. pc[t] \in Deciding
    BY <1>6, Zenon DEF EvalRecheck, Deciding
  <2>2. EvalEnd(t) \/ (Goto(t, "emit") /\ UNCHANGED <<transition, eval, req>>)
    BY <1>6, Zenon DEF EvalRecheck, locks, listenerVars
  <2> QED BY <1>3, <1>4, <2>1, <2>2, Zenon DEF Deciding
<1>7. CASE EvalEmit(t)
  BY <1>4, <1>7, Zenon DEF EvalEmit, Deciding
<1> QED BY <1>1, <1>2, <1>5, <1>6, <1>7, Zenon DEF Evaluate

LEMMA ReleasePlace == Places /\ Release => Places'
<1> SUFFICES ASSUME Places, Release PROVE Places'
  BY Zenon
<1>1. ASSUME NEW l \in ReleasePlaces, Goto("release", l), req' = req,
             l # "idle" <=> transition' = "release",
             l \in {"read", "answer", "clear", "reset"} <=> eval' = "release",
             transition' = transition \/ (transition \in {Free, "release"} /\ transition' \in {Free, "release"}),
             eval' = eval \/ (eval \in {Free, "release"} /\ eval' \in {Free, "release"})
      PROVE  Places'
  <2>1. /\ pc' \in [Threads -> Labels] /\ pc'["release"] = l /\ pc'["listener"] = pc["listener"]
        /\ pc'["periodic"] = pc["periodic"] /\ pc'["heartbeat"] = pc["heartbeat"]
        /\ pc'["freshness"] = pc["freshness"]
    BY <1>1, ReleaseAt, Zenon
  <2> QED BY <1>1, <2>1, Zenon DEF Places, Free
<1>2. CASE ReleaseRequested
  BY <1>1, <1>2, Zenon DEF ReleaseRequested, listenerVars, ReleasePlaces, Places
<1>3. CASE ReleaseCheck
  <2>1. pc["release"] = "check" /\ eval = Free /\ req' = req
    BY <1>3, Zenon DEF ReleaseCheck, listenerVars
  <2>2. transition = "release"
    BY <2>1, Zenon DEF Places
  <2>3. \/ transition' = Free /\ eval' = eval /\ Goto("release", "idle")
        \/ eval' = "release" /\ transition' = transition /\ Goto("release", "read")
    BY <1>3, Zenon DEF ReleaseCheck, SendHold
  <2> QED BY <1>1, <2>1, <2>2, <2>3, Zenon DEF ReleasePlaces, Free
<1>4. ASSUME pc["release"] \in {"read", "answer", "clear", "reset"}, ReleaseEnd, req' = req PROVE Places'
  BY <1>1, <1>4, Zenon DEF ReleaseEnd, Places, ReleasePlaces, Free
<1>5. ASSUME pc["release"] \in {"read", "answer", "clear", "reset"},
             NEW l \in {"read", "answer", "clear", "reset"}, Goto("release", l),
             UNCHANGED <<transition, eval, req>>
      PROVE  Places'
  BY <1>1, <1>5, Zenon DEF Places, ReleasePlaces
<1>6. CASE ReleaseRead
  BY <1>5, <1>6, Zenon DEF ReleaseRead, locks, listenerVars
<1>7. CASE ReleaseAnswer
  <2>1. pc["release"] = "answer" /\ req' = req
    BY <1>7, Zenon DEF ReleaseAnswer, listenerVars
  <2>2. \/ ReleaseEnd
        \/ \E l \in {"reset", "clear"} : Goto("release", l) /\ UNCHANGED <<transition, eval>>
    BY <1>7, Zenon DEF ReleaseAnswer, locks
  <2> QED BY <1>4, <1>5, <2>1, <2>2, Zenon
<1>8. CASE ReleaseClear
  <2>1. pc["release"] = "clear" /\ req' = req
    BY <1>8, Zenon DEF ReleaseClear, listenerVars
  <2>2. ReleaseEnd \/ (Goto("release", "reset") /\ UNCHANGED <<transition, eval>>)
    BY <1>8, Zenon DEF ReleaseClear, locks
  <2> QED BY <1>4, <1>5, <2>1, <2>2, Zenon
<1>9. CASE ReleaseReset
  BY <1>4, <1>9, Zenon DEF ReleaseReset, listenerVars
<1> QED BY <1>2, <1>3, <1>6, <1>7, <1>8, <1>9, Zenon DEF Release

LEMMA WatchdogPlace == Places /\ (HbWatchdog \/ Timeout \/ FreshnessWatchdog) => Places'
<1> SUFFICES ASSUME Places, HbWatchdog \/ Timeout \/ FreshnessWatchdog PROVE Places'
  BY Zenon
<1>1. ASSUME NEW l \in HeartbeatPlaces, Goto("heartbeat", l), UNCHANGED <<transition, eval, req>> PROVE Places'
  <2>1. /\ pc' \in [Threads -> Labels] /\ pc'["heartbeat"] = l /\ pc'["listener"] = pc["listener"]
        /\ pc'["periodic"] = pc["periodic"] /\ pc'["release"] = pc["release"]
        /\ pc'["freshness"] = pc["freshness"]
    BY <1>1, HeartbeatAt, Zenon
  <2> QED BY <1>1, <2>1, Zenon DEF Places
<1>2. ASSUME NEW l \in FreshnessPlaces, Goto("freshness", l), UNCHANGED <<transition, eval, req>> PROVE Places'
  <2>1. /\ pc' \in [Threads -> Labels] /\ pc'["freshness"] = l /\ pc'["listener"] = pc["listener"]
        /\ pc'["periodic"] = pc["periodic"] /\ pc'["release"] = pc["release"]
        /\ pc'["heartbeat"] = pc["heartbeat"]
    BY <1>2, FreshnessAt, Zenon
  <2> QED BY <1>2, <2>1, Zenon DEF Places
<1>3. ASSUME NEW m \in 0..MaxHbFailures, HbTick(m) PROVE Places'
  <2>1. \E l \in HeartbeatPlaces : Goto("heartbeat", l)
    BY <1>3, Zenon DEF HbTick, HeartbeatPlaces
  <2>2. UNCHANGED <<transition, eval, req>>
    BY <1>3, Zenon DEF HbTick, locks, listenerVars
  <2> QED BY <1>1, <2>1, <2>2, Zenon
<1>4. CASE HbRecovered
  BY <1>1, <1>4, Zenon DEF HbRecovered, locks, listenerVars, HeartbeatPlaces
<1>5. CASE WatchdogMark("heartbeat", "GatewayHb")
  BY <1>1, <1>5, Zenon DEF WatchdogMark, locks, listenerVars, HeartbeatPlaces
<1>6. CASE WatchdogMark("freshness", "DecisionFreshness")
  BY <1>2, <1>6, Zenon DEF WatchdogMark, locks, listenerVars, FreshnessPlaces
<1>7. CASE WatchdogHold("heartbeat")
  BY <1>1, <1>7, Zenon DEF WatchdogHold, SendHold, listenerVars, HeartbeatPlaces
<1>8. CASE WatchdogHold("freshness")
  BY <1>2, <1>8, Zenon DEF WatchdogHold, SendHold, listenerVars, FreshnessPlaces
<1>9. CASE FreshnessExpired
  BY <1>2, <1>9, Zenon DEF FreshnessExpired, locks, listenerVars, FreshnessPlaces
<1>10. CASE Timeout
  BY <1>10, Zenon DEF Timeout, locks, listenerVars, Places
<1> QED
  BY <1>3, <1>4, <1>5, <1>6, <1>7, <1>8, <1>9, <1>10, Zenon DEF HbWatchdog, FreshnessWatchdog

LEMMA PlacesNext == Places /\ [Next]_vars => Places'
<1> SUFFICES ASSUME Places, [Next]_vars PROVE Places'
  BY Zenon
<1>1. CASE PeriodicWake
  <2>1. /\ pc["periodic"] = "idle" /\ UNCHANGED <<transition, eval, req>>
        /\ pc' \in [Threads -> Labels] /\ pc'["periodic"] = "eval" /\ pc'["listener"] = pc["listener"]
        /\ pc'["release"] = pc["release"] /\ pc'["heartbeat"] = pc["heartbeat"]
        /\ pc'["freshness"] = pc["freshness"]
    BY <1>1, PeriodicAt, Zenon DEF PeriodicWake, PeriodicPlaces, locks, listenerVars
  <2> QED BY <2>1, Zenon DEF Places, PeriodicPlaces, Deciding
<1>2. CASE UNCHANGED vars
  BY <1>2, Zenon DEF vars, locks, listenerVars, Places
<1> QED
  BY <1>1, <1>2, ListenerPlace, EvaluatePlace, ReleasePlace, WatchdogPlace, Zenon DEF Next

-----------------------------------------------------------------------------
(* What each thread leaves alone, and where it goes. *)

\* A command is lost, or none is.
MayLose == txLost' \in {txLost, txLost + 1}

LEMMA SendLoses == ASSUME NEW c, Send(c) \/ UNCHANGED wire PROVE MayLose
  BY Zenon DEF Send, wire, MayLose

LEMMA EvaluateFrame ==
    ASSUME NEW t, Evaluate(t)
    PROVE  /\ UNCHANGED <<faultVars, miss, overdue, sourceVars, phys, snap>>
           /\ t # "listener" => UNCHANGED <<transition, listenerVars>>
           /\ pc[t] \in {"eval"} \cup Deciding
           /\ \E l \in {"idle"} \cup Deciding : Goto(t, l)
           /\ MayLose
<1> USE DEF Deciding
<1>1. CASE EvalEnter(t)
  BY <1>1, SendLoses, Zenon DEF EvalEnter, SendHold, Done
<1>2. CASE EvalSnapshot(t)
  BY <1>2, SendLoses, Zenon DEF EvalSnapshot, locks
<1>3. CASE EvalRecheck(t)
  BY <1>3, SendLoses, Zenon DEF EvalRecheck, EvalEnd, Done, locks
<1>4. CASE EvalEmit(t)
  BY <1>4, SendLoses, Zenon DEF EvalEmit, EvalEnd, Done
<1> QED BY <1>1, <1>2, <1>3, <1>4, Zenon DEF Evaluate

LEMMA ReleaseFrame ==
    ASSUME Release
    PROVE  /\ UNCHANGED <<faults, sub, suppress, miss, overdue, sourceVars, listenerVars, view>>
           /\ ReleaseClear \/ latch' = latch
           /\ \E l \in ReleasePlaces : Goto("release", l)
           /\ MayLose
<1> USE DEF ReleasePlaces
<1>1. CASE ReleaseRequested
  BY <1>1, SendLoses, Zenon DEF ReleaseRequested, faultVars
<1>2. CASE ReleaseCheck
  BY <1>2, SendLoses, Zenon DEF ReleaseCheck, SendHold, faultVars
<1>3. CASE ReleaseRead
  BY <1>3, SendLoses, Zenon DEF ReleaseRead, faultVars
<1>4. CASE ReleaseAnswer
  BY <1>4, SendLoses, Zenon DEF ReleaseAnswer, ReleaseEnd, faultVars, MayLose
<1>5. CASE ReleaseClear
  BY <1>5, SendLoses, Zenon DEF ReleaseClear, ReleaseEnd
<1>6. CASE ReleaseReset
  BY <1>6, SendLoses, Zenon DEF ReleaseReset, ReleaseEnd, faultVars
<1> QED BY <1>1, <1>2, <1>3, <1>4, <1>5, <1>6, Zenon DEF Release

LEMMA HeartbeatFrame ==
    ASSUME HbWatchdog
    PROVE  /\ UNCHANGED <<sub, suppress, overdue, sourceVars, phys, transition, eval, listenerVars, snap, view>>
           /\ faults \ {"GatewayHb"} \subseteq faults' /\ latch \subseteq latch'
           /\ \E l \in HeartbeatPlaces : Goto("heartbeat", l)
           /\ MayLose
<1> USE DEF HeartbeatPlaces
<1>1. ASSUME NEW m, HbTick(m)
      PROVE  /\ UNCHANGED <<sub, suppress, overdue, sourceVars, phys, transition, eval, listenerVars, snap, view>>
             /\ faults' = faults /\ latch' = latch /\ MayLose
             /\ \E l \in HeartbeatPlaces : Goto("heartbeat", l)
           /\ MayLose
  BY <1>1, SendLoses, Zenon DEF HbTick, faultVars, locks
<1>2. CASE HbRecovered
  BY <1>2, SendLoses, Zenon DEF HbRecovered, locks
<1>3. CASE WatchdogMark("heartbeat", "GatewayHb")
  BY <1>3, SendLoses, Zenon DEF WatchdogMark, MarkFault, locks
<1>4. CASE WatchdogHold("heartbeat")
  BY <1>4, SendLoses, Zenon DEF WatchdogHold, SendHold, faultVars
<1> QED BY <1>1, <1>2, <1>3, <1>4, Zenon DEF HbWatchdog

LEMMA FreshnessFrame ==
    ASSUME FreshnessWatchdog
    PROVE  /\ UNCHANGED <<sub, suppress, miss, overdue, sourceVars, phys, transition, eval, listenerVars, snap, view>>
           /\ faults \subseteq faults' /\ latch \subseteq latch'
           /\ \E l \in FreshnessPlaces : Goto("freshness", l)
           /\ MayLose
<1> USE DEF FreshnessPlaces
<1>1. CASE FreshnessExpired
  BY <1>1, SendLoses, Zenon DEF FreshnessExpired, faultVars, locks
<1>2. CASE WatchdogMark("freshness", "DecisionFreshness")
  BY <1>2, SendLoses, Zenon DEF WatchdogMark, MarkFault, locks
<1>3. CASE WatchdogHold("freshness")
  BY <1>3, SendLoses, Zenon DEF WatchdogHold, SendHold, faultVars
<1> QED BY <1>1, <1>2, <1>3, Zenon DEF FreshnessWatchdog

LEMMA ListenerFrame ==
    ASSUME Listener \/ ApplySourcePresence
    PROVE  /\ UNCHANGED <<miss, eval, snap, view>> /\ MayLose
           /\ MarkFresh \/ faults \cap {"GatewayHb", "DecisionFreshness"} \subseteq faults'
           /\ "GatewayHb" \in faults' <=> "GatewayHb" \in faults
           /\ latch \subseteq latch'
           /\ pc' = pc \/ \E l \in ListenerPlaces \ Deciding : Goto("listener", l)
<1> USE DEF ListenerPlaces, Deciding
<1>1. ASSUME NEW r, NEW gap, Receive(r, gap)
      PROVE  /\ UNCHANGED <<miss, eval, snap, view>> /\ MayLose
             /\ faults \cap {"GatewayHb", "DecisionFreshness"} \subseteq faults' /\ latch \subseteq latch'
             /\ "GatewayHb" \in faults' <=> "GatewayHb" \in faults
             /\ \E l \in ListenerPlaces \ Deciding : Goto("listener", l)
  BY <1>1, SendLoses DEF Receive, MarkFault
<1>2. ASSUME NEW at, NEW l \in {"fresh", "presence"}, ListenerHold(at, l)
      PROVE  UNCHANGED <<miss, eval, snap, view, faults, latch>> /\ Goto("listener", l) /\ MayLose
  BY <1>2, SendLoses, Zenon DEF ListenerHold, SendHold, faultVars
<1>3. CASE MarkFresh
  BY <1>3, SendLoses, Zenon DEF MarkFresh, locks
<1>4. CASE ApplyAiVerdicts
  BY <1>4, SendLoses, Zenon DEF ApplyAiVerdicts, locks
<1>5. CASE ApplySourceInputState
  BY <1>5, SendLoses, ZenonT(40) DEF ApplySourceInputState, SendHold, MarkPss
<1>6. CASE UpdateSensorHealth
  BY <1>6, SendLoses DEF UpdateSensorHealth, MarkFault, locks
<1>7. CASE ApplyMode
  BY <1>7, SendLoses, Zenon DEF ApplyMode, Done
<1>8. CASE ApplySwFailEvents
  BY <1>8, SendLoses, Zenon DEF ApplySwFailEvents, SendHold, MarkPss, Done
<1>9. CASE ApplyModeError
  BY <1>9, SendLoses, Zenon DEF ApplyModeError, SendHold, MarkPss, Done
<1>10. CASE ApplyEvent
  BY <1>10, SendLoses, Zenon DEF ApplyEvent, locks
<1>11. CASE ApplyDone
  BY <1>11, SendLoses, Zenon DEF ApplyDone, Done, faultVars
<1>12. CASE FinalHold
  BY <1>12, SendLoses, Zenon DEF FinalHold, SendHold, Done, faultVars
<1>13. CASE ApplySourcePresence
  BY <1>13, SendLoses, Zenon DEF ApplySourcePresence, SendHold
<1> QED
  BY <1>1, <1>2, <1>3, <1>4, <1>5, <1>6, <1>7, <1>8, <1>9, <1>10, <1>11, <1>12, <1>13, Zenon DEF Listener

-----------------------------------------------------------------------------
(* Lost sources. *)

SourceInv == seen \subseteq Sources /\ held \subseteq Sources /\ gone \subseteq seen /\ LossHeldUntilBack

LEMMA SourceNext == Places /\ SourceInv /\ [Next]_vars => SourceInv'
<1> SUFFICES ASSUME Places, SourceInv, [Next]_vars PROVE SourceInv'
  BY Zenon
<1>g. \A s \in gone : GroupOf[s] \in LostCauses
  BY SourceAssumption, Zenon DEF SourceInv
<1>1. ASSUME UNCHANGED <<seen, held, gone>>, sub \subseteq sub' PROVE SourceInv'
  BY <1>1, Zenon DEF SourceInv, LossHeldUntilBack
<1>2. CASE ApplySourcePresence
  <2> DEFINE d == SourcePresenceEvaluate(seen, req)
             entered == d.raised \ sub
  <2>1. req \in Requests
    BY <1>2, Zenon DEF ApplySourcePresence, Places
  <2>2. /\ d.seen \subseteq Sources /\ d.cleared \subseteq LostCauses /\ d.raised \cap d.cleared = {}
        /\ GoneAfter(gone, req) \subseteq d.seen
        /\ \A s \in GoneAfter(gone, req) : GroupOf[s] \in d.raised \/ (s \in gone /\ d.cleared = {})
    BY <2>1, PresenceFacts, Zenon DEF SourceInv
  <2>3. /\ seen' = d.seen /\ gone' = GoneAfter(gone, req) /\ held' = held
        /\ sub' = (sub \ d.cleared) \cup entered
    BY <1>2, Zenon DEF ApplySourcePresence, ClearPss
  <2> HIDE DEF d
  <2>4. \A s \in gone' : GroupOf[s] \in sub'
    BY <2>2, <2>3, Zenon DEF SourceInv, LossHeldUntilBack
  <2>5. held' # {} => "INPUT_UNUSABLE" \in sub'
    BY <2>2, <2>3, Zenon DEF SourceInv, LossHeldUntilBack, LostCauses
  <2> QED BY <2>2, <2>3, <2>4, <2>5, Zenon DEF SourceInv, LossHeldUntilBack
<1>3. CASE ApplySourceInputState /\ UNCHANGED gone
  <2> DEFINE d == SourceInputStateEvaluate(held, req)
  <2>1. req \in Requests
    BY <1>3, Zenon DEF ApplySourceInputState, Places
  <2>2. /\ d.held \subseteq Sources /\ d.raised = (IF d.held # {} THEN {"INPUT_UNUSABLE"} ELSE {})
        /\ d.cleared \subseteq {"INPUT_UNUSABLE"} /\ (d.held # {} => d.cleared = {})
    BY <2>1, InputFacts, Zenon DEF SourceInv
  <2>3. /\ held' = d.held /\ UNCHANGED <<seen, gone>>
        /\ \/ d.raised \subseteq sub /\ sub' = sub \ d.cleared
           \/ sub' = sub \cup d.raised
    BY <1>3, Zenon DEF ApplySourceInputState, ClearPss, MarkPss
  <2> HIDE DEF d
  <2>4. \A s \in gone' : GroupOf[s] \in sub'
    BY <1>g, <2>2, <2>3, Zenon DEF SourceInv, LossHeldUntilBack, LostCauses
  <2>5. held' # {} => "INPUT_UNUSABLE" \in sub'
    BY <2>2, <2>3, Zenon
  <2> QED BY <2>2, <2>3, <2>4, <2>5, Zenon DEF SourceInv, LossHeldUntilBack
<1>4. CASE ApplyMode /\ UNCHANGED gone
  <2>1. sub' = sub \/ \E S \in SUBSET {"MODE_ERROR", "GATEWAY_COMM", "SW_FAIL"} : sub' = sub \ S
    BY <1>4, Zenon DEF ApplyMode, ClearPss
  <2>2. UNCHANGED <<seen, held, gone>>
    BY <1>4, Zenon DEF ApplyMode, sourceVars
  <2>3. PICK S \in SUBSET {"MODE_ERROR", "GATEWAY_COMM", "SW_FAIL"} : sub' = sub \ S
    BY <2>1, Zenon
  <2>4. \A s \in gone : GroupOf[s] \notin S
    BY <1>g, Zenon DEF LostCauses
  <2> QED BY <2>2, <2>3, <2>4, Zenon DEF SourceInv, LossHeldUntilBack
<1>5. CASE Listener /\ ~ApplyMode /\ ~ApplySourceInputState /\ UNCHANGED gone
  <2>1. CASE ApplySwFailEvents
    BY <1>1, <1>5, <2>1, Zenon DEF ApplySwFailEvents, MarkPss
  <2>2. CASE ApplyModeError
    BY <1>1, <1>5, <2>2, Zenon DEF ApplyModeError, MarkPss, sourceVars
  <2>3. CASE ~ApplySwFailEvents /\ ~ApplyModeError
    <3>1. ASSUME NEW r, NEW gap, Receive(r, gap) PROVE SourceInv'
      BY <1>1, <1>5, <3>1, Zenon DEF Receive, sourceVars
    <3>2. ASSUME NEW at, NEW l, ListenerHold(at, l) PROVE SourceInv'
      BY <1>1, <1>5, <3>2, Zenon DEF ListenerHold, faultVars, sourceVars
    <3>3. CASE MarkFresh \/ ApplyAiVerdicts
      BY <1>1, <1>5, <3>3, Zenon DEF MarkFresh, ApplyAiVerdicts, sourceVars
    <3>4. CASE UpdateSensorHealth \/ ApplyEvent
      BY <1>1, <1>5, <3>4, Zenon DEF UpdateSensorHealth, ApplyEvent
    <3>5. CASE ApplyDone \/ FinalHold
      BY <1>1, <1>5, <3>5, Zenon DEF ApplyDone, FinalHold, faultVars, sourceVars
    <3> QED BY <1>5, <2>3, <3>1, <3>2, <3>3, <3>4, <3>5, Zenon DEF Listener
  <2> QED BY <2>1, <2>2, <2>3, Zenon
<1>6. CASE (Evaluate("listener") \/ Evaluate("periodic") \/ PeriodicWake) /\ UNCHANGED gone
  BY <1>1, <1>6, EvaluateFrame, Zenon DEF PeriodicWake, faultVars, sourceVars
<1>7. CASE Release /\ UNCHANGED gone
  BY <1>1, <1>7, ReleaseFrame, Zenon DEF sourceVars
<1>8. CASE (HbWatchdog \/ Timeout \/ FreshnessWatchdog) /\ UNCHANGED gone
  BY <1>1, <1>8, HeartbeatFrame, FreshnessFrame, Zenon DEF Timeout, faultVars, sourceVars
<1>9. CASE UNCHANGED vars
  BY <1>1, <1>9, Zenon DEF vars, faultVars, sourceVars
<1> QED BY <1>2, <1>3, <1>4, <1>5, <1>6, <1>7, <1>8, <1>9, Zenon DEF Next

(* A source known to be lost keeps its group's sub-cause, and one whose     *)
(* reports are rejected keeps INPUT_UNUSABLE, whatever requests, modes and  *)
(* releases come in between (applySourcePresence, applySourceInputState).   *)
THEOREM LossIsHeld == Spec => []LossHeldUntilBack
<1>1. Init => SourceInv
  BY Zenon DEF Init, SourceInv, LossHeldUntilBack
<1>2. SourceInv => LossHeldUntilBack
  BY Zenon DEF SourceInv
<1> QED BY <1>1, <1>2, PlacesInit, PlacesNext, SourceNext, PTL DEF Spec

-----------------------------------------------------------------------------
(* Suppression. *)

(* Suppression has a sub-cause behind it, or the request being applied is   *)
(* in mode ERROR and its sub-cause is still to be marked.                   *)
SuppressInv ==
    /\ sub # {} => suppress = TRUE
    /\ suppress => sub # {} \/ (pc["listener"] \in {"swFail", "modeError"} /\ req.mode = "ERROR")
    /\ pc["listener"] = "modeError" => req.mode = "ERROR"

LEMMA SuppressNext == Places /\ SuppressInv /\ [Next]_vars => SuppressInv'
<1> SUFFICES ASSUME Places, SuppressInv, [Next]_vars PROVE SuppressInv'
  BY Zenon
<1> DEFINE Marked == sub' # {} /\ suppress' = TRUE
           Cleared == sub' = {} /\ suppress' = FALSE
<1>1. ASSUME Marked \/ Cleared \/ (UNCHANGED <<sub, suppress>> /\ pc["listener"] \notin {"swFail", "modeError"}),
             pc'["listener"] # "modeError"
      PROVE  SuppressInv'
  BY <1>1 DEF SuppressInv
<1>2. ASSUME NEW S, ClearPss(S), pc["listener"] \notin {"swFail", "modeError"}
      PROVE  Marked \/ Cleared \/ UNCHANGED <<sub, suppress>>
  BY <1>2, Zenon DEF ClearPss, SuppressInv
<1>3. ASSUME UNCHANGED <<sub, suppress, req>>, pc'["listener"] = pc["listener"] PROVE SuppressInv'
  BY <1>3, Zenon DEF SuppressInv
<1>4. ASSUME NEW r, NEW gap, Receive(r, gap) PROVE SuppressInv'
  <2>1. \E l \in {"fresh", "sequenceHold"} : Goto("listener", l)
    BY <1>4, Zenon DEF Receive
  <2>2. pc'["listener"] # "modeError" /\ pc["listener"] = "idle" /\ UNCHANGED <<sub, suppress>>
    BY <1>4, <2>1, ListenerAt, Zenon DEF Receive, ListenerPlaces
  <2> QED BY <1>1, <2>2, Zenon
<1>5. ASSUME NEW l \in ListenerPlaces, Goto("listener", l), l # "modeError",
             pc["listener"] \notin {"swFail", "modeError"}, UNCHANGED <<sub, suppress>>
      PROVE  SuppressInv'
  BY <1>1, <1>5, ListenerAt, Zenon
<1>6. CASE ListenerHold("sequenceHold", "fresh") \/ ListenerHold("aiHold", "presence") \/ MarkFresh
  BY <1>5, <1>6, Zenon DEF ListenerHold, MarkFresh, faultVars, ListenerPlaces
<1>7. CASE ApplyAiVerdicts
  <2>1. PICK l \in {"aiHold", "presence"} : Goto("listener", l)
    BY <1>7, Zenon DEF ApplyAiVerdicts
  <2>2. pc["listener"] = "ai" /\ UNCHANGED <<sub, suppress>>
    BY <1>7, Zenon DEF ApplyAiVerdicts
  <2> QED BY <1>5, <2>1, <2>2, Zenon DEF ListenerPlaces
<1>8. CASE ApplySourcePresence
  <2>1. pc["listener"] = "presence" /\ pc'["listener"] = "input"
    BY <1>8, ListenerAt, Zenon DEF ApplySourcePresence, ListenerPlaces
  <2>2. Marked \/ \E S : ClearPss(S)
    BY <1>8, Zenon DEF ApplySourcePresence
  <2> QED BY <1>1, <1>2, <2>1, <2>2, Zenon
<1>9. CASE ApplySourceInputState
  <2>1. pc["listener"] = "input" /\ pc'["listener"] = "health"
    BY <1>9, ListenerAt, Zenon DEF ApplySourceInputState, ListenerPlaces
  <2>2. Marked \/ \E S : ClearPss(S)
    BY <1>9, Zenon DEF ApplySourceInputState, MarkPss
  <2> QED BY <1>1, <1>2, <2>1, <2>2, Zenon
<1>10. CASE UpdateSensorHealth \/ ApplyEvent
  BY <1>3, <1>10, Zenon DEF UpdateSensorHealth, ApplyEvent
<1>11. CASE ApplyMode
  <2>1. pc["listener"] = "health"
    BY <1>11, Zenon DEF ApplyMode
  <2>2. CASE req.mode = "ERROR"
    BY <1>11, <2>1, <2>2, ListenerAt, Zenon DEF ApplyMode, SuppressInv, listenerVars, ListenerPlaces
  <2>3. CASE req.mode # "ERROR"
    <3>1. \E l \in {"idle", "swFail"} : Goto("listener", l)
      BY <1>11, <2>3, Zenon DEF ApplyMode, Done
    <3>2. pc'["listener"] # "modeError"
      BY <3>1, ListenerAt, Zenon DEF ListenerPlaces
    <3>3. \E S : ClearPss(S)
      BY <1>11, <2>3, Zenon DEF ApplyMode
    <3> QED BY <1>1, <1>2, <2>1, <3>2, <3>3, Zenon
  <2> QED BY <2>2, <2>3, Zenon
<1>12. CASE ApplySwFailEvents
  <2>1. pc["listener"] = "swFail"
    BY <1>12, Zenon DEF ApplySwFailEvents
  <2>2. Marked \/ UNCHANGED <<sub, suppress>>
    BY <1>12, Zenon DEF ApplySwFailEvents, MarkPss
  <2>3. CASE req.mode = "ERROR"
    BY <1>12, <2>1, <2>2, <2>3, ListenerAt, Zenon DEF ApplySwFailEvents, listenerVars, ListenerPlaces, SuppressInv
  <2>4. CASE req.mode # "ERROR"
    <3>1. \E l \in {"idle", "hold", "event"} : Goto("listener", l)
      BY <1>12, <2>4, Zenon DEF ApplySwFailEvents, Done
    <3>2. pc'["listener"] # "modeError"
      BY <3>1, ListenerAt, Zenon DEF ListenerPlaces
    <3> QED BY <2>1, <2>2, <2>4, <3>2 DEF SuppressInv
  <2> QED BY <2>3, <2>4, Zenon
<1>13. CASE ApplyModeError
  <2>1. Marked /\ pc'["listener"] = "idle"
    BY <1>13, ListenerAt, Zenon DEF ApplyModeError, MarkPss, Done, ListenerPlaces
  <2> QED BY <1>1, <2>1, Zenon
<1>14. CASE ApplyDone \/ FinalHold
  <2>1. \E l \in {"idle", "hold", "eval"} : Goto("listener", l)
    BY <1>14, Zenon DEF ApplyDone, FinalHold, Done
  <2>2. pc["listener"] \in {"event", "hold"} /\ UNCHANGED <<sub, suppress>>
    BY <1>14, Zenon DEF ApplyDone, FinalHold, faultVars
  <2> QED BY <1>5, <2>1, <2>2, Zenon DEF ListenerPlaces
<1>15. CASE Evaluate("listener")
  <2>1. \E l \in {"idle"} \cup Deciding : Goto("listener", l)
    BY <1>15, EvaluateFrame, Zenon
  <2>2. pc["listener"] \in {"eval"} \cup Deciding /\ UNCHANGED <<sub, suppress>>
    BY <1>15, EvaluateFrame, Zenon DEF faultVars
  <2> QED BY <1>5, <2>1, <2>2, Zenon DEF ListenerPlaces, Deciding
<1>16. CASE PeriodicWake \/ Evaluate("periodic")
  <2>1. \E l \in PeriodicPlaces : Goto("periodic", l)
    BY <1>16, EvaluateFrame, Zenon DEF PeriodicWake, PeriodicPlaces
  <2>2. UNCHANGED <<sub, suppress, req>>
    BY <1>16, EvaluateFrame DEF PeriodicWake, faultVars, listenerVars
  <2> QED BY <1>3, <2>1, <2>2, PeriodicAt, Zenon
<1>17. CASE Release
  <2>1. \E l \in ReleasePlaces : Goto("release", l)
    BY <1>17, ReleaseFrame, Zenon
  <2>2. UNCHANGED <<sub, suppress, req>>
    BY <1>17, ReleaseFrame, Zenon DEF listenerVars
  <2> QED BY <1>3, <2>1, <2>2, ReleaseAt, Zenon
<1>18. CASE HbWatchdog \/ Timeout \/ FreshnessWatchdog
  <2>1. UNCHANGED <<sub, suppress, req>>
    BY <1>18, HeartbeatFrame, FreshnessFrame, Zenon DEF Timeout, faultVars, listenerVars
  <2>2. \/ \E l \in HeartbeatPlaces : Goto("heartbeat", l)
        \/ \E l \in FreshnessPlaces : Goto("freshness", l)
        \/ pc' = pc
    BY <1>18, HeartbeatFrame, FreshnessFrame, Zenon DEF Timeout
  <2> QED BY <1>3, <2>1, <2>2, HeartbeatAt, FreshnessAt, Zenon
<1>19. CASE UNCHANGED vars
  BY <1>3, <1>19, Zenon DEF vars, faultVars, listenerVars
<1> QED
  BY <1>4, <1>6, <1>7, <1>8, <1>9, <1>10, <1>11, <1>12, <1>13, <1>14, <1>15, <1>16, <1>17, <1>18, <1>19
, Zenon DEF Next, Listener

(* Between requests decisions are suppressed exactly while PSS has an       *)
(* active sub-cause (markPssSubCause, clearPssSubCause).                    *)
THEOREM SuppressionIsExact == Spec => []SuppressedByCause
<1>1. Init => SuppressInv
  BY Zenon DEF Init, SuppressInv, Threads
<1>2. SuppressInv => SuppressedByCause
  BY Zenon DEF SuppressInv, SuppressedByCause
<1> QED BY <1>1, <1>2, PlacesInit, PlacesNext, SuppressNext, PTL DEF Spec

-----------------------------------------------------------------------------
(* A fault during a release. *)

(* The watchdog that raised a fault during a release still waits to send    *)
(* its hold, for the lock the release has; so the fault is still active.    *)
RaisedInv ==
    raised =>
        /\ pc["release"] \in {"answer", "clear", "reset"}
        /\ \/ pc["heartbeat"] = "hold" /\ "GatewayHb" \in faults
           \/ pc["freshness"] = "hold" /\ "DecisionFreshness" \in faults

LEMMA RaisedNext == Places /\ RaisedInv /\ [Next]_vars => RaisedInv'
<1> SUFFICES ASSUME Places, RaisedInv, [Next]_vars PROVE RaisedInv'
  BY Zenon
<1>1. ASSUME pc'["release"] = pc["release"], pc'["heartbeat"] = pc["heartbeat"],
             pc'["freshness"] = pc["freshness"], raised' = raised,
             faults \cap {"GatewayHb", "DecisionFreshness"} \subseteq faults'
      PROVE  RaisedInv'
  BY <1>1, Zenon DEF RaisedInv
<1>2. CASE (Listener \/ ApplySourcePresence) /\ UNCHANGED raised
  <2>1. CASE MarkFresh
    <3>1. pc["release"] = "idle" /\ raised' = raised
      BY <1>2, <2>1, Zenon DEF MarkFresh, Places
    <3> QED BY <3>1, Zenon DEF RaisedInv
  <2>2. CASE ~MarkFresh
    <3>1. faults \cap {"GatewayHb", "DecisionFreshness"} \subseteq faults'
      BY <1>2, <2>2, ListenerFrame, Zenon
    <3>2. pc' = pc \/ \E l \in ListenerPlaces : Goto("listener", l)
      BY <1>2, ListenerFrame, Zenon
    <3> QED BY <1>1, <1>2, <3>1, <3>2, ListenerAt, Zenon
  <2> QED BY <2>1, <2>2, Zenon
<1>3. CASE (Evaluate("listener") \/ Evaluate("periodic") \/ PeriodicWake) /\ UNCHANGED raised
  <2>1. \/ \E l \in ListenerPlaces : Goto("listener", l)
        \/ \E l \in PeriodicPlaces : Goto("periodic", l)
    BY <1>3, EvaluateFrame, Zenon DEF PeriodicWake, PeriodicPlaces, ListenerPlaces
  <2>2. faults' = faults
    BY <1>3, EvaluateFrame, Zenon DEF PeriodicWake, faultVars
  <2> QED BY <1>1, <1>3, <2>1, <2>2, ListenerAt, PeriodicAt, Zenon
<1>4. CASE Release
  <2>1. faults' = faults
    BY <1>4, ReleaseFrame, Zenon
  <2>2. raised' = FALSE \/ (raised' = raised /\ pc["release"] \notin {"answer", "clear", "reset"})
        \/ (raised' = raised /\ \E l \in {"clear", "reset"} : Goto("release", l))
    BY <1>4, Zenon DEF Release, ReleaseRequested, ReleaseCheck, ReleaseRead, ReleaseAnswer, ReleaseClear,
                ReleaseReset, ReleaseEnd
  <2> QED BY <2>1, <2>2, ReleaseAt, Zenon DEF RaisedInv, ReleasePlaces
<1>5. CASE HbWatchdog
  <2>1. CASE pc["heartbeat"] = "hold" /\ raised
    <3>1. eval = "release"
      BY <2>1, Zenon DEF RaisedInv, Places
    <3> QED BY <1>5, <2>1, <3>1, Zenon DEF HbWatchdog, HbTick, HbRecovered, WatchdogMark, WatchdogHold, SendHold, Free
  <2>2. CASE pc["heartbeat"] # "hold"
    <3>1. CASE WatchdogMark("heartbeat", "GatewayHb") /\ "GatewayHb" \notin faults
      BY <2>2, <3>1, HeartbeatAt, Zenon DEF WatchdogMark, MarkFault, RaisedInv, HeartbeatPlaces
    <3>2. CASE ~(WatchdogMark("heartbeat", "GatewayHb") /\ "GatewayHb" \notin faults)
      <4>1. \E l \in HeartbeatPlaces : Goto("heartbeat", l)
        BY <1>5, HeartbeatFrame, Zenon
      <4>2. raised' = raised \/ (raised' = (raised \/ FALSE))
        BY <1>5, <3>2, Zenon DEF HbWatchdog, HbTick, HbRecovered, WatchdogMark, WatchdogHold
      <4>3. faults \ {"GatewayHb"} \subseteq faults'
        BY <1>5, HeartbeatFrame, Zenon
      <4> QED BY <2>2, <4>1, <4>2, <4>3, HeartbeatAt, Zenon DEF RaisedInv
    <3> QED BY <3>1, <3>2, Zenon
  <2>3. CASE ~raised /\ pc["heartbeat"] = "hold"
    BY <1>5, <2>3, Zenon DEF HbWatchdog, HbTick, HbRecovered, WatchdogMark, WatchdogHold, RaisedInv
  <2> QED BY <2>1, <2>2, <2>3, Zenon
<1>6. CASE FreshnessWatchdog
  <2>1. CASE pc["freshness"] = "hold" /\ raised
    <3>1. eval = "release"
      BY <2>1, Zenon DEF RaisedInv, Places
    <3> QED BY <1>6, <2>1, <3>1, Zenon DEF FreshnessWatchdog, FreshnessExpired, WatchdogMark, WatchdogHold, SendHold, Free
  <2>2. CASE pc["freshness"] # "hold"
    <3>1. CASE WatchdogMark("freshness", "DecisionFreshness") /\ "DecisionFreshness" \notin faults
      BY <2>2, <3>1, FreshnessAt, Zenon DEF WatchdogMark, MarkFault, RaisedInv, FreshnessPlaces
    <3>2. CASE ~(WatchdogMark("freshness", "DecisionFreshness") /\ "DecisionFreshness" \notin faults)
      <4>1. \E l \in FreshnessPlaces : Goto("freshness", l)
        BY <1>6, FreshnessFrame, Zenon
      <4>2. raised' = raised \/ (raised' = (raised \/ FALSE))
        BY <1>6, <3>2, Zenon DEF FreshnessWatchdog, FreshnessExpired, WatchdogMark, WatchdogHold
      <4>3. faults \subseteq faults'
        BY <1>6, FreshnessFrame, Zenon
      <4> QED BY <2>2, <4>1, <4>2, <4>3, FreshnessAt, Zenon DEF RaisedInv
    <3> QED BY <3>1, <3>2, Zenon
  <2>3. CASE ~raised /\ pc["freshness"] = "hold"
    BY <1>6, <2>3, Zenon DEF FreshnessWatchdog, FreshnessExpired, WatchdogMark, WatchdogHold, RaisedInv
  <2> QED BY <2>1, <2>2, <2>3, Zenon
<1>7. CASE Timeout
  BY <1>1, <1>7, Zenon DEF Timeout, faultVars
<1>8. CASE UNCHANGED vars
  BY <1>1, <1>8, Zenon DEF vars, faultVars
<1> QED BY <1>2, <1>3, <1>4, <1>5, <1>6, <1>7, <1>8, Zenon DEF Next

(* A release never takes down the latch when a watchdog raised a fault      *)
(* since the latch was read, even if the fault's bit was already in it      *)
(* (handleSafeReleaseRequest).                                              *)
THEOREM FaultSurvivesRelease == Spec => FaultDuringReleaseKept
<1>1. Init => RaisedInv
  BY Zenon DEF Init, RaisedInv
<1>2. Latched /\ RaisedInv /\ [Next]_vars => [latch # {} /\ latch' = {} => ~raised]_vars
  <2> SUFFICES ASSUME Latched, RaisedInv, Next, latch # {}, latch' = {} PROVE ~raised
    BY Zenon
  <2>1. CASE ReleaseClear
    BY <2>1, Zenon DEF ReleaseClear, ActiveCauses, RaisedInv
  <2>2. CASE ~ReleaseClear
    <3>1. latch \subseteq latch'
      <4>1. CASE Evaluate("listener") \/ Evaluate("periodic") \/ PeriodicWake
        BY <4>1, EvaluateFrame, Zenon DEF PeriodicWake, faultVars
      <4>2. CASE HbWatchdog \/ Timeout \/ FreshnessWatchdog
        BY <4>2, HeartbeatFrame, FreshnessFrame, Zenon DEF Timeout, faultVars
      <4> QED BY <2>2, <4>1, <4>2, ListenerFrame, ReleaseFrame, Zenon DEF Next
    <3> QED BY <3>1, Zenon
  <2> QED BY <2>1, <2>2, Zenon
<1>3. Latched /\ [Next]_vars => Latched'
  BY NextStep, Zenon DEF Step
<1> QED BY <1>1, <1>2, <1>3, LatchedInit, PlacesInit, PlacesNext, RaisedNext, PTL DEF Spec, FaultDuringReleaseKept

-----------------------------------------------------------------------------
(* A MUTE is corrected by whoever outran it. *)

\* A MUTE is on the wire, or the next thing sent.
Exposed == plc = "MUTE" \/ (view /\ (pc["listener"] = "emit" \/ pc["periodic"] = "emit"))

\* ... or its sender has not looked at the latch again.
Reading == view /\ latch = {} /\ (pc["listener"] = "recheck" \/ pc["periodic"] = "recheck")

\* Why the PLC should hold.
Reason == latch # {} \/ suppress \/ miss > WarnThreshold

\* A watchdog, or the listener, that is going to send the hold.
WatchDebt ==
    \/ pc["heartbeat"] = "hold" \/ (pc["heartbeat"] = "mark" /\ "GatewayHb" \notin faults)
    \/ pc["freshness"] = "hold"
ListenDebt ==
    \/ pc["listener"] \in {"sequenceHold", "aiHold", "modeError", "hold"}
    \/ pc["listener"] = "swFail" /\ req.mode = "ERROR"
    \/ pc["listener"] \in {"health", "swFail"} /\ flags.sensorLatch
    \/ pc["listener"] = "event" /\ flags.driftLatch
Debtor == WatchDebt \/ ListenDebt

\* The listener is going to decide anew.
Reconsiders ==
    \/ pc["listener"] = "event" /\ flags.changed
    \/ pc["listener"] \in {"eval", "snapshot"}
    \/ pc["listener"] \in {"recheck", "emit"} /\ ~view

(* While no command was lost: a MUTE that should not be has a thread that   *)
(* will correct it, and a release that is about to end has the PLC in SAFE. *)
Covered ==
    /\ Exposed /\ Reason => Debtor
    /\ (Exposed \/ Reading) /\ ~MuteAllowed(phys) => Debtor \/ Reconsiders
    /\ pc["release"] \in {"clear", "reset"} => plc = "SAFE"

(* What the listener carries from one step of a request to the next. *)
Carried ==
    /\ miss \in 0..MaxHbFailures /\ txLost \in Nat /\ idx \in Nat \ {0} /\ flags \in ListenerFlags
    /\ flags.sensorLatch =>
         ~IsNoopOnly(req) /\ pc["listener"] \in {"health", "swFail", "modeError", "hold"}

MuteInv == Carried /\ (txLost = 0 => Covered)

\* The PLC is in SAFE and nobody is about to send anything else.
LEMMA Told ==
    ASSUME Places', plc' = "SAFE", eval' \in {Free, "release"}
    PROVE  Covered'
<1>1. pc'["listener"] \notin Deciding /\ pc'["periodic"] \notin Deciding
  BY Zenon DEF Places, Free
<1>2. ~Exposed' /\ ~Reading'
  BY <1>1, Zenon DEF Exposed, Reading, Deciding
<1> QED BY <1>2, Zenon DEF Covered

LEMMA HoldTold ==
    ASSUME Places', SendHold, txLost = 0, txLost' = 0
    PROVE  Covered'
  BY Told DEF SendHold, Send

LEMMA Indebted ==
    ASSUME Covered, Debtor', plc' = plc, pc'["release"] = pc["release"]
    PROVE  Covered'
  BY Zenon DEF Covered

LEMMA Kept ==
    ASSUME Covered, plc' = plc, pc'["release"] = pc["release"], phys' = phys,
           Exposed' => Exposed, Reading' => Exposed \/ Reading, Reason' => Reason,
           Debtor => Debtor', Reconsiders => Reconsiders' \/ Debtor'
    PROVE  Covered'
  BY Zenon DEF Covered

\* A step of the listener between its decisions.
LEMMA ListenerLooks ==
    ASSUME Places, Listener \/ ApplySourcePresence, plc' = plc
    PROVE  /\ Exposed' => Exposed
           /\ Reading' => Reading
           /\ WatchDebt => WatchDebt'
           /\ pc'["release"] = pc["release"]
<1>1. /\ view' = view /\ ("GatewayHb" \in faults' <=> "GatewayHb" \in faults) /\ latch \subseteq latch'
      /\ pc' = pc \/ \E l \in ListenerPlaces \ Deciding : Goto("listener", l)
  BY ListenerFrame, Zenon
<1>2. CASE pc' = pc
  BY <1>1, <1>2, Zenon DEF Exposed, Reading, WatchDebt
<1>3. ASSUME NEW l \in ListenerPlaces \ Deciding, Goto("listener", l)
      PROVE  /\ Exposed' => Exposed
             /\ Reading' => Reading
             /\ WatchDebt => WatchDebt'
             /\ pc'["release"] = pc["release"]
  <2>1. /\ pc'["listener"] = l /\ pc'["periodic"] = pc["periodic"] /\ pc'["release"] = pc["release"]
        /\ pc'["heartbeat"] = pc["heartbeat"] /\ pc'["freshness"] = pc["freshness"]
    BY <1>3, ListenerAt, Zenon
  <2> QED BY <1>1, <2>1, Zenon DEF Exposed, Reading, WatchDebt, Deciding
<1> QED BY <1>1, <1>2, <1>3, Zenon

LEMMA ListenerKept ==
    ASSUME Places, Covered, Listener \/ ApplySourcePresence, plc' = plc, phys' = phys,
           Reason' => Reason, ListenDebt => ListenDebt', Reconsiders => Reconsiders'
    PROVE  Covered'
  BY ListenerLooks, Kept, Zenon DEF Debtor

LEMMA ListenerOwes ==
    ASSUME Places, Covered, Listener \/ ApplySourcePresence, plc' = plc, ListenDebt'
    PROVE  Covered'
  BY ListenerLooks, Indebted, Zenon DEF Debtor

\* No step of the listener leaves a MUTE that nobody is going to correct.
LEMMA ListenerCovered ==
    ASSUME Places, Places', Latched, Carried, Covered, txLost = 0, txLost' = 0,
           Listener \/ ApplySourcePresence
    PROVE  Covered'
<1>r. pc["listener"] # "idle" => req \in Requests
  BY Zenon DEF Places
<1>l. ASSUME NEW l \in ListenerPlaces, Goto("listener", l) PROVE pc'["listener"] = l
  BY <1>l, ListenerAt, Zenon
<1>1. ASSUME NEW r \in Requests, NEW gap \in {FALSE, "gap" \in Weather}, Receive(r, gap) PROVE Covered'
  <2>1. plc' = plc /\ phys' = phys /\ suppress' = suppress /\ miss' = miss /\ pc["listener"] = "idle"
    BY <1>1, Zenon DEF Receive, wire
  <2>2. CASE latch' = latch
    <3>1. ~ListenDebt /\ ~Reconsiders
      BY <2>1, Zenon DEF ListenDebt, Reconsiders
    <3>2. Reason' => Reason
      BY <2>1, <2>2, Zenon DEF Reason
    <3> QED BY <1>1, <2>1, <3>1, <3>2, ListenerKept, Zenon DEF Listener
  <2>3. CASE latch' # latch
    <3>1. Goto("listener", "sequenceHold")
      BY <1>1, <2>3, Zenon DEF Receive, MarkFault
    <3>2. ListenDebt'
      BY <1>l, <3>1, Zenon DEF ListenDebt, ListenerPlaces
    <3> QED BY <1>1, <2>1, <3>2, ListenerOwes, Zenon DEF Listener
  <2> QED BY <2>2, <2>3, Zenon
<1>2. CASE ListenerHold("sequenceHold", "fresh") \/ ListenerHold("aiHold", "presence") \/ ApplyModeError \/ FinalHold
  BY <1>2, HoldTold, Zenon DEF ListenerHold, ApplyModeError, FinalHold
<1>3. CASE MarkFresh
  <2>1. plc' = plc /\ phys' = phys /\ UNCHANGED <<suppress, latch, miss>> /\ pc["listener"] = "fresh"
    BY <1>3, Zenon DEF MarkFresh, wire
  <2>2. ~ListenDebt /\ ~Reconsiders /\ (Reason' => Reason)
    BY <2>1, Zenon DEF ListenDebt, Reconsiders, Reason
  <2> QED BY <1>3, <2>1, <2>2, ListenerKept, Zenon DEF Listener
<1>4. CASE ApplyAiVerdicts
  <2> DEFINE b == "AiPipelineInvalid" \in faults
             v == AiPipelineVerdictApply(b, req)
  <2>1. plc' = plc /\ phys' = phys /\ suppress' = suppress /\ miss' = miss /\ pc["listener"] = "ai"
    BY <1>4, Zenon DEF ApplyAiVerdicts, wire
  <2>2. v.saw /\ ~v.entered => b
    <3>1. req \in Requests /\ b \in BOOLEAN
      BY <1>r, <2>1
    <3> HIDE DEF b
    <3> QED BY <3>1, AiFacts, Zenon
  <2>3. /\ latch' = IF v.saw THEN latch \cup {"AiPipelineInvalid"} ELSE latch
        /\ Goto("listener", IF v.entered THEN "aiHold" ELSE "presence")
    BY <1>4, Zenon DEF ApplyAiVerdicts
  <2>4. b => latch # {}
    BY Zenon DEF Latched
  <2> HIDE DEF b, v
  <2>5. CASE v.entered
    <3>1. ListenDebt'
      BY <1>l, <2>3, <2>5, Zenon DEF ListenDebt, ListenerPlaces
    <3> QED BY <1>4, <2>1, <3>1, ListenerOwes, Zenon DEF Listener
  <2>6. CASE ~v.entered
    <3>1. Reason' => Reason
      BY <2>1, <2>2, <2>3, <2>4, <2>6, Zenon DEF Reason
    <3>2. ~ListenDebt /\ ~Reconsiders
      BY <2>1, Zenon DEF ListenDebt, Reconsiders
    <3> QED BY <1>4, <2>1, <3>1, <3>2, ListenerKept, Zenon DEF Listener
  <2> QED BY <2>5, <2>6, Zenon
<1>5. CASE ApplySourcePresence
  <2>1. SendHold \/ ((\E S : ClearPss(S)) /\ latch' = latch /\ plc' = plc)
    BY <1>5, Zenon DEF ApplySourcePresence, wire
  <2>2. phys' = phys /\ miss' = miss /\ pc["listener"] = "presence"
    BY <1>5, Zenon DEF ApplySourcePresence
  <2>3. ~ListenDebt /\ ~Reconsiders
    BY <2>2, Zenon DEF ListenDebt, Reconsiders
  <2>4. ASSUME NEW S, ClearPss(S), latch' = latch PROVE Reason' => Reason
    BY <2>2, <2>4, Zenon DEF ClearPss, Reason
  <2> QED BY <1>5, <2>1, <2>2, <2>3, <2>4, ListenerKept, HoldTold, Zenon
<1>6. CASE ApplySourceInputState
  <2>1. SendHold \/ ((\E S : ClearPss(S)) /\ latch' = latch /\ plc' = plc)
    BY <1>6, Zenon DEF ApplySourceInputState, wire
  <2>2. phys' = phys /\ miss' = miss /\ pc["listener"] = "input"
    BY <1>6, Zenon DEF ApplySourceInputState
  <2>3. ~ListenDebt /\ ~Reconsiders
    BY <2>2, Zenon DEF ListenDebt, Reconsiders
  <2>4. ASSUME NEW S, ClearPss(S), latch' = latch PROVE Reason' => Reason
    BY <2>2, <2>4, Zenon DEF ClearPss, Reason
  <2>5. Listener
    BY <1>6, Zenon DEF Listener
  <2> QED BY <2>1, <2>2, <2>3, <2>4, <2>5, ListenerKept, HoldTold, Zenon
<1>7. CASE UpdateSensorHealth
  <2>1. /\ plc' = plc /\ phys' = phys /\ suppress' = suppress /\ miss' = miss /\ pc' = pc
        /\ pc["listener"] = "health" /\ Listener
    BY <1>7, Zenon DEF UpdateSensorHealth, wire, Listener
  <2>2. \/ latch' = latch /\ (flags.sensorLatch => flags'.sensorLatch)
        \/ flags'.sensorLatch
    BY <1>7, Zenon DEF UpdateSensorHealth, MarkFault, Carried, ListenerFlags
  <2>3. CASE flags'.sensorLatch
    <3>1. ListenDebt'
      BY <2>1, <2>3, Zenon DEF ListenDebt
    <3> QED BY <2>1, <3>1, ListenerOwes, Zenon
  <2>4. CASE latch' = latch /\ ~flags.sensorLatch
    <3>1. ~ListenDebt /\ ~Reconsiders /\ (Reason' => Reason)
      BY <2>1, <2>4, Zenon DEF ListenDebt, Reconsiders, Reason
    <3> QED BY <2>1, <3>1, ListenerKept, Zenon
  <2> QED BY <2>2, <2>3, <2>4, Zenon
<1>8. CASE ApplyMode
  <2>1. /\ plc' = plc /\ phys' = phys /\ latch' = latch /\ miss' = miss
        /\ pc["listener"] = "health" /\ Listener
    BY <1>8, Zenon DEF ApplyMode, wire, Listener
  <2>2. CASE req.mode = "ERROR"
    <3>1. Goto("listener", "swFail") /\ req' = req
      BY <1>8, <2>2, Zenon DEF ApplyMode, listenerVars
    <3>2. ListenDebt'
      BY <1>l, <2>2, <3>1, Zenon DEF ListenDebt, ListenerPlaces
    <3> QED BY <2>1, <3>2, ListenerOwes, Zenon
  <2>3. CASE req.mode # "ERROR"
    <3>1. PICK S : ClearPss(S)
      BY <1>8, <2>3, Zenon DEF ApplyMode
    <3>2. Reason' => Reason
      BY <2>1, <3>1, Zenon DEF ClearPss, Reason
    <3>3. ~Reconsiders
      BY <2>1, Zenon DEF Reconsiders
    <3>4. CASE flags.sensorLatch
      <4>1. ~IsNoopOnly(req)
        BY <3>4, Zenon DEF Carried
      <4>2. Goto("listener", "swFail") /\ flags' = flags
        BY <1>8, <2>3, <4>1, Zenon DEF ApplyMode, listenerVars
      <4>3. ListenDebt'
        BY <1>l, <3>4, <4>2, Zenon DEF ListenDebt, ListenerPlaces
      <4> QED BY <2>1, <4>3, ListenerOwes, Zenon
    <3>5. CASE ~flags.sensorLatch
      <4>1. ~ListenDebt
        BY <2>1, <3>5, Zenon DEF ListenDebt
      <4> QED BY <2>1, <3>2, <3>3, <4>1, ListenerKept, Zenon
    <3> QED BY <3>4, <3>5, Zenon
  <2> QED BY <2>2, <2>3, Zenon
<1>9. CASE ApplySwFailEvents
  <2>1. phys' = phys /\ miss' = miss /\ pc["listener"] = "swFail" /\ Listener
    BY <1>9, Zenon DEF ApplySwFailEvents, Listener
  <2>2. CASE NewSwFails # {}
    BY <1>9, <2>2, HoldTold, Zenon DEF ApplySwFailEvents
  <2>3. CASE NewSwFails = {}
    <3>1. plc' = plc /\ UNCHANGED <<suppress, latch>>
      BY <1>9, <2>3, Zenon DEF ApplySwFailEvents, wire
    <3>2. CASE req.mode = "ERROR" \/ flags.sensorLatch
      <4>1. \E l \in {"modeError", "hold"} : Goto("listener", l)
        BY <1>9, <2>3, <3>2, Zenon DEF ApplySwFailEvents
      <4>2. ListenDebt'
        BY <1>l, <4>1, Zenon DEF ListenDebt, ListenerPlaces
      <4> QED BY <2>1, <3>1, <4>2, ListenerOwes, Zenon
    <3>3. CASE req.mode # "ERROR" /\ ~flags.sensorLatch
      <4>1. ~ListenDebt /\ ~Reconsiders /\ (Reason' => Reason)
        BY <2>1, <3>1, <3>3, Zenon DEF ListenDebt, Reconsiders, Reason
      <4> QED BY <2>1, <3>1, <4>1, ListenerKept, Zenon
    <3> QED BY <3>2, <3>3, Zenon
  <2> QED BY <2>2, <2>3, Zenon
<1>10. CASE ApplyEvent
  <2>1. /\ plc' = plc /\ suppress' = suppress /\ miss' = miss /\ pc' = pc
        /\ pc["listener"] = "event" /\ Listener
    BY <1>10, Zenon DEF ApplyEvent, wire, Listener
  <2>2. /\ phys' = phys \/ flags'.changed
        /\ latch' = latch \/ latch # {} \/ flags'.driftLatch
        /\ flags.changed => flags'.changed
        /\ flags.driftLatch => flags'.driftLatch
    BY <1>10, Zenon DEF ApplyEvent, Carried, ListenerFlags
  <2>3. (Exposed' => Exposed) /\ (Reading' => Reading) /\ (WatchDebt => WatchDebt')
    BY <2>1, ListenerLooks, Zenon
  <2>4. (ListenDebt => ListenDebt') /\ (Reconsiders => Reconsiders') /\ (Reason' => Reason \/ ListenDebt')
        /\ (phys' = phys \/ Reconsiders')
    BY <2>1, <2>2, Zenon DEF ListenDebt, Reconsiders, Reason
  <2> QED BY <2>1, <2>3, <2>4, Zenon DEF Covered, Debtor
<1>11. CASE ApplyDone
  <2>1. /\ plc' = plc /\ phys' = phys /\ UNCHANGED <<suppress, latch, miss>>
        /\ pc["listener"] = "event" /\ Listener
    BY <1>11, Zenon DEF ApplyDone, faultVars, wire, Listener
  <2>2. CASE flags.driftLatch
    <3>1. Goto("listener", "hold")
      BY <1>11, <2>2, Zenon DEF ApplyDone
    <3>2. ListenDebt'
      BY <1>l, <3>1, Zenon DEF ListenDebt, ListenerPlaces
    <3> QED BY <2>1, <3>2, ListenerOwes, Zenon
  <2>3. CASE ~flags.driftLatch
    <3>1. ~ListenDebt /\ (Reason' => Reason)
      BY <2>1, <2>3, Zenon DEF ListenDebt, Reason
    <3>2. CASE latch = {} /\ flags.changed
      <4>1. Goto("listener", "eval")
        BY <1>11, <2>3, <3>2, Zenon DEF ApplyDone
      <4>2. Reconsiders'
        BY <1>l, <4>1, Zenon DEF Reconsiders, ListenerPlaces
      <4> QED BY <2>1, <3>1, <4>2, ListenerKept, Zenon
    <3>3. CASE latch # {}
      <4>1. (Exposed' => Exposed) /\ ~Reading' /\ (WatchDebt => WatchDebt') /\ Reason
            /\ pc'["release"] = pc["release"]
        BY <2>1, <3>3, ListenerLooks, Zenon DEF Reading, Reason
      <4> QED BY <2>1, <3>1, <4>1, Zenon DEF Covered, Debtor
    <3>4. CASE ~flags.changed
      <4>1. ~Reconsiders
        BY <2>1, <3>4, Zenon DEF Reconsiders
      <4> QED BY <2>1, <3>1, <4>1, ListenerKept, Zenon
    <3> QED BY <3>2, <3>3, <3>4, Zenon
  <2> QED BY <2>2, <2>3, Zenon
<1> QED
  BY <1>1, <1>2, <1>3, <1>4, <1>5, <1>6, <1>7, <1>8, <1>9, <1>10, <1>11, Zenon DEF Listener

\* Nobody is between a snapshot and a send.
LEMMA NobodyDecides ==
    ASSUME Places, eval \in {Free, "release"}
    PROVE  pc["listener"] \notin Deciding /\ pc["periodic"] \notin Deciding
  BY Zenon DEF Places, Free

\* A heartbeat suppression in force has its cause in the latch.
LEMMA SuppressReason ==
    ASSUME Latched, HbSuppress PROVE Reason
  BY Zenon DEF HbSuppress, Reason, Latched

LEMMA PeriodicCovered ==
    ASSUME Places, Places', Latched, Covered, txLost = 0, txLost' = 0, PeriodicWake \/ Evaluate("periodic")
    PROVE  Covered'
<1>p. ASSUME NEW l \in PeriodicPlaces, Goto("periodic", l)
      PROVE  /\ pc'["periodic"] = l /\ pc'["listener"] = pc["listener"] /\ pc'["release"] = pc["release"]
             /\ pc'["heartbeat"] = pc["heartbeat"] /\ pc'["freshness"] = pc["freshness"]
  BY <1>p, PeriodicAt, Zenon
<1>f. UNCHANGED <<faults, suppress, latch, miss, phys, req, flags>>
  BY EvaluateFrame DEF PeriodicWake, faultVars, listenerVars
<1>d. \E l \in PeriodicPlaces : Goto("periodic", l)
  BY EvaluateFrame, Zenon DEF PeriodicWake, PeriodicPlaces
<1>k. (Debtor => Debtor') /\ (Reason' => Reason)
  BY <1>p, <1>d, <1>f, Zenon DEF Debtor, WatchDebt, ListenDebt, Reason
<1>r. pc["listener"] \notin Deciding => (Reconsiders => Reconsiders')
  BY <1>p, <1>d, <1>f, Zenon DEF Reconsiders, Deciding
<1>1. CASE PeriodicWake
  <2>1. Goto("periodic", "eval") /\ plc' = plc /\ view' = view /\ pc["periodic"] = "idle"
    BY <1>1, Zenon DEF PeriodicWake, wire
  <2>2. (Exposed' => Exposed) /\ (Reading' => Reading) /\ (Reconsiders => Reconsiders')
    BY <1>f, <1>p, <2>1 DEF Exposed, Reading, Reconsiders, PeriodicPlaces
  <2> QED BY <1>f, <1>d, <1>p, <1>k, <2>1, <2>2, Kept, Zenon
<1>2. CASE EvalEnter("periodic")
  <2>1. eval = Free
    BY <1>2, Zenon DEF EvalEnter
  <2>2. CASE MustHold
    BY <1>2, <2>2, HoldTold, Zenon DEF EvalEnter
  <2>3. CASE ~MustHold
    <3>1. plc' = plc /\ view' = view /\ \E l \in {"idle", "snapshot"} : Goto("periodic", l)
      BY <1>2, <2>3, Zenon DEF EvalEnter, wire, Done
    <3>2. (Exposed' => Exposed) /\ (Reading' => Reading)
      BY <1>f, <1>p, <2>1, <3>1, NobodyDecides, Zenon DEF Exposed, Reading, PeriodicPlaces, Deciding
    <3> QED BY <1>f, <1>d, <1>p, <1>k, <1>r, <2>1, <3>1, <3>2, NobodyDecides, Kept, Zenon
  <2> QED BY <2>2, <2>3, Zenon
<1>3. CASE EvalSnapshot("periodic")
  <2>1. /\ plc' = plc /\ view' = MuteAllowed(phys) /\ Goto("periodic", "recheck")
        /\ pc["periodic"] = "snapshot"
    BY <1>3, Zenon DEF EvalSnapshot, wire
  <2>2. pc["listener"] \notin Deciding /\ pc'["listener"] = pc["listener"] /\ pc'["periodic"] = "recheck"
        /\ pc'["release"] = pc["release"]
    BY <1>p, <2>1, Zenon DEF Places, Deciding, PeriodicPlaces
  <2>3. (Exposed' => Exposed) /\ (Reading' => MuteAllowed(phys'))
    BY <1>f, <2>1, <2>2, Zenon DEF Exposed, Reading, Deciding
  <2> QED BY <1>f, <1>k, <1>r, <2>1, <2>2, <2>3, Zenon DEF Covered
<1>4. CASE EvalRecheck("periodic")
  <2>1. pc["periodic"] = "recheck" /\ pc["listener"] \notin Deciding
    BY <1>4, Zenon DEF EvalRecheck, Places, Deciding
  <2>2. CASE MustHold
    BY <1>4, <2>2, Told DEF EvalRecheck, EvalEnd, Send
  <2>3. CASE ~MustHold /\ HbSuppress
    <3>1. plc' = plc /\ view' = FALSE /\ Goto("periodic", "idle")
      BY <1>4, <2>3, Zenon DEF EvalRecheck, EvalEnd, Done, wire
    <3>2. (Exposed' => Exposed) /\ ~Reading'
      BY <3>1, Zenon DEF Exposed, Reading
    <3> QED BY <1>f, <1>d, <1>p, <1>k, <1>r, <2>1, <3>1, <3>2, Kept, Zenon
  <2>4. CASE ~MustHold /\ ~HbSuppress
    <3>1. plc' = plc /\ view' = view /\ Goto("periodic", "emit")
      BY <1>4, <2>4, Zenon DEF EvalRecheck, wire
    <3>2. ~Reason /\ latch = {}
      BY <2>4, Zenon DEF MustHold, HbSuppress, Reason
    <3>3. (Exposed' => Exposed \/ Reading) /\ (Reading' => Reading)
      BY <1>f, <1>p, <2>1, <3>1, <3>2, Zenon DEF Exposed, Reading, PeriodicPlaces, Deciding
    <3> QED BY <1>f, <1>d, <1>p, <1>k, <1>r, <2>1, <3>1, <3>2, <3>3, Zenon DEF Covered
  <2> QED BY <2>2, <2>3, <2>4, Zenon
<1>5. CASE EvalEmit("periodic")
  <2>1. pc["periodic"] = "emit" /\ pc["listener"] \notin Deciding /\ pc["release"] \notin {"clear", "reset"}
    BY <1>5, Zenon DEF EvalEmit, Places, Deciding
  <2>2. CASE ~view
    BY <1>5, <2>2, Told DEF EvalEmit, EvalEnd, Send
  <2>3. CASE view
    <3>1. Exposed /\ view' = FALSE /\ pc'["release"] \notin {"clear", "reset"}
      BY <1>5, <1>d, <1>p, <2>1, <2>3, Zenon DEF EvalEmit, EvalEnd, Exposed
    <3>2. ~Reading'
      BY <3>1, Zenon DEF Reading
    <3> QED BY <1>f, <1>k, <1>r, <2>1, <3>1, <3>2, Zenon DEF Covered
  <2> QED BY <2>2, <2>3, Zenon
<1> QED BY <1>1, <1>2, <1>3, <1>4, <1>5, Zenon DEF Evaluate

LEMMA DecisionCovered ==
    ASSUME Places, Places', Latched, Covered, txLost = 0, txLost' = 0, Evaluate("listener")
    PROVE  Covered'
<1>p. ASSUME NEW l \in ListenerPlaces, Goto("listener", l)
      PROVE  /\ pc'["listener"] = l /\ pc'["periodic"] = pc["periodic"] /\ pc'["release"] = pc["release"]
             /\ pc'["heartbeat"] = pc["heartbeat"] /\ pc'["freshness"] = pc["freshness"]
  BY <1>p, ListenerAt, Zenon
<1>f. UNCHANGED <<faults, suppress, latch, miss, phys>>
  BY EvaluateFrame, Zenon DEF faultVars
<1>d. /\ \E l \in {"idle"} \cup Deciding : Goto("listener", l)
      /\ pc["listener"] \in {"eval"} \cup Deciding
  BY EvaluateFrame, Zenon
<1>q. /\ pc'["listener"] \in {"idle"} \cup Deciding /\ pc'["periodic"] = pc["periodic"]
      /\ pc'["release"] = pc["release"]
      /\ pc'["heartbeat"] = pc["heartbeat"] /\ pc'["freshness"] = pc["freshness"]
  BY <1>p, <1>d, Zenon DEF ListenerPlaces
<1>k. (WatchDebt => WatchDebt') /\ (Reason' => Reason) /\ ~ListenDebt
  BY <1>q, <1>d, <1>f, Zenon DEF WatchDebt, ListenDebt, Reason, Deciding
<1>1. CASE EvalEnter("listener")
  <2>1. eval = Free
    BY <1>1, Zenon DEF EvalEnter
  <2>2. CASE MustHold
    BY <1>1, <2>2, HoldTold, Zenon DEF EvalEnter
  <2>3. CASE ~MustHold /\ HbSuppress
    <3>1. plc' = plc /\ view' = view /\ eval' = eval
      BY <1>1, <2>3, Zenon DEF EvalEnter, wire
    <3>2. (Exposed' => Exposed) /\ ~Reading'
      <4>1. pc'["listener"] \notin Deciding /\ pc'["periodic"] \notin Deciding
        BY <2>1, <3>1, Zenon DEF Places, Free
      <4> QED BY <3>1, <4>1, Zenon DEF Exposed, Reading, Deciding
    <3>3. Reason
      BY <2>3, SuppressReason, Zenon
    <3> QED BY <1>f, <1>k, <1>q, <3>1, <3>2, <3>3, Zenon DEF Covered, Debtor
  <2>4. CASE ~MustHold /\ ~HbSuppress
    <3>1. plc' = plc /\ view' = view /\ Goto("listener", "snapshot")
      BY <1>1, <2>4, Zenon DEF EvalEnter, wire
    <3>2. pc'["listener"] = "snapshot" /\ pc["periodic"] \notin Deciding
      BY <1>p, <2>1, <3>1, NobodyDecides, Zenon DEF ListenerPlaces, Deciding
    <3>3. (Exposed' => Exposed) /\ ~Reading' /\ Reconsiders'
      BY <1>q, <3>1, <3>2, Zenon DEF Exposed, Reading, Reconsiders, Deciding
    <3> QED BY <1>f, <1>k, <1>q, <3>1, <3>3, Zenon DEF Covered, Debtor
  <2> QED BY <2>2, <2>3, <2>4, Zenon
<1>2. CASE EvalSnapshot("listener")
  <2>1. plc' = plc /\ view' = MuteAllowed(phys) /\ Goto("listener", "recheck") /\ pc["listener"] = "snapshot"
    BY <1>2, Zenon DEF EvalSnapshot, wire
  <2>2. pc'["listener"] = "recheck" /\ pc["periodic"] \notin Deciding
    BY <1>p, <2>1, Zenon DEF ListenerPlaces, Deciding, Places
  <2>3. (Exposed' => Exposed) /\ (Reading' => MuteAllowed(phys')) /\ (MuteAllowed(phys') \/ Reconsiders')
    BY <1>f, <1>q, <2>1, <2>2, Zenon DEF Exposed, Reading, Reconsiders, Deciding
  <2> QED BY <1>f, <1>k, <1>q, <2>1, <2>3, Zenon DEF Covered, Debtor
<1>3. CASE EvalRecheck("listener")
  <2>1. pc["listener"] = "recheck" /\ pc["periodic"] \notin Deciding
    BY <1>3, Zenon DEF EvalRecheck, Places, Deciding
  <2>2. CASE MustHold
    BY <1>3, <2>2, Told DEF EvalRecheck, EvalEnd, Send
  <2>3. CASE ~MustHold /\ HbSuppress
    <3>1. plc' = plc /\ view' = FALSE
      BY <1>3, <2>3, Zenon DEF EvalRecheck, EvalEnd, wire
    <3>2. (Exposed' => Exposed) /\ ~Reading'
      BY <3>1, Zenon DEF Exposed, Reading
    <3>3. Reason
      BY <2>3, SuppressReason, Zenon
    <3> QED BY <1>f, <1>k, <1>q, <3>1, <3>2, <3>3, Zenon DEF Covered, Debtor
  <2>4. CASE ~MustHold /\ ~HbSuppress
    <3>1. plc' = plc /\ view' = view /\ Goto("listener", "emit")
      BY <1>3, <2>4, Zenon DEF EvalRecheck, wire
    <3>2. ~Reason /\ latch = {} /\ pc'["listener"] = "emit"
      BY <1>p, <2>4, <3>1, Zenon DEF MustHold, HbSuppress, Reason, ListenerPlaces, Deciding
    <3>3. (Exposed' => Exposed \/ Reading) /\ ~Reading' /\ (Reconsiders => Reconsiders')
      BY <1>q, <2>1, <3>1, <3>2, Zenon DEF Exposed, Reading, Reconsiders, Deciding
    <3> QED BY <1>f, <1>k, <1>q, <3>1, <3>2, <3>3, Zenon DEF Covered, Debtor
  <2> QED BY <2>2, <2>3, <2>4, Zenon
<1>4. CASE EvalEmit("listener")
  <2>1. pc["listener"] = "emit" /\ pc["release"] \notin {"clear", "reset"}
    BY <1>4, Zenon DEF EvalEmit, Places, Deciding
  <2>2. CASE ~view
    BY <1>4, <2>2, Told DEF EvalEmit, EvalEnd, Send
  <2>3. CASE view
    <3>1. Exposed /\ view' = FALSE /\ ~Reconsiders
      BY <1>4, <2>1, <2>3, Zenon DEF EvalEmit, EvalEnd, Exposed, Reconsiders
    <3>2. ~Reading'
      BY <3>1, Zenon DEF Reading
    <3> QED BY <1>f, <1>k, <1>q, <2>1, <3>1, <3>2, Zenon DEF Covered, Debtor
  <2> QED BY <2>2, <2>3, Zenon
<1> QED BY <1>1, <1>2, <1>3, <1>4, Zenon DEF Evaluate

LEMMA ReleaseCovered ==
    ASSUME Places, Places', Covered, txLost = 0, txLost' = 0, Release
    PROVE  Covered'
<1>p. ASSUME NEW l \in ReleasePlaces, Goto("release", l)
      PROVE  /\ pc'["release"] = l /\ pc'["listener"] = pc["listener"] /\ pc'["periodic"] = pc["periodic"]
             /\ pc'["heartbeat"] = pc["heartbeat"] /\ pc'["freshness"] = pc["freshness"]
  BY <1>p, ReleaseAt, Zenon
<1>1. CASE ReleaseRequested \/ (ReleaseCheck /\ plc' = plc /\ Goto("release", "read")) \/ ReleaseRead
  <2>1. /\ \E l \in {"check", "read", "answer"} : Goto("release", l)
        /\ plc' = plc /\ phys' = phys /\ view' = view /\ UNCHANGED <<faults, suppress, latch, miss, req, flags>>
    BY <1>1, Zenon DEF ReleaseRequested, ReleaseCheck, ReleaseRead, wire, faultVars, listenerVars
  <2>2. /\ pc'["release"] \notin {"clear", "reset"}
        /\ pc'["listener"] = pc["listener"] /\ pc'["periodic"] = pc["periodic"]
        /\ pc'["heartbeat"] = pc["heartbeat"] /\ pc'["freshness"] = pc["freshness"]
    BY <1>p, <2>1, Zenon DEF ReleasePlaces
  <2>3. (Exposed' => Exposed) /\ (Reading' => Reading) /\ (Reason' => Reason)
    BY <2>1, <2>2, Zenon DEF Exposed, Reading, Reason
  <2>4. (Debtor => Debtor') /\ (Reconsiders => Reconsiders')
    BY <2>1, <2>2, Zenon DEF Debtor, WatchDebt, ListenDebt, Reconsiders
  <2> QED BY <2>1, <2>2, <2>3, <2>4, Zenon DEF Covered
<1>2. CASE ReleaseCheck /\ SendHold
  BY <1>2, HoldTold, Zenon
<1>3. CASE ReleaseAnswer
  <2>1. plc' = "SAFE" /\ eval' = eval /\ eval = "release"
    BY <1>3 DEF ReleaseAnswer, Send, locks, Places
  <2> QED BY <2>1, Told, ZenonT(40)
<1>4. CASE ReleaseClear \/ ReleaseReset
  <2>1. plc = "SAFE" /\ eval = "release"
    BY <1>4, Zenon DEF ReleaseClear, ReleaseReset, Covered, Places
  <2>2. plc' = "SAFE" /\ eval' \in {Free, "release"}
    BY <1>4, <2>1, Zenon DEF ReleaseClear, ReleaseReset, ReleaseEnd, Send, wire, locks
  <2> QED BY <2>2, Told, Zenon
<1> QED BY <1>1, <1>2, <1>3, <1>4, Zenon DEF Release, ReleaseCheck, wire

\* A watchdog between two of its holds.
LEMMA WatchdogLooks ==
    ASSUME Places, HbWatchdog \/ FreshnessWatchdog, plc' = plc, Covered,
           Reason' => Reason, WatchDebt => WatchDebt'
    PROVE  Covered'
<1>1. /\ UNCHANGED <<phys, view, req, flags>> /\ latch \subseteq latch'
      /\ \/ \E l \in HeartbeatPlaces : Goto("heartbeat", l)
         \/ \E l \in FreshnessPlaces : Goto("freshness", l)
  BY HeartbeatFrame, FreshnessFrame, Zenon DEF listenerVars
<1>2. /\ pc'["listener"] = pc["listener"] /\ pc'["periodic"] = pc["periodic"] /\ pc'["release"] = pc["release"]
  BY <1>1, HeartbeatAt, FreshnessAt, Zenon
<1>3. (Exposed' => Exposed) /\ (Reading' => Reading) /\ (ListenDebt => ListenDebt') /\ (Reconsiders => Reconsiders')
  BY <1>1, <1>2, Zenon DEF Exposed, Reading, ListenDebt, Reconsiders
<1> QED BY <1>1, <1>2, <1>3, Kept, Zenon DEF Debtor

LEMMA WatchdogOwes ==
    ASSUME Places, HbWatchdog \/ FreshnessWatchdog, plc' = plc, Covered, WatchDebt'
    PROVE  Covered'
<1>1. \/ \E l \in HeartbeatPlaces : Goto("heartbeat", l)
      \/ \E l \in FreshnessPlaces : Goto("freshness", l)
  BY HeartbeatFrame, FreshnessFrame, Zenon
<1>2. pc'["release"] = pc["release"]
  BY <1>1, HeartbeatAt, FreshnessAt, Zenon
<1> QED BY <1>2, Indebted, Zenon DEF Debtor

LEMMA WatchdogCovered ==
    ASSUME Places, Places', Latched, Carried, Covered, txLost = 0, txLost' = 0,
           HbWatchdog \/ FreshnessWatchdog
    PROVE  Covered'
<1>h. ASSUME NEW l \in HeartbeatPlaces, Goto("heartbeat", l)
      PROVE  pc'["heartbeat"] = l /\ pc'["freshness"] = pc["freshness"]
  BY <1>h, HeartbeatAt, Zenon
<1>f. ASSUME NEW l \in FreshnessPlaces, Goto("freshness", l)
      PROVE  pc'["freshness"] = l /\ pc'["heartbeat"] = pc["heartbeat"]
  BY <1>f, FreshnessAt, Zenon
<1>1. ASSUME NEW m \in 0..MaxHbFailures, HbTick(m) PROVE Covered'
  <2>1. /\ plc' = plc /\ UNCHANGED <<faults, suppress, latch>> /\ miss' = m /\ pc["heartbeat"] = "idle"
        /\ HbWatchdog \/ FreshnessWatchdog
        /\ \E l \in HeartbeatPlaces : Goto("heartbeat", l)
    BY <1>1, Zenon DEF HbTick, wire, faultVars, HeartbeatPlaces
  <2>2. WatchDebt => WatchDebt'
    BY <1>h, <2>1, Zenon DEF WatchDebt
  <2>3. CASE Reason \/ ~(m > WarnThreshold)
    <3>1. Reason' => Reason
      BY <2>1, <2>3, Zenon DEF Reason
    <3> QED BY <2>1, <2>2, <3>1, WatchdogLooks, Zenon
  <2>4. CASE ~Reason /\ m > WarnThreshold
    <3>1. "GatewayHb" \notin faults /\ miss <= WarnThreshold
      BY <2>4, AtlAssumption DEF Reason, Latched, Carried
    <3>2. m # 0 /\ m \in Nat /\ (m >= MaxHbFailures \/ m < MaxHbFailures)
      BY <2>4, AtlAssumption
    <3>3. \E l \in {"mark", "hold"} : Goto("heartbeat", l)
      BY <1>1, <2>4, <3>1, <3>2, Zenon DEF HbTick
    <3>4. WatchDebt'
      BY <1>h, <2>1, <3>1, <3>3, Zenon DEF WatchDebt, HeartbeatPlaces
    <3> QED BY <2>1, <3>4, WatchdogOwes, Zenon
  <2> QED BY <2>3, <2>4, Zenon
<1>2. CASE HbRecovered
  <2>1. /\ plc' = plc /\ UNCHANGED <<suppress, latch, miss>> /\ pc["heartbeat"] = "recovered"
        /\ Goto("heartbeat", "idle")
    BY <1>2, Zenon DEF HbRecovered, wire
  <2>2. (WatchDebt => WatchDebt') /\ (Reason' => Reason)
    BY <1>h, <2>1, Zenon DEF WatchDebt, Reason, HeartbeatPlaces
  <2> QED BY <2>1, <2>2, WatchdogLooks, Zenon
<1>3. CASE WatchdogMark("heartbeat", "GatewayHb")
  <2>1. /\ plc' = plc /\ UNCHANGED <<suppress, miss>> /\ pc["heartbeat"] = "mark"
        /\ IF "GatewayHb" \in faults THEN latch' = latch /\ Goto("heartbeat", "idle") ELSE Goto("heartbeat", "hold")
    BY <1>3, Zenon DEF WatchdogMark, MarkFault, wire
  <2>2. CASE "GatewayHb" \in faults
    <3>1. (WatchDebt => WatchDebt') /\ (Reason' => Reason)
      BY <1>h, <2>1, <2>2, Zenon DEF WatchDebt, Reason, HeartbeatPlaces
    <3> QED BY <2>1, <3>1, WatchdogLooks, Zenon
  <2>3. CASE "GatewayHb" \notin faults
    <3>1. WatchDebt'
      BY <1>h, <2>1, <2>3, Zenon DEF WatchDebt, HeartbeatPlaces
    <3> QED BY <2>1, <3>1, WatchdogOwes, Zenon
  <2> QED BY <2>2, <2>3, Zenon
<1>4. CASE WatchdogMark("freshness", "DecisionFreshness")
  <2>1. /\ plc' = plc /\ UNCHANGED <<suppress, miss>> /\ pc["freshness"] = "mark"
        /\ faults' = faults \cup {"DecisionFreshness"}
        /\ IF "DecisionFreshness" \in faults THEN latch' = latch /\ Goto("freshness", "idle")
           ELSE Goto("freshness", "hold")
    BY <1>4, Zenon DEF WatchdogMark, MarkFault, wire
  <2>2. CASE "DecisionFreshness" \in faults
    <3>1. (WatchDebt => WatchDebt') /\ (Reason' => Reason)
      BY <1>f, <2>1, <2>2, Zenon DEF WatchDebt, Reason, FreshnessPlaces
    <3> QED BY <2>1, <3>1, WatchdogLooks, Zenon
  <2>3. CASE "DecisionFreshness" \notin faults
    <3>1. WatchDebt'
      BY <1>f, <2>1, <2>3, Zenon DEF WatchDebt, FreshnessPlaces
    <3> QED BY <2>1, <3>1, WatchdogOwes, Zenon
  <2> QED BY <2>2, <2>3, Zenon
<1>5. CASE WatchdogHold("heartbeat") \/ WatchdogHold("freshness")
  BY <1>5, HoldTold, Zenon DEF WatchdogHold
<1>6. CASE FreshnessExpired
  <2>1. plc' = plc /\ UNCHANGED <<faults, suppress, latch, miss>> /\ pc["freshness"] = "idle" /\ Goto("freshness", "mark")
    BY <1>6, Zenon DEF FreshnessExpired, wire, faultVars
  <2>2. (WatchDebt => WatchDebt') /\ (Reason' => Reason)
    BY <1>f, <2>1, Zenon DEF WatchDebt, Reason, FreshnessPlaces
  <2> QED BY <2>1, <2>2, WatchdogLooks, Zenon
<1> QED BY <1>1, <1>2, <1>3, <1>4, <1>5, <1>6, Zenon DEF HbWatchdog, FreshnessWatchdog

-----------------------------------------------------------------------------
LEMMA CarriedOn ==
    ASSUME Carried, UNCHANGED <<miss, idx, flags, req>>, MayLose,
           flags.sensorLatch => pc'["listener"] \in {"health", "swFail", "modeError", "hold"}
    PROVE  Carried'
  BY DEF Carried, MayLose

LEMMA CarriedDone ==
    ASSUME Carried, UNCHANGED miss, MayLose, Done("listener")
    PROVE  Carried'
<1>1. NoFlags \in ListenerFlags /\ ~NoFlags.sensorLatch
  BY Zenon DEF NoFlags, ListenerFlags
<1>2. idx' = 1 /\ flags' = NoFlags
  BY Zenon DEF Done
<1> HIDE DEF NoFlags
<1> QED BY <1>1, <1>2 DEF Carried, MayLose

LEMMA ListenerCarried ==
    ASSUME Places, Carried, Listener \/ ApplySourcePresence
    PROVE  Carried'
<1>m. miss' = miss /\ MayLose
  BY ListenerFrame, Zenon
<1>l. ASSUME NEW l \in ListenerPlaces, Goto("listener", l) PROVE pc'["listener"] = l
  BY <1>l, ListenerAt, Zenon
<1>s. pc["listener"] \notin {"health", "swFail", "modeError", "hold"} => ~flags.sensorLatch
  BY Zenon DEF Carried
<1>1. ASSUME NEW r, NEW gap, Receive(r, gap) PROVE Carried'
  BY <1>m, <1>s, <1>1 DEF Receive, Carried, MayLose
<1>2. ASSUME NEW at \in {"sequenceHold", "aiHold"}, NEW l, ListenerHold(at, l) PROVE Carried'
  BY <1>m, <1>s, <1>2, CarriedOn, Zenon DEF ListenerHold, listenerVars
<1>3. CASE MarkFresh \/ ApplyAiVerdicts
  BY <1>m, <1>s, <1>3, CarriedOn, Zenon DEF MarkFresh, ApplyAiVerdicts, listenerVars
<1>4. CASE ApplySourcePresence \/ ApplySourceInputState
  BY <1>m, <1>s, <1>4, CarriedOn, Zenon DEF ApplySourcePresence, ApplySourceInputState, listenerVars
<1>5. CASE UpdateSensorHealth
  <2> DEFINE ev == req.evs[idx]
  <2>1. /\ pc["listener"] = "health" /\ pc' = pc /\ req' = req /\ idx' = idx + 1 /\ idx <= Len(req.evs)
    BY <1>5, Zenon DEF UpdateSensorHealth
  <2>2. flags' \in ListenerFlags /\ (flags'.sensorLatch => flags.sensorLatch \/ ev.type # "PSS_STATUS_NOOP")
    BY <1>5, Zenon DEF UpdateSensorHealth, Carried, ListenerFlags
  <2>3. ev.type # "PSS_STATUS_NOOP" => ~IsNoopOnly(req)
    <3>1. IsNoopOnly(req) => idx = 1
      BY <2>1 DEF IsNoopOnly, Carried
    <3> QED BY <3>1, Zenon DEF IsNoopOnly
  <2> HIDE DEF ev
  <2> QED BY <1>m, <2>1, <2>2, <2>3 DEF Carried, MayLose
<1>6. CASE ApplyMode
  <2>1. Done("listener") \/ (Goto("listener", "swFail") /\ UNCHANGED listenerVars)
    BY <1>6, Zenon DEF ApplyMode
  <2>2. Goto("listener", "swFail") => pc'["listener"] = "swFail"
    BY <1>l, Zenon DEF ListenerPlaces
  <2> QED BY <1>m, <2>1, <2>2, CarriedDone, CarriedOn, Zenon DEF listenerVars
<1>7. CASE ApplySwFailEvents
  <2>1. \/ Done("listener") \/ (Goto("listener", "modeError") /\ UNCHANGED listenerVars)
        \/ /\ Goto("listener", IF flags.sensorLatch THEN "hold" ELSE "event")
           /\ idx' = 1 /\ UNCHANGED <<req, flags>>
    BY <1>7, Zenon DEF ApplySwFailEvents
  <2>2. CASE Done("listener")
    BY <1>m, <2>2, CarriedDone, Zenon
  <2>3. CASE Goto("listener", "modeError") /\ UNCHANGED listenerVars
    BY <1>m, <1>l, <2>3, CarriedOn, Zenon DEF listenerVars, ListenerPlaces
  <2>4. CASE Goto("listener", IF flags.sensorLatch THEN "hold" ELSE "event") /\ idx' = 1 /\ UNCHANGED <<req, flags>>
    <3>1. flags.sensorLatch => pc'["listener"] = "hold"
      BY <1>l, <2>4, Zenon DEF ListenerPlaces
    <3> QED BY <1>m, <2>4, <3>1 DEF Carried, MayLose
  <2> QED BY <2>1, <2>2, <2>3, <2>4, Zenon
<1>8. CASE ApplyModeError \/ FinalHold
  BY <1>m, <1>8, CarriedDone, Zenon DEF ApplyModeError, FinalHold
<1>9. CASE ApplyEvent
  <2>1. /\ pc["listener"] = "event" /\ pc' = pc /\ req' = req /\ idx' = idx + 1
        /\ flags' \in ListenerFlags /\ flags'.sensorLatch = flags.sensorLatch
    BY <1>9, Zenon DEF ApplyEvent, Carried, ListenerFlags
  <2> QED BY <1>m, <1>s, <2>1 DEF Carried, MayLose
<1>10. CASE ApplyDone
  <2>1. pc["listener"] = "event" /\ (Done("listener") \/ UNCHANGED listenerVars)
    BY <1>10, Zenon DEF ApplyDone
  <2> QED BY <1>m, <1>s, <2>1, CarriedDone, CarriedOn, Zenon DEF listenerVars
<1> QED
  BY <1>1, <1>2, <1>3, <1>4, <1>5, <1>6, <1>7, <1>8, <1>9, <1>10, Zenon DEF Listener

LEMMA CarriedNext == Places /\ Carried /\ [Next]_vars => Carried'
<1> SUFFICES ASSUME Places, Carried, [Next]_vars PROVE Carried'
  BY Zenon
<1>1. CASE Evaluate("listener")
  <2>1. miss' = miss /\ MayLose /\ pc["listener"] \in {"eval"} \cup Deciding
    BY <1>1, EvaluateFrame, Zenon
  <2>2. ~flags.sensorLatch
    BY <2>1, Zenon DEF Carried, Deciding
  <2>3. Done("listener") \/ UNCHANGED listenerVars
    BY <1>1, Zenon DEF Evaluate, EvalEnter, EvalSnapshot, EvalRecheck, EvalEmit, EvalEnd
  <2> QED BY <2>1, <2>2, <2>3, CarriedOn, CarriedDone, Zenon DEF listenerVars
<1>2. CASE Evaluate("periodic") \/ PeriodicWake
  <2>1. miss' = miss /\ MayLose /\ UNCHANGED listenerVars /\ \E l \in PeriodicPlaces : Goto("periodic", l)
    BY <1>2, EvaluateFrame, SendLoses DEF PeriodicWake, PeriodicPlaces
  <2>2. pc'["listener"] = pc["listener"]
    BY <2>1, PeriodicAt, Zenon
  <2> QED BY <2>1, <2>2, CarriedOn, Zenon DEF listenerVars, Carried
<1>3. CASE Release
  <2>1. miss' = miss /\ MayLose /\ UNCHANGED listenerVars /\ pc'["listener"] = pc["listener"]
    BY <1>3, ReleaseFrame, ReleaseAt, Zenon
  <2> QED BY <2>1, CarriedOn, Zenon DEF listenerVars, Carried
<1>4. CASE HbWatchdog
  <2>1. miss' \in 0..MaxHbFailures
    BY <1>4, Zenon DEF HbWatchdog, HbTick, HbRecovered, WatchdogMark, WatchdogHold, Carried
  <2>2. MayLose /\ UNCHANGED listenerVars /\ pc'["listener"] = pc["listener"]
    BY <1>4, HeartbeatFrame, HeartbeatAt, Zenon
  <2> QED BY <2>1, <2>2 DEF Carried, MayLose, listenerVars
<1>5. CASE FreshnessWatchdog
  <2>1. miss' = miss /\ MayLose /\ UNCHANGED listenerVars /\ pc'["listener"] = pc["listener"]
    BY <1>5, FreshnessFrame, FreshnessAt, Zenon
  <2> QED BY <2>1, CarriedOn, Zenon DEF listenerVars, Carried
<1>6. CASE Timeout \/ UNCHANGED vars
  <2>1. miss' = miss /\ MayLose /\ UNCHANGED listenerVars /\ pc' = pc
    BY <1>6, SendLoses, Zenon DEF Timeout, vars
  <2> QED BY <2>1, CarriedOn, Zenon DEF listenerVars, Carried
<1> QED BY <1>1, <1>2, <1>3, <1>4, <1>5, <1>6, ListenerCarried, Zenon DEF Next

LEMMA MuteNext == Places /\ Latched /\ MuteInv /\ [Next]_vars => MuteInv'
<1> SUFFICES ASSUME Places, Latched, MuteInv, [Next]_vars PROVE MuteInv'
  BY Zenon
<1>1. Carried'
  BY CarriedNext, Zenon DEF MuteInv
<1>2. Places'
  BY PlacesNext, Zenon
<1>3. MayLose
  BY ListenerFrame, EvaluateFrame, ReleaseFrame, HeartbeatFrame, FreshnessFrame, SendLoses
, Zenon DEF Next, PeriodicWake, Timeout, vars
<1>4. ASSUME txLost' = 0 PROVE Covered'
  <2>1. txLost = 0 /\ Covered /\ Carried
    BY <1>3, <1>4 DEF MayLose, MuteInv, Carried
  <2>2. CASE Timeout \/ UNCHANGED vars
    <3>1. UNCHANGED <<plc, phys, view, faults, suppress, latch, miss, req, flags, pc>>
      BY <2>2, Zenon DEF Timeout, vars, faultVars, wire, listenerVars
    <3>2. (Exposed' => Exposed) /\ (Reading' => Reading) /\ (Reason' => Reason) /\ (Reconsiders => Reconsiders')
      BY <3>1, Zenon DEF Exposed, Reading, Reason, Reconsiders
    <3>3. Debtor => Debtor'
      BY <3>1, Zenon DEF Debtor, WatchDebt, ListenDebt
    <3> QED BY <2>1, <3>1, <3>2, <3>3, Kept, Zenon
  <2> QED BY <1>2, <1>4, <2>1, <2>2, ListenerCovered, DecisionCovered, PeriodicCovered, ReleaseCovered,
             WatchdogCovered, Zenon DEF Next
<1> QED BY <1>1, <1>4, Zenon DEF MuteInv

(* With no thread half way and no command lost, a MUTE on the PLC is one    *)
(* the state allows: forklift in, nobody in, nothing latched, suppressed or *)
(* missed, for every set of requests and thresholds.  A decision taken from *)
(* a snapshot that a fault or an event outran is corrected by the thread    *)
(* that outran it (evaluateATLDecision, sendLatchedSafeHold).               *)
THEOREM MuteIsJustified == Spec => []MuteJustified
<1>1. Init => MuteInv
  <2> SUFFICES ASSUME Init PROVE MuteInv
    BY Zenon
  <2>1. Carried
    BY AtlAssumption DEF Init, Carried, NoFlags, ListenerFlags
  <2>2. ~Exposed /\ ~Reading /\ pc["release"] = "idle"
    BY Zenon DEF Init, Exposed, Reading, Threads
  <2> QED BY <2>1, <2>2, Zenon DEF MuteInv, Covered
<1>2. Places /\ Latched /\ MuteInv => MuteJustified
  <2> SUFFICES ASSUME Places, Latched, MuteInv, Settled, plc = "MUTE", txLost = 0
               PROVE  MuteAllowed(phys) /\ ~MustHold /\ ~HbSuppress
    BY Zenon DEF MuteJustified
  <2>1. Exposed /\ Covered
    BY Zenon DEF Exposed, MuteInv
  <2>2. ~Debtor /\ ~Reconsiders
    BY Zenon DEF Settled, Debtor, WatchDebt, ListenDebt, Reconsiders
  <2>3. MuteAllowed(phys) /\ ~Reason
    BY <2>1, <2>2, Zenon DEF Covered
  <2>4. ~MustHold /\ ~HbSuppress
    BY <2>3, SuppressReason, Zenon DEF Reason, MustHold, Tier2
  <2> QED BY <2>3, <2>4, Zenon
<1>3. Latched /\ [Next]_vars => Latched'
  BY NextStep, Zenon DEF Step
<1> QED BY <1>1, <1>2, <1>3, LatchedInit, PlacesInit, PlacesNext, MuteNext, PTL DEF Spec
=============================================================================
