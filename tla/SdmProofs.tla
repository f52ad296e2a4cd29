------------------------------- MODULE SdmProofs -------------------------------
(***************************************************************************)
(* The control of the command-sending decision modules.                    *)
(***************************************************************************)
EXTENDS SdmControl, RequestProofs

\* updateSensorHealthFromDecisionRequest takes the events one after the other.
LEMMA HealthsUnfold ==
    ASSUME NEW start, NEW evs, Len(evs) \in Nat
    PROVE  /\ SensorHealths(start, evs)[0] = start
           /\ \A i \in 1..Len(evs) :
                SensorHealths(start, evs)[i] = SensorHealth(SensorHealths(start, evs)[i - 1], evs[i])
<1> DEFINE n == Len(evs)
           Run(f, m) == f = [i \in 0..m |-> IF i = 0 THEN start ELSE SensorHealth(f[i - 1], evs[i])]
           T == {m \in 0..n : ~ \E f : Run(f, m)}
<1>1. T = {}
  <2> SUFFICES ASSUME T # {} PROVE FALSE
    BY Zenon
  <2>1. PICK x \in T : \A y \in T : x <= y
    <3>1. T \subseteq Nat
      OBVIOUS
    <3> HIDE DEF T
    <3> QED BY <3>1, LeastNat, Zenon
  <2>2. x # 0
    <3> DEFINE f == [i \in 0..0 |-> start]
    <3>1. Run(f, 0)
      OBVIOUS
    <3> QED BY <3>1, Zenon
  <2>3. x \in Nat /\ x - 1 \in 0..n /\ x - 1 \notin T
    <3>1. T \subseteq 0..n
      BY Zenon
    <3> HIDE DEF T
    <3> QED BY <2>1, <2>2, <3>1
  <2>4. PICK f : Run(f, x - 1)
    BY <2>3, Zenon
  <2> DEFINE g == [i \in 0..x |-> IF i < x THEN f[i] ELSE SensorHealth(f[x - 1], evs[x])]
  <2>5. \A i \in 0..x : g[i] = IF i = 0 THEN start ELSE SensorHealth(g[i - 1], evs[i])
    BY <2>2, <2>3, <2>4
  <2>6. Run(g, x)
    BY <2>5, Zenon
  <2> QED BY <2>6, Zenon
<1>2. \E f : Run(f, n)
  BY <1>1
<1>3. Run(SensorHealths(start, evs), n)
  BY <1>2, Zenon DEF SensorHealths
<1> QED BY <1>3

-----------------------------------------------------------------------------
(* What the shared functions on a request return. *)

Healths == [failed : SUBSET Reviewed, pending : SUBSET Reviewed, active : BOOLEAN, latched : BOOLEAN]

\* One event: masks of reviewed sensors stay such masks, and the all-failed flag goes up
\* only together with the latch bit.
LEMMA HealthStep ==
    ASSUME NEW h \in Healths, NEW ev, NEW before \in BOOLEAN, h.active => before \/ h.latched
    PROVE  /\ SensorHealth(h, ev) \in Healths
           /\ SensorHealth(h, ev).active => before \/ SensorHealth(h, ev).latched
           /\ ev.type = "PSS_STATUS_NOOP" => SensorHealth(h, ev).latched = h.latched
<1> DEFINE relevant == ~ev.stale /\ ev.type # "PSS_STATUS_NOOP" /\ ev.sensor \in Reviewed
           bad == relevant /\ (ev.type = "SENSOR_INVALID" \/ ~ev.healthy)
           seed == bad /\ ev.cause = "SAIM_INIT"
           fails == bad /\ ~seed /\ (ev.type = "SENSOR_INVALID" \/ ev.sensor \notin h.pending)
           recovers == relevant /\ ~bad /\ (ev.type = "SENSOR_VALID" \/ (ev.healthy /\ ev.trusted))
           mask == IF fails THEN h.failed \cup {ev.sensor}
                   ELSE IF recovers THEN h.failed \ {ev.sensor} ELSE h.failed
           all == Reviewed \subseteq mask
           pending == IF seed /\ ev.type = "SENSOR_INVALID" THEN h.pending \cup {ev.sensor}
                      ELSE IF recovers THEN h.pending \ {ev.sensor} ELSE h.pending
           active1 == IF fails \/ recovers THEN all ELSE h.active
           latched1 == h.latched \/ ((fails \/ recovers) /\ all /\ ~h.active)
<1>1. SensorHealth(h, ev) = [failed |-> mask, pending |-> pending, active |-> active1, latched |-> latched1]
  BY Zenon DEF SensorHealth
<1>2. (fails => ev.sensor \in Reviewed) /\ (seed => ev.sensor \in Reviewed)
  BY Zenon
<1>3. ev.type = "PSS_STATUS_NOOP" => ~fails /\ ~recovers
  BY Zenon
<1>4. fails \in BOOLEAN /\ recovers \in BOOLEAN
  BY Zenon
<1> HIDE DEF fails, recovers, seed
<1>5. mask \subseteq Reviewed /\ pending \subseteq Reviewed
  BY <1>2, Zenon DEF Healths
<1>6. all \in BOOLEAN
  BY Zenon
<1> HIDE DEF mask, pending, all
<1>7. active1 \in BOOLEAN /\ latched1 \in BOOLEAN /\ (active1 => before \/ latched1)
  BY <1>4, <1>6, Zenon DEF Healths
<1>8. ev.type = "PSS_STATUS_NOOP" => latched1 = h.latched
  BY <1>3, Zenon DEF Healths
<1> HIDE DEF active1, latched1
<1> QED BY <1>1, <1>5, <1>7, <1>8 DEF Healths

\* All events of a request.
LEMMA HealthsEnd ==
    ASSUME NEW start \in Healths, NEW evs, Len(evs) \in Nat
    PROVE  LET end == SensorHealths(start, evs)[Len(evs)]
           IN  /\ end \in Healths
               /\ end.active => start.active \/ start.latched \/ end.latched
               /\ Len(evs) = 1 /\ evs[1].type = "PSS_STATUS_NOOP" => end.latched = start.latched
<1> DEFINE h == SensorHealths(start, evs)
           before == start.active \/ start.latched
           Good(i) == h[i] \in Healths /\ (h[i].active => before \/ h[i].latched)
           T == {i \in 0..Len(evs) : ~Good(i)}
<1>1. h[0] = start /\ \A i \in 1..Len(evs) : h[i] = SensorHealth(h[i - 1], evs[i])
  BY HealthsUnfold
<1> HIDE DEF h
<1>2. before \in BOOLEAN
  BY Zenon DEF Healths
<1>3. T = {}
  <2> SUFFICES ASSUME T # {} PROVE FALSE
    BY Zenon
  <2>1. PICK x \in T : \A y \in T : x <= y
    <3>1. T \subseteq Nat
      OBVIOUS
    <3> HIDE DEF T
    <3> QED BY <3>1, LeastNat, Zenon
  <2>2. x # 0
    BY <1>1, Zenon DEF Healths
  <2>3. x \in 1..Len(evs) /\ x - 1 \in 0..Len(evs) /\ x - 1 \notin T
    BY <2>1, <2>2
  <2>4. Good(x - 1)
    BY <2>3, Zenon
  <2>5. h[x] = SensorHealth(h[x - 1], evs[x])
    BY <1>1, <2>3, Zenon
  <2>6. Good(x)
    BY <1>2, <2>4, <2>5, HealthStep, ZenonT(40)
  <2> QED BY <2>1, <2>6, Zenon
<1>4. Good(Len(evs))
  BY <1>3
<1>5. ASSUME Len(evs) = 1, evs[1].type = "PSS_STATUS_NOOP" PROVE h[1].latched = start.latched
  <2>1. h[1] = SensorHealth(start, evs[1])
    BY <1>1, <1>5
  <2>2. start.active => before \/ start.latched
    BY Zenon
  <2> QED BY <1>2, <1>5, <2>1, <2>2, HealthStep, Zenon
<1> QED BY <1>4, <1>5, Zenon DEF h

-----------------------------------------------------------------------------
(* The state the threads share is well typed, and each lock has the owner   *)
(* the threads' places say.                                                 *)

ListenerPlaces == {"idle", "ai", "presence", "input", "health", "mode", "swFail", "modeError", "decide"}

Labels == ListenerPlaces \cup {"check", "answer", "clear", "tier2", "mark", "hold"}

Places ==
    /\ pc \in [Threads -> Labels]
    /\ pc["listener"] \in ListenerPlaces
    /\ pc["release"] \in {"idle", "check", "answer", "clear"}
    /\ pc["listener"] # "idle" <=> transition = "listener"
    /\ pc["release"] # "idle" <=> transition = "release"
    /\ pc["release"] \in {"answer", "clear"} <=> send = "release"
    /\ pc["listener"] # "idle" => req \in Requests

TypeInv == ControlTypeOK /\ Places /\ gone \subseteq seen

LEMMA SendType ==
    ASSUME NEW c \in Commands, plc \in Commands, txLost \in 0..MaxTxLost, Send(c)
    PROVE  plc' \in Commands /\ txLost' \in 0..MaxTxLost
  BY ControlAssumption DEF Send

LEMMA HoldType ==
    ASSUME ControlTypeOK, Hold
    PROVE  active' \in Commands /\ plc' \in Commands /\ txLost' \in 0..MaxTxLost
  BY SendType, ControlAssumption, Zenon DEF Hold, ControlTypeOK

LEMMA LatchedHoldType ==
    ASSUME ControlTypeOK, LatchedHold
    PROVE  active' \in Commands /\ plc' \in Commands /\ txLost' \in 0..MaxTxLost
  BY SendType, ControlAssumption, Zenon DEF LatchedHold, ControlTypeOK

LEMMA ClearPssType ==
    ASSUME ControlTypeOK, NEW S, ClearPss(S)
    PROVE  sub' \subseteq SubCauses /\ suppress' \in BOOLEAN
  BY Zenon DEF ControlTypeOK, ClearPss

LEMMA MarkPssType ==
    ASSUME ControlTypeOK, NEW S, S \subseteq SubCauses, MarkPss(S)
    PROVE  sub' \subseteq SubCauses /\ suppress' \in BOOLEAN /\ latch' \subseteq LatchCauses
  BY Zenon DEF ControlTypeOK, MarkPss, LatchCauses

LEMMA MarkFaultType ==
    ASSUME ControlTypeOK, NEW c \in FlagCauses, MarkFault(c)
    PROVE  faults' \subseteq FlagCauses /\ latch' \subseteq LatchCauses
  BY Zenon DEF ControlTypeOK, MarkFault, LatchCauses

LEMMA TypeInit == ControlInit => TypeInv
<1> SUFFICES ASSUME ControlInit PROVE TypeInv
  BY Zenon
<1>1. ControlTypeOK
  <2>1. miss \in 0..MaxHbFailures /\ txLost \in 0..MaxTxLost
    BY ControlAssumption DEF ControlInit
  <2>2. active \in Commands /\ plc \in Commands
    BY ControlAssumption, Zenon DEF ControlInit
  <2> QED BY <2>1, <2>2, Zenon DEF ControlInit, ControlTypeOK
<1>2. Places
  BY Zenon DEF ControlInit, Places, Threads, Free, Labels, ListenerPlaces
<1> QED BY <1>1, <1>2, Zenon DEF TypeInv, ControlInit

LEMMA ReceiveType ==
    ASSUME TypeInv, NEW r \in Requests, NEW gap \in BOOLEAN, Receive(r, gap)
    PROVE  TypeInv'
<1>1. faults' \subseteq FlagCauses /\ latch' \subseteq LatchCauses
  BY Zenon DEF Receive, TypeInv, ControlTypeOK, FlagCauses, LatchCauses
<1>2. plc' \in Commands /\ txLost' \in 0..MaxTxLost
  BY SendType, ControlAssumption, Zenon DEF Receive, TypeInv, ControlTypeOK
<1>3. ControlTypeOK'
  BY <1>1, <1>2, Zenon DEF Receive, TypeInv, ControlTypeOK, sourceVars
<1>4. Places'
  <2>1. /\ pc \in [Threads -> Labels] /\ pc' = [pc EXCEPT !["listener"] = "ai"]
        /\ transition = Free /\ transition' = "listener" /\ send' = send /\ req' \in Requests
    BY Zenon DEF Receive, Goto, TypeInv, Places
  <2>2. /\ pc' \in [Threads -> Labels] /\ pc'["listener"] = "ai" /\ pc'["release"] = pc["release"]
    BY <2>1, Zenon DEF Threads, Labels, ListenerPlaces
  <2>3. pc'["release"] = "idle"
    BY <2>1, <2>2, Zenon DEF TypeInv, Places, Free
  <2> QED BY <2>1, <2>2, <2>3, Zenon DEF TypeInv, Places, ListenerPlaces
<1> QED BY <1>3, <1>4, Zenon DEF TypeInv, Receive, sourceVars

LEMMA GotoPlace ==
    ASSUME pc \in [Threads -> Labels], NEW t \in Threads, NEW l \in Labels, Goto(t, l)
    PROVE  pc' \in [Threads -> Labels] /\ pc'[t] = l /\ \A u \in Threads \ {t} : pc'[u] = pc[u]
  BY Zenon DEF Goto

LEMMA StepPlaces ==
    ASSUME Places, NEW at, NEW next \in ListenerPlaces \ {"idle"}, at # "idle",
           Step(at, next), send' = send, req' = req
    PROVE  Places'
<1>1. pc' \in [Threads -> Labels] /\ pc'["listener"] = next /\ pc'["release"] = pc["release"]
  BY GotoPlace, Zenon DEF Places, Step, Threads, Labels
<1> QED BY <1>1, Zenon DEF Places, Step

LEMMA DonePlaces ==
    ASSUME Places, NEW at, at # "idle", Done(at), send' = send
    PROVE  Places'
<1>1. pc' \in [Threads -> Labels] /\ pc'["listener"] = "idle" /\ pc'["release"] = pc["release"]
  BY GotoPlace, Zenon DEF Places, Done, Threads, Labels, ListenerPlaces
<1>2. pc["release"] = "idle"
  BY Zenon DEF Places, Done
<1> QED BY <1>1, <1>2, Zenon DEF Places, Done, Free, ListenerPlaces

LEMMA WatchdogPlaces ==
    ASSUME Places, NEW t \in {"heartbeat", "freshness"}, NEW l \in Labels, Goto(t, l),
           transition' = transition, send' = send, req' = req
    PROVE  Places'
<1>1. /\ pc' \in [Threads -> Labels]
      /\ pc'["listener"] = pc["listener"] /\ pc'["release"] = pc["release"]
  BY GotoPlace, Zenon DEF Places, Threads
<1> QED BY <1>1, Zenon DEF Places

LEMMA StepType ==
    ASSUME TypeInv, ApplyAiVerdicts \/ ApplySourcePresence \/ ApplySourceInputState \/ UpdateSensorHealth
    PROVE  TypeInv'
<1> USE DEF TypeInv
<1>r. req \in Requests
  BY Zenon DEF ApplyAiVerdicts, ApplySourcePresence, ApplySourceInputState, UpdateSensorHealth, Step, Places
<1>1. CASE ApplyAiVerdicts
  <2>1. Places'
    BY <1>1, StepPlaces, Zenon DEF ApplyAiVerdicts, local, ListenerPlaces
  <2>2. faults' \subseteq FlagCauses /\ latch' \subseteq LatchCauses
    BY <1>1, Zenon DEF ApplyAiVerdicts, ControlTypeOK, FlagCauses, LatchCauses
  <2>3. active' \in Commands /\ plc' \in Commands /\ txLost' \in 0..MaxTxLost
    BY <1>1, HoldType, Zenon DEF ApplyAiVerdicts, ControlTypeOK, output
  <2>4. UNCHANGED <<sub, suppress, tier2, miss, overdue, failed, initPending, seen, held, gone, send,
                    transition, req, sensorLatch, snap, raised>>
    BY <1>1, Zenon DEF ApplyAiVerdicts, sourceVars, local, Step
  <2> QED BY <2>1, <2>2, <2>3, <2>4 DEF ControlTypeOK
<1>2. CASE ApplySourcePresence
  <2>1. Places'
    BY <1>2, StepPlaces, Zenon DEF ApplySourcePresence, local, ListenerPlaces
  <2> DEFINE d == SourcePresenceEvaluate(seen, req)
             entered == d.raised \ sub
  <2>2. d.seen \subseteq Sources /\ d.raised \subseteq LostCauses /\ GoneAfter(gone, req) \subseteq d.seen
    BY <1>r, PresenceFacts, Zenon DEF ControlTypeOK
  <2>3. /\ seen' = d.seen /\ gone' = GoneAfter(gone, req)
        /\ IF entered = {} THEN ClearPss(d.cleared) /\ UNCHANGED <<latch, output>>
           ELSE /\ Hold /\ sub' = (sub \ d.cleared) \cup entered
                /\ suppress' = TRUE /\ latch' = latch \cup {"Pss"}
        /\ UNCHANGED <<faults, tier2, miss, overdue, failed, initPending, held, send,
                       transition, req, sensorLatch, snap, raised>>
    BY <1>2, Zenon DEF ApplySourcePresence, local, Step
  <2> HIDE DEF d
  <2>4. sub' \subseteq SubCauses /\ suppress' \in BOOLEAN /\ latch' \subseteq LatchCauses
    BY <2>2, <2>3, ClearPssType, Zenon DEF ControlTypeOK, LatchCauses, SubCauses
  <2>5. active' \in Commands /\ plc' \in Commands /\ txLost' \in 0..MaxTxLost
    BY <2>3, HoldType, Zenon DEF ControlTypeOK, output
  <2> QED BY <2>1, <2>2, <2>3, <2>4, <2>5, Zenon DEF ControlTypeOK
<1>3. CASE ApplySourceInputState
  <2>1. Places'
    BY <1>3, StepPlaces, Zenon DEF ApplySourceInputState, local, ListenerPlaces
  <2> DEFINE d == SourceInputStateEvaluate(held, req)
  <2>2. d.held \subseteq Sources /\ d.raised \subseteq SubCauses
    BY <1>r, InputFacts, Zenon DEF ControlTypeOK, SubCauses
  <2>3. /\ held' = d.held
        /\ IF d.raised \subseteq sub THEN ClearPss(d.cleared) /\ UNCHANGED <<latch, output>>
           ELSE Hold /\ MarkPss(d.raised)
        /\ UNCHANGED <<faults, tier2, miss, overdue, failed, initPending, seen, gone, send,
                       transition, req, sensorLatch, snap, raised>>
    BY <1>3, Zenon DEF ApplySourceInputState, local, Step
  <2> HIDE DEF d
  <2>4. sub' \subseteq SubCauses /\ suppress' \in BOOLEAN /\ latch' \subseteq LatchCauses
    BY <2>2, <2>3, ClearPssType, MarkPssType, Zenon DEF ControlTypeOK
  <2>5. active' \in Commands /\ plc' \in Commands /\ txLost' \in 0..MaxTxLost
    BY <2>3, HoldType, Zenon DEF ControlTypeOK, output
  <2> QED BY <2>1, <2>2, <2>3, <2>4, <2>5, Zenon DEF ControlTypeOK
<1>4. CASE UpdateSensorHealth
  <2>1. Places'
    BY <1>4, StepPlaces, Zenon DEF UpdateSensorHealth, ListenerPlaces
  <2> DEFINE start == [failed |-> failed, pending |-> initPending,
                       active |-> "AllSensorsFailed" \in faults, latched |-> FALSE]
             end == SensorHealths(start, req.evs)[Len(req.evs)]
  <2>2. start \in Healths
    BY DEF ControlTypeOK, Healths
  <2>3. end \in Healths
    <3>1. Len(req.evs) \in Nat
      BY <1>r, RequestAssumption, Zenon
    <3> HIDE DEF start
    <3> QED BY <2>2, <3>1, HealthsEnd, Zenon
  <2>4. /\ failed' = end.failed /\ initPending' = end.pending
        /\ faults' = IF end.active THEN faults \cup {"AllSensorsFailed"}
                                   ELSE faults \ {"AllSensorsFailed"}
        /\ latch' = IF end.latched THEN latch \cup {"AllSensorsFailed"} ELSE latch
        /\ sensorLatch' = end.latched
        /\ UNCHANGED <<sub, suppress, tier2, miss, overdue, seen, held, gone, active, plc, txLost,
                       transition, send, req, snap, raised>>
    BY <1>4, Zenon DEF UpdateSensorHealth, output, Step
  <2> HIDE DEF end
  <2>5. faults' \subseteq FlagCauses /\ latch' \subseteq LatchCauses
    BY <2>4, Zenon DEF ControlTypeOK, FlagCauses, LatchCauses
  <2> QED BY <2>1, <2>3, <2>4, <2>5 DEF ControlTypeOK, Healths
<1> QED BY <1>1, <1>2, <1>3, <1>4, Zenon

LEMMA ModeType ==
    ASSUME TypeInv, ApplyMode \/ ApplySwFailEvents \/ ApplyModeError
    PROVE  TypeInv'
<1> USE DEF TypeInv
<1>r. req \in Requests
  BY Zenon DEF ApplyMode, ApplySwFailEvents, ApplyModeError, Done, Places
<1>1. CASE ApplyMode
  <2>1. Places'
    BY <1>1, StepPlaces, DonePlaces, Zenon DEF ApplyMode, ListenerPlaces
  <2>2. sub' \subseteq SubCauses /\ suppress' \in BOOLEAN
    BY <1>1, ClearPssType, Zenon DEF ApplyMode, ControlTypeOK
  <2>3. /\ transition' \in {Free, "listener", "release"} /\ req' \in Requests \cup {NoRequest}
        /\ sensorLatch' \in BOOLEAN
    BY <1>1, Zenon DEF ApplyMode, ControlTypeOK, Step, Done
  <2>4. UNCHANGED <<faults, latch, tier2, miss, overdue, failed, initPending, seen, held, gone,
                    active, plc, txLost, send, snap, raised>>
    BY <1>1, Zenon DEF ApplyMode, sourceVars, output
  <2> QED BY <2>1, <2>2, <2>3, <2>4, Zenon DEF ControlTypeOK
<1>2. CASE ApplySwFailEvents
  <2>1. Places'
    BY <1>2, StepPlaces, DonePlaces, Zenon DEF ApplySwFailEvents, ListenerPlaces
  <2>2. sub' \subseteq SubCauses /\ suppress' \in BOOLEAN /\ latch' \subseteq LatchCauses
    BY <1>2, MarkPssType, SwFailFacts, Zenon DEF ApplySwFailEvents, ControlTypeOK
  <2>3. /\ transition' \in {Free, "listener", "release"} /\ req' \in Requests \cup {NoRequest}
        /\ sensorLatch' \in BOOLEAN
    BY <1>2, Zenon DEF ApplySwFailEvents, ControlTypeOK, Step, Done
  <2>4. active' \in Commands /\ plc' \in Commands /\ txLost' \in 0..MaxTxLost
    BY <1>2, HoldType, Zenon DEF ApplySwFailEvents, ControlTypeOK, output
  <2>5. UNCHANGED <<faults, tier2, miss, overdue, failed, initPending, seen, held, gone,
                    send, snap, raised>>
    BY <1>2, Zenon DEF ApplySwFailEvents, sourceVars
  <2> QED BY <2>1, <2>2, <2>3, <2>4, <2>5, Zenon DEF ControlTypeOK
<1>3. CASE ApplyModeError
  <2>1. Places'
    BY <1>3, DonePlaces, Zenon DEF ApplyModeError
  <2>2. sub' \subseteq SubCauses /\ suppress' \in BOOLEAN /\ latch' \subseteq LatchCauses
    BY <1>3, MarkPssType, Zenon DEF ApplyModeError, SubCauses
  <2>3. active' \in Commands /\ plc' \in Commands /\ txLost' \in 0..MaxTxLost
    BY <1>3, HoldType, Zenon DEF ApplyModeError
  <2> QED BY <1>3, <2>1, <2>2, <2>3, Zenon DEF ApplyModeError, Done, ControlTypeOK, sourceVars
<1> QED BY <1>1, <1>2, <1>3, Zenon

LEMMA DecideType ==
    ASSUME TypeInv, NoDecision \/ \E c \in Commands : Decide(c) \/ Reassert(c) \/ Revise(c)
    PROVE  TypeInv'
<1> USE DEF TypeInv
<1>1. CASE NoDecision
  <2>1. Places'
    BY <1>1, DonePlaces, Zenon DEF NoDecision
  <2> QED BY <1>1, <2>1, Zenon DEF NoDecision, Done, ControlTypeOK, faultVars, sourceVars, output
<1>2. ASSUME NEW c \in Commands, Decide(c) PROVE TypeInv'
  <2>1. Places'
    BY <1>2, DonePlaces, Zenon DEF Decide
  <2>2. plc' \in Commands /\ txLost' \in 0..MaxTxLost /\ active' \in Commands
    BY <1>2, SendType, ControlAssumption, Zenon DEF Decide, ControlTypeOK
  <2> QED BY <1>2, <2>1, <2>2, Zenon DEF Decide, Done, ControlTypeOK, faultVars, sourceVars
<1>3. ASSUME NEW c \in Commands, Reassert(c) \/ Revise(c) PROVE TypeInv'
  <2>1. UNCHANGED <<faults, sub, suppress, latch, tier2, miss, overdue, failed, initPending, seen,
                    held, gone, transition, send, pc, req, sensorLatch, snap, raised>>
    BY <1>3, Zenon DEF Reassert, Revise, faultVars, sourceVars, locks, local
  <2>2. plc' \in Commands /\ txLost' \in 0..MaxTxLost /\ active' \in Commands
    BY <1>3, SendType, ControlAssumption, Zenon DEF Reassert, Revise, ControlTypeOK
  <2> QED BY <2>1, <2>2 DEF ControlTypeOK, Places
<1> QED BY <1>1, <1>2, <1>3, Zenon

LEMMA ReleaseEndPlaces ==
    ASSUME Places, pc["release"] # "idle", ReleaseEnd, req' = req
    PROVE  Places'
<1>1. pc' \in [Threads -> Labels] /\ pc'["release"] = "idle" /\ pc'["listener"] = pc["listener"]
  BY GotoPlace, Zenon DEF Places, ReleaseEnd, Threads, Labels, ListenerPlaces
<1> QED BY <1>1, Zenon DEF Places, ReleaseEnd, Free, ListenerPlaces

LEMMA ReleaseType ==
    ASSUME TypeInv, Release
    PROVE  TypeInv'
<1> USE DEF TypeInv
<1>1. CASE ReleaseRequested
  <2>1. pc' \in [Threads -> Labels] /\ pc'["release"] = "check" /\ pc'["listener"] = pc["listener"]
    BY <1>1, GotoPlace, Zenon DEF ReleaseRequested, Places, Threads, Labels
  <2>2. Places'
    BY <1>1, <2>1, Zenon DEF ReleaseRequested, Places, Free, local
  <2> QED BY <1>1, <2>2, Zenon DEF ReleaseRequested, ControlTypeOK, faultVars, sourceVars, output, local
<1>2. CASE ReleaseCheck
  <2>1. CASE ActiveCauses # {}
    <3>1. Goto("release", "idle") /\ transition' = Free /\ send' = send /\ req' = req /\ pc["release"] = "check"
          /\ snap' = snap /\ raised' = raised /\ LatchedHold
      BY <1>2, <2>1, Zenon DEF ReleaseCheck
    <3>2. pc' \in [Threads -> Labels] /\ pc'["release"] = "idle" /\ pc'["listener"] = pc["listener"]
      BY <3>1, GotoPlace, Zenon DEF Places, Threads, Labels, ListenerPlaces
    <3>3. Places'
      BY <3>1, <3>2, Zenon DEF Places, Free, ListenerPlaces
    <3>4. active' \in Commands /\ plc' \in Commands /\ txLost' \in 0..MaxTxLost
      BY <3>1, LatchedHoldType, Zenon
    <3> QED BY <1>2, <3>1, <3>3, <3>4, Zenon DEF ReleaseCheck, ControlTypeOK, faultVars, sourceVars
  <2>2. CASE ActiveCauses = {}
    <3>1. /\ Goto("release", "answer") /\ transition' = transition /\ send' = "release" /\ req' = req
          /\ pc["release"] = "check" /\ snap' = latch /\ raised' = FALSE
          /\ UNCHANGED <<active, plc, txLost>>
      BY <1>2, <2>2, Zenon DEF ReleaseCheck, output
    <3>2. pc' \in [Threads -> Labels] /\ pc'["release"] = "answer" /\ pc'["listener"] = pc["listener"]
      BY <3>1, GotoPlace, Zenon DEF Places, Threads, Labels
    <3>3. Places'
      BY <3>1, <3>2, Zenon DEF Places
    <3> QED BY <1>2, <3>1, <3>3, Zenon DEF ReleaseCheck, ControlTypeOK, faultVars, sourceVars
  <2> QED BY <2>1, <2>2, Zenon
<1>3. CASE ReleaseAnswer
  <2>1. CASE Send("NORMAL") /\ Goto("release", "clear") /\ UNCHANGED <<locks, snap, raised>>
    <3>1. pc' \in [Threads -> Labels] /\ pc'["release"] = "clear" /\ pc'["listener"] = pc["listener"]
      BY <2>1, GotoPlace, Zenon DEF Places, Threads, Labels
    <3>2. Places'
      BY <1>3, <2>1, <3>1, Zenon DEF ReleaseAnswer, Places, locks
    <3>3. plc' \in Commands /\ txLost' \in 0..MaxTxLost
      BY <2>1, SendType, ControlAssumption, Zenon DEF ControlTypeOK
    <3> QED BY <1>3, <2>1, <3>2, <3>3 DEF ReleaseAnswer, ControlTypeOK, faultVars, sourceVars, locks
  <2>2. CASE txLost < MaxTxLost /\ txLost' = txLost + 1 /\ plc' \in {plc, "NORMAL"} /\ ReleaseEnd
    <3>1. Places'
      BY <1>3, <2>2, ReleaseEndPlaces, Zenon DEF ReleaseAnswer
    <3>2. txLost' \in 0..MaxTxLost /\ plc' \in Commands
      BY <2>2, ControlAssumption DEF ControlTypeOK
    <3> QED BY <1>3, <2>2, <3>1, <3>2, Zenon DEF ReleaseAnswer, ReleaseEnd, ControlTypeOK, faultVars, sourceVars
  <2> QED BY <1>3, <2>1, <2>2, Zenon DEF ReleaseAnswer
<1>4. CASE ReleaseClear
  <2>1. Places'
    BY <1>4, ReleaseEndPlaces, Zenon DEF ReleaseClear
  <2>2. plc' \in Commands /\ txLost' \in 0..MaxTxLost
    BY <1>4, SendType, ControlAssumption, Zenon DEF ReleaseClear, ControlTypeOK
  <2>3. active' \in Commands /\ latch' \subseteq LatchCauses /\ tier2' \in BOOLEAN
    BY <1>4, ControlAssumption, Zenon DEF ReleaseClear, ControlTypeOK
  <2> QED BY <1>4, <2>1, <2>2, <2>3, Zenon DEF ReleaseClear, ReleaseEnd, ControlTypeOK, sourceVars
<1> QED BY <1>1, <1>2, <1>3, <1>4, Zenon DEF Release

LEMMA WatchdogType ==
    ASSUME TypeInv, HbWatchdog \/ Timeout \/ FreshnessWatchdog
    PROVE  TypeInv'
<1> USE DEF TypeInv
<1>1. ASSUME NEW m \in 0..MaxHbFailures, HbTick(m) PROVE TypeInv'
  <2>1. PICK l \in {"hold", "tier2", "mark", "idle"} : Goto("heartbeat", l)
    BY <1>1, Zenon DEF HbTick
  <2>2. Places'
    BY <1>1, <2>1, WatchdogPlaces, Zenon DEF HbTick, locks, local, Labels, ListenerPlaces
  <2>3. faults' \subseteq FlagCauses /\ tier2' \in BOOLEAN /\ miss' \in 0..MaxHbFailures
    BY <1>1, Zenon DEF HbTick, ControlTypeOK
  <2> QED BY <1>1, <2>2, <2>3, Zenon DEF HbTick, ControlTypeOK, sourceVars, output, locks, local
<1>2. CASE HbTier2
  <2>1. Places'
    BY <1>2, WatchdogPlaces, Zenon DEF HbTier2, locks, local, Labels, ListenerPlaces
  <2>2. active' \in Commands /\ plc' \in Commands /\ txLost' \in 0..MaxTxLost
    BY <1>2, LatchedHoldType, Zenon DEF HbTier2
  <2> QED BY <1>2, <2>1, <2>2, Zenon DEF HbTier2, ControlTypeOK, sourceVars, locks, local
<1>3. CASE HbMark
  <2>1. Places'
    BY <1>3, WatchdogPlaces, Zenon DEF HbMark, locks, local, Labels, ListenerPlaces
  <2>2. active' \in Commands /\ plc' \in Commands /\ txLost' \in 0..MaxTxLost
    BY <1>3, LatchedHoldType, Zenon DEF HbMark, ControlTypeOK, output
  <2>3. faults' \subseteq FlagCauses /\ latch' \subseteq LatchCauses
    BY <1>3, MarkFaultType, Zenon DEF HbMark, FlagCauses
  <2> QED BY <1>3, <2>1, <2>2, <2>3, Zenon DEF HbMark, ControlTypeOK, sourceVars, locks, local
<1>4. ASSUME NEW t \in {"heartbeat", "freshness"}, WatchdogHold(t) PROVE TypeInv'
  <2>1. Places'
    BY <1>4, WatchdogPlaces, Zenon DEF WatchdogHold, locks, local, Labels, ListenerPlaces
  <2>2. active' \in Commands /\ plc' \in Commands /\ txLost' \in 0..MaxTxLost
    BY <1>4, LatchedHoldType, Zenon DEF WatchdogHold
  <2> QED BY <1>4, <2>1, <2>2 DEF WatchdogHold, ControlTypeOK, faultVars, sourceVars, locks, local
<1>5. CASE Timeout
  BY <1>5 DEF Timeout, ControlTypeOK, Places, faultVars, sourceVars, output, locks, local
<1>6. CASE FreshnessExpired
  <2>1. Places'
    BY <1>6, WatchdogPlaces, Zenon DEF FreshnessExpired, locks, local, Labels
  <2> QED BY <1>6, <2>1, Zenon DEF FreshnessExpired, ControlTypeOK, faultVars, sourceVars, output, locks, local
<1>7. CASE FreshnessMark
  <2>1. PICK l \in {"hold", "idle"} : Goto("freshness", l)
    BY <1>7, Zenon DEF FreshnessMark
  <2>2. Places'
    BY <1>7, <2>1, WatchdogPlaces, Zenon DEF FreshnessMark, locks, Labels, ListenerPlaces
  <2>3. faults' \subseteq FlagCauses /\ latch' \subseteq LatchCauses
    BY <1>7, MarkFaultType, Zenon DEF FreshnessMark, FlagCauses
  <2>4. raised' \in BOOLEAN
    BY <1>7, Zenon DEF FreshnessMark
  <2> QED BY <1>7, <2>2, <2>3, <2>4, Zenon DEF FreshnessMark, ControlTypeOK, sourceVars, output, locks
<1> QED BY <1>1, <1>2, <1>3, <1>4, <1>5, <1>6, <1>7, Zenon DEF HbWatchdog, FreshnessWatchdog

LEMMA TypeNext == TypeInv /\ [ControlNext]_controlVars => TypeInv'
<1> SUFFICES ASSUME TypeInv, [ControlNext]_controlVars PROVE TypeInv'
  BY Zenon
<1>1. CASE UNCHANGED controlVars
  BY <1>1 DEF TypeInv, ControlTypeOK, Places, controlVars, faultVars, sourceVars, output, locks, local
<1>2. CASE ControlNext
  BY <1>2, ReceiveType, StepType, ModeType, DecideType, ReleaseType, WatchdogType, Zenon
     DEF ControlNext, RequestSteps
<1> QED BY <1>1, <1>2, Zenon

LEMMA TypeHolds == ControlSpec => []TypeInv
  BY TypeInit, TypeNext, PTL DEF ControlSpec

-----------------------------------------------------------------------------
(* What each thread leaves alone, and where it stands. *)

LEMMA DecisionFrame ==
    ASSUME NEW c, NoDecision \/ Decide(c) \/ Reassert(c) \/ Revise(c)
    PROVE  UNCHANGED <<faultVars, sourceVars>>
<1>1. CASE NoDecision
  BY <1>1, Zenon DEF NoDecision
<1>2. CASE Decide(c)
  BY <1>2, Zenon DEF Decide
<1>3. CASE Reassert(c)
  BY <1>3, Zenon DEF Reassert
<1>4. CASE Revise(c)
  BY <1>4, Zenon DEF Revise
<1> QED BY <1>1, <1>2, <1>3, <1>4, Zenon

\* A listener working on a request: the request is one, and no release runs.
LEMMA ListenerFrame ==
    ASSUME TypeInv, RequestSteps \/ NoDecision \/ \E c \in Commands : Decide(c)
    PROVE  /\ pc["listener"] # "idle" /\ pc["release"] = "idle" /\ req \in Requests
           /\ \E l \in ListenerPlaces : Goto("listener", l)
<1>1. pc["listener"] # "idle" => pc["release"] = "idle" /\ req \in Requests
  BY Zenon DEF TypeInv, Places
<1>2. ASSUME NEW at, NEW l \in ListenerPlaces, Step(at, l) \/ (Done(at) /\ l = "idle"), at # "idle"
      PROVE  pc["listener"] # "idle" /\ \E k \in ListenerPlaces : Goto("listener", k)
  BY <1>2, Zenon DEF Step, Done
<1>3. CASE ApplyAiVerdicts \/ ApplySourcePresence
  BY <1>1, <1>2, <1>3, Zenon DEF ApplyAiVerdicts, ApplySourcePresence, ListenerPlaces
<1>4. CASE ApplySourceInputState \/ UpdateSensorHealth
  BY <1>1, <1>2, <1>4, Zenon DEF ApplySourceInputState, UpdateSensorHealth, ListenerPlaces
<1>5. CASE ApplyMode
  BY <1>1, <1>2, <1>5, Zenon DEF ApplyMode, ListenerPlaces
<1>6. CASE ApplySwFailEvents
  BY <1>1, <1>2, <1>6, Zenon DEF ApplySwFailEvents, ListenerPlaces
<1>7. CASE ApplyModeError \/ NoDecision \/ \E c \in Commands : Decide(c)
  BY <1>1, <1>2, <1>7, Zenon DEF ApplyModeError, NoDecision, Decide, ListenerPlaces
<1> QED BY <1>3, <1>4, <1>5, <1>6, <1>7, Zenon DEF RequestSteps

LEMMA ReleaseFrame ==
    ASSUME Release
    PROVE  UNCHANGED <<faults, sub, suppress, sourceVars, req, sensorLatch>> /\ \E l \in Labels : Goto("release", l)
<1> USE DEF Labels, ListenerPlaces
<1>1. CASE ReleaseRequested
  BY <1>1, Zenon DEF ReleaseRequested, faultVars, local
<1>2. CASE ReleaseCheck
  BY <1>2, Zenon DEF ReleaseCheck, faultVars
<1>3. CASE ReleaseAnswer
  BY <1>3, Zenon DEF ReleaseAnswer, ReleaseEnd, faultVars
<1>4. CASE ReleaseClear
  BY <1>4, Zenon DEF ReleaseClear, ReleaseEnd
<1> QED BY <1>1, <1>2, <1>3, <1>4, Zenon DEF Release

LEMMA WatchdogFrame ==
    ASSUME HbWatchdog \/ FreshnessWatchdog
    PROVE  /\ UNCHANGED <<sub, suppress, sourceVars, req, sensorLatch>>
           /\ \E t \in {"heartbeat", "freshness"}, l \in Labels : Goto(t, l)
<1> USE DEF Labels, ListenerPlaces
<1>1. ASSUME NEW m, HbTick(m)
      PROVE  UNCHANGED <<sub, suppress, sourceVars, req, sensorLatch>> /\ \E l \in Labels : Goto("heartbeat", l)
  BY <1>1, Zenon DEF HbTick, local
<1>2. CASE HbTier2
  BY <1>2, Zenon DEF HbTier2, local
<1>3. CASE HbMark
  BY <1>3, Zenon DEF HbMark, local
<1>4. ASSUME NEW t \in {"heartbeat", "freshness"}, WatchdogHold(t)
      PROVE  UNCHANGED <<sub, suppress, sourceVars, req, sensorLatch>> /\ \E l \in Labels : Goto(t, l)
  BY <1>4, Zenon DEF WatchdogHold, faultVars, local
<1>5. CASE FreshnessExpired
  BY <1>5, Zenon DEF FreshnessExpired, faultVars, local
<1>6. CASE FreshnessMark
  BY <1>6, Zenon DEF FreshnessMark
<1> QED BY <1>1, <1>2, <1>3, <1>4, <1>5, <1>6, Zenon DEF HbWatchdog, FreshnessWatchdog

-----------------------------------------------------------------------------
(* The latch.  A flag goes up together with its latch bit, a sub-cause with *)
(* the bit of PSS, and suppression ends with the last sub-cause.            *)

Latched ==
    /\ faults \subseteq latch
    /\ sub # {} => "Pss" \in latch
    /\ suppress => sub # {}

LEMMA LatchedInit == ControlInit => Latched
  BY Zenon DEF ControlInit, Latched

LEMMA ClearPssLatched ==
    ASSUME Latched, NEW S, ClearPss(S), latch' = latch
    PROVE  (sub' # {} => "Pss" \in latch') /\ (suppress' => sub' # {})
  BY Zenon DEF Latched, ClearPss

\* What a request or a release does to the latch.
LEMMA RequestLatched ==
    ASSUME TypeInv, Latched, RequestSteps
    PROVE  Latched' /\ latch \subseteq latch'
<1>r. req \in Requests
  BY ListenerFrame, Zenon
<1>1. CASE ApplyAiVerdicts
  <2> DEFINE b == "AiPipelineInvalid" \in faults
             v == AiPipelineVerdictApply(b, req)
  <2>1. v.active => b \/ v.saw
    <3>1. b \in BOOLEAN
      OBVIOUS
    <3> HIDE DEF b
    <3> QED BY <1>r, <3>1, AiFacts, Zenon
  <2>2. /\ faults' = IF v.active THEN faults \cup {"AiPipelineInvalid"} ELSE faults \ {"AiPipelineInvalid"}
        /\ latch' = IF v.saw THEN latch \cup {"AiPipelineInvalid"} ELSE latch
        /\ sub' = sub /\ suppress' = suppress
    BY <1>1, Zenon DEF ApplyAiVerdicts
  <2> HIDE DEF v
  <2> QED BY <2>1, <2>2, Zenon DEF Latched
<1>2. CASE ApplySourcePresence
  <2> DEFINE d == SourcePresenceEvaluate(seen, req)
             entered == d.raised \ sub
  <2>1. /\ IF entered = {} THEN ClearPss(d.cleared) /\ latch' = latch
           ELSE /\ sub' = (sub \ d.cleared) \cup entered
                /\ suppress' = TRUE /\ latch' = latch \cup {"Pss"}
        /\ faults' = faults
    BY <1>2, Zenon DEF ApplySourcePresence
  <2> HIDE DEF d
  <2>2. CASE entered = {}
    BY <2>1, <2>2, ClearPssLatched, Zenon DEF Latched
  <2>3. CASE entered # {}
    BY <2>1, <2>3, Zenon DEF Latched
  <2> QED BY <2>2, <2>3, Zenon
<1>3. CASE ApplySourceInputState
  <2> DEFINE d == SourceInputStateEvaluate(held, req)
  <2>1. /\ IF d.raised \subseteq sub THEN ClearPss(d.cleared) /\ latch' = latch ELSE MarkPss(d.raised)
        /\ faults' = faults
    BY <1>3, Zenon DEF ApplySourceInputState
  <2> HIDE DEF d
  <2>2. CASE d.raised \subseteq sub
    BY <2>1, <2>2, ClearPssLatched, Zenon DEF Latched
  <2>3. CASE ~(d.raised \subseteq sub)
    BY <2>1, <2>3, Zenon DEF Latched, MarkPss
  <2> QED BY <2>2, <2>3, Zenon
<1>4. CASE UpdateSensorHealth
  <2> DEFINE start == [failed |-> failed, pending |-> initPending,
                       active |-> "AllSensorsFailed" \in faults, latched |-> FALSE]
             end == SensorHealths(start, req.evs)[Len(req.evs)]
  <2>1. start \in Healths /\ Len(req.evs) \in Nat
    BY <1>r, RequestAssumption DEF TypeInv, ControlTypeOK, Healths
  <2>2. /\ start.active => "AllSensorsFailed" \in faults
        /\ ~start.latched
    BY Zenon
  <2>3. /\ faults' = IF end.active THEN faults \cup {"AllSensorsFailed"}
                                   ELSE faults \ {"AllSensorsFailed"}
        /\ latch' = IF end.latched THEN latch \cup {"AllSensorsFailed"} ELSE latch
        /\ sub' = sub /\ suppress' = suppress
    BY <1>4, Zenon DEF UpdateSensorHealth
  <2> HIDE DEF start
  <2>4. end.active => start.active \/ start.latched \/ end.latched
    BY <2>1, HealthsEnd, Zenon
  <2> HIDE DEF end
  <2> QED BY <2>2, <2>3, <2>4, Zenon DEF Latched
<1>5. CASE ApplyMode
  <2>1. latch' = latch /\ faults' = faults
    BY <1>5, Zenon DEF ApplyMode
  <2>2. (\E S : ClearPss(S)) \/ UNCHANGED <<sub, suppress>>
    BY <1>5, Zenon DEF ApplyMode
  <2> QED BY <2>1, <2>2, ClearPssLatched DEF Latched
<1>6. CASE ApplySwFailEvents
  <2>1. (SwFailSubCausesRaised(req) # {} /\ MarkPss(SwFailSubCausesRaised(req))) \/ UNCHANGED <<sub, suppress, latch>>
    BY <1>6, Zenon DEF ApplySwFailEvents
  <2> QED BY <1>6, <2>1 DEF ApplySwFailEvents, Latched, MarkPss
<1>7. CASE ApplyModeError
  BY <1>7, Zenon DEF ApplyModeError, Latched, MarkPss
<1> QED BY <1>1, <1>2, <1>3, <1>4, <1>5, <1>6, <1>7, Zenon DEF RequestSteps

\* What the latch does in one step: it grows, or a release that finds no cause takes it down.
LatchStep ==
    \/ latch \subseteq latch'
    \/ faults = {} /\ sub = {} /\ faults' = {} /\ sub' = {} /\ latch # {} /\ latch' = {}

LEMMA LatchedNext == TypeInv /\ Latched /\ [ControlNext]_controlVars => Latched' /\ LatchStep
<1> SUFFICES ASSUME TypeInv, Latched, [ControlNext]_controlVars PROVE Latched' /\ LatchStep
  BY Zenon
<1>1. CASE UNCHANGED controlVars
  BY <1>1, Zenon DEF Latched, LatchStep, controlVars, faultVars
<1>2. ASSUME NEW r \in Requests, NEW gap \in BOOLEAN, Receive(r, gap) PROVE Latched' /\ LatchStep
  BY <1>2, Zenon DEF Receive, Latched, LatchStep
<1>3. CASE RequestSteps
  BY <1>3, RequestLatched, Zenon DEF LatchStep
<1>4. CASE NoDecision \/ (\E c \in Commands : Decide(c) \/ Reassert(c) \/ Revise(c))
           \/ ReleaseRequested \/ ReleaseCheck \/ ReleaseAnswer \/ Timeout \/ FreshnessExpired
           \/ WatchdogHold("heartbeat") \/ WatchdogHold("freshness")
  <2>0. ASSUME UNCHANGED faultVars PROVE Latched' /\ LatchStep
    BY <2>0, Zenon DEF faultVars, Latched, LatchStep
  <2>1. CASE NoDecision \/ \E c \in Commands : Decide(c) \/ Reassert(c) \/ Revise(c)
    BY <2>0, <2>1, DecisionFrame, Zenon
  <2>2. CASE ReleaseRequested \/ ReleaseCheck \/ ReleaseAnswer
    BY <2>0, <2>2, Zenon DEF ReleaseRequested, ReleaseCheck, ReleaseAnswer
  <2>3. CASE Timeout \/ FreshnessExpired \/ WatchdogHold("heartbeat") \/ WatchdogHold("freshness")
    BY <2>0, <2>3, Zenon DEF Timeout, FreshnessExpired, WatchdogHold
  <2> QED BY <1>4, <2>1, <2>2, <2>3, Zenon
<1>5. CASE ReleaseClear
  <2>1. CASE snap # {} /\ latch = snap /\ ActiveCauses = {}
    <3>1. faults = {} /\ sub = {}
      BY <2>1, Zenon DEF ActiveCauses
    <3>2. faults' = faults /\ sub' = sub /\ suppress' = suppress /\ latch' = {}
      BY <1>5, <2>1, Zenon DEF ReleaseClear
    <3> QED BY <2>1, <3>1, <3>2, Zenon DEF Latched, LatchStep
  <2>2. CASE ~(snap # {} /\ latch = snap /\ ActiveCauses = {})
    BY <1>5, <2>2, Zenon DEF ReleaseClear, Latched, LatchStep
  <2> QED BY <2>1, <2>2, Zenon
<1>6. ASSUME NEW m \in 0..MaxHbFailures, HbTick(m) PROVE Latched' /\ LatchStep
  BY <1>6, Zenon DEF HbTick, Latched, LatchStep
<1>7. CASE HbTier2
  BY <1>7, Zenon DEF HbTier2, Latched, LatchStep
<1>8. CASE HbMark \/ FreshnessMark
  BY <1>8 DEF HbMark, FreshnessMark, MarkFault, Latched, LatchStep
<1> QED BY <1>1, <1>2, <1>3, <1>4, <1>5, <1>6, <1>7, <1>8, Zenon
        DEF ControlNext, Release, HbWatchdog, FreshnessWatchdog

LEMMA LatchedHolds == ControlSpec => []Latched
<1>1. TypeInv /\ Latched /\ [ControlNext]_controlVars => Latched'
  BY LatchedNext, Zenon
<1> QED BY TypeHolds, LatchedInit, <1>1, PTL DEF ControlSpec

(* The control shared by the SDMs keeps the latch's contract: what was      *)
(* active stays latched until a release that finds nothing active.          *)
THEOREM ContractKept == ControlSpec => ControlContract
<1> DEFINE now == faults \cup (IF sub # {} THEN {"Pss"} ELSE {})
<1>1. ControlInit => Contract!Init
  BY Zenon DEF ControlInit, Contract!Init
<1>2. TypeInv /\ TypeInv' /\ Latched /\ [ControlNext]_controlVars => [Contract!Next]_(Contract!vars)
  <2> SUFFICES ASSUME TypeInv, TypeInv', Latched, [ControlNext]_controlVars
               PROVE  Contract!Next
    BY Zenon
  <2>1. Latched' /\ LatchStep
    BY LatchedNext, Zenon
  <2>2. now' \subseteq latch' /\ latch' \subseteq LatchCauses
    BY <2>1, Zenon DEF Latched, TypeInv, ControlTypeOK
  <2>3. CASE latch \subseteq latch'
    BY <2>2, <2>3, Zenon DEF Contract!Next, Contract!Observe
  <2>4. CASE faults = {} /\ sub = {} /\ faults' = {} /\ sub' = {} /\ latch # {} /\ latch' = {}
    BY <2>4, Zenon DEF Contract!Next, Contract!Release
  <2> QED BY <2>1, <2>3, <2>4, Zenon DEF LatchStep
<1> QED BY <1>1, <1>2, LatchedHolds, TypeHolds, PTL DEF ControlSpec, ControlContract, Contract!Spec

-----------------------------------------------------------------------------
(* The sources.  Only a presence report clears a lost source's sub-cause,   *)
(* and it clears no group of which a known source is missing.               *)

LEMMA LostInit == ControlInit => LostSourceHeld
  BY Zenon DEF ControlInit, LostSourceHeld

LEMMA LostNext == TypeInv /\ LostSourceHeld /\ [ControlNext]_controlVars => LostSourceHeld'
<1> SUFFICES ASSUME TypeInv, LostSourceHeld, [ControlNext]_controlVars PROVE LostSourceHeld'
  BY Zenon
<1>t. \A s \in gone : GroupOf[s] \in LostCauses
  BY SourceAssumption, Zenon DEF TypeInv, ControlTypeOK
<1>1. CASE gone' = gone /\ held' = held /\ sub \subseteq sub'
  BY <1>1, Zenon DEF LostSourceHeld
<1>2. CASE ApplySourcePresence
  <2> DEFINE d == SourcePresenceEvaluate(seen, req)
             entered == d.raised \ sub
  <2>1. req \in Requests
    BY <1>2, Zenon DEF ApplySourcePresence, Step, TypeInv, Places
  <2>2. /\ d.cleared \subseteq LostCauses /\ d.raised \cap d.cleared = {}
        /\ \A s \in GoneAfter(gone, req) : GroupOf[s] \in d.raised \/ (s \in gone /\ d.cleared = {})
    BY <2>1, PresenceFacts, Zenon DEF TypeInv, ControlTypeOK
  <2>3. /\ gone' = GoneAfter(gone, req) /\ held' = held
        /\ sub' = (sub \ d.cleared) \cup entered
    BY <1>2, Zenon DEF ApplySourcePresence, ClearPss
  <2> HIDE DEF d
  <2>4. \A s \in gone' : GroupOf[s] \in sub'
    BY <2>2, <2>3, Zenon DEF LostSourceHeld
  <2>5. held' # {} => "INPUT_UNUSABLE" \in sub'
    BY <2>2, <2>3, Zenon DEF LostSourceHeld, LostCauses
  <2> QED BY <2>4, <2>5, Zenon DEF LostSourceHeld
<1>3. CASE ApplySourceInputState
  <2> DEFINE d == SourceInputStateEvaluate(held, req)
  <2>1. req \in Requests
    BY <1>3, Zenon DEF ApplySourceInputState, Step, TypeInv, Places
  <2>2. /\ d.raised = IF d.held # {} THEN {"INPUT_UNUSABLE"} ELSE {}
        /\ d.cleared \subseteq {"INPUT_UNUSABLE"} /\ (d.held # {} => d.cleared = {})
    BY <2>1, InputFacts, Zenon DEF TypeInv, ControlTypeOK
  <2>3. /\ gone' = gone /\ held' = d.held
        /\ IF d.raised \subseteq sub THEN sub' = sub \ d.cleared ELSE sub' = sub \cup d.raised
    BY <1>3, Zenon DEF ApplySourceInputState, ClearPss, MarkPss
  <2> HIDE DEF d
  <2> QED BY <1>t, <2>2, <2>3, Zenon DEF LostSourceHeld, LostCauses
<1>4. CASE ApplyMode
  <2>1. gone' = gone /\ held' = held /\ sub \ {"MODE_ERROR", "SW_FAIL", "GATEWAY_COMM"} \subseteq sub'
    BY <1>4, Zenon DEF ApplyMode, ClearPss, sourceVars
  <2> QED BY <1>t, <2>1, Zenon DEF LostSourceHeld, LostCauses
<1>5. CASE \/ UNCHANGED controlVars
           \/ \E r \in Requests, gap \in BOOLEAN : Receive(r, gap)
           \/ ApplyAiVerdicts \/ UpdateSensorHealth \/ ApplySwFailEvents \/ ApplyModeError
           \/ NoDecision \/ \E c \in Commands : Decide(c) \/ Reassert(c) \/ Revise(c)
  <2>1. gone' = gone /\ held' = held
    <3>1. CASE UNCHANGED controlVars \/ \E r \in Requests, gap \in BOOLEAN : Receive(r, gap)
      BY <3>1, Zenon DEF controlVars, Receive, sourceVars
    <3>2. CASE ApplyAiVerdicts \/ UpdateSensorHealth
      BY <3>2, Zenon DEF ApplyAiVerdicts, UpdateSensorHealth, sourceVars
    <3>3. CASE ApplySwFailEvents \/ ApplyModeError
      BY <3>3, Zenon DEF ApplySwFailEvents, ApplyModeError, sourceVars
    <3>4. CASE NoDecision \/ \E c \in Commands : Decide(c) \/ Reassert(c) \/ Revise(c)
      BY <3>4, DecisionFrame, Zenon DEF sourceVars
    <3> QED BY <1>5, <3>1, <3>2, <3>3, <3>4, Zenon
  <2>2. sub \subseteq sub'
    <3>1. CASE UNCHANGED controlVars \/ \E r \in Requests, gap \in BOOLEAN : Receive(r, gap)
      BY <3>1, Zenon DEF controlVars, Receive, faultVars
    <3>2. CASE ApplyAiVerdicts \/ UpdateSensorHealth
      BY <3>2, Zenon DEF ApplyAiVerdicts, UpdateSensorHealth
    <3>3. CASE ApplySwFailEvents \/ ApplyModeError
      BY <3>3, Zenon DEF ApplySwFailEvents, ApplyModeError, MarkPss
    <3>4. CASE NoDecision \/ \E c \in Commands : Decide(c) \/ Reassert(c) \/ Revise(c)
      BY <3>4, DecisionFrame, Zenon DEF faultVars
    <3> QED BY <1>5, <3>1, <3>2, <3>3, <3>4, Zenon
  <2> QED BY <1>1, <2>1, <2>2, Zenon
<1>6. CASE Release \/ HbWatchdog \/ Timeout \/ FreshnessWatchdog
  <2>1. gone' = gone /\ held' = held /\ sub' = sub
    BY <1>6, ReleaseFrame, WatchdogFrame, Zenon DEF Timeout, faultVars, sourceVars
  <2> QED BY <1>1, <2>1, Zenon
<1> QED BY <1>2, <1>3, <1>4, <1>5, <1>6, Zenon DEF ControlNext, RequestSteps

(* No other report, clean batch or recovery takes a lost source's sub-cause *)
(* down, nor that of a source whose input cannot be used.                   *)
THEOREM LossIsHeld == ControlSpec => []LostSourceHeld
  BY TypeHolds, LostInit, LostNext, PTL DEF ControlSpec

(* The shared state keeps its type.                                         *)
THEOREM ControlIsTyped == ControlSpec => []ControlTypeOK
<1>1. TypeInv => ControlTypeOK
  BY Zenon DEF TypeInv
<1> QED BY <1>1, TypeHolds, PTL

-----------------------------------------------------------------------------
(* The hold.  Whoever raises a cause owes the PLC a STOP until it is sent:  *)
(* the listener after it latched the sensors, the freshness watchdog before *)
(* its hold, the release between NORMAL and its second look.                *)

SensorOwed ==
    sensorLatch => pc["listener"] \in {"mode", "swFail", "modeError"} /\ ~IsNoopOnly(req)

\* While the release is out nobody but the freshness watchdog touches the causes, and its hold
\* waits for the release.
ReleaseQuiet ==
    pc["release"] \in {"answer", "clear"} =>
        /\ ~tier2 /\ sub = {}
        /\ latch # snap => pc["freshness"] = "hold"

HoldOwed ==
    txLost = 0 /\ MustHold /\ plc # "STOP" =>
        sensorLatch \/ pc["freshness"] = "hold" \/ pc["release"] = "clear"

HoldInv == SensorOwed /\ ReleaseQuiet /\ HoldOwed

LEMMA HoldInit == ControlInit => HoldInv
  BY Zenon DEF ControlInit, HoldInv, SensorOwed, ReleaseQuiet, HoldOwed, Threads, MustHold

LEMMA SendArrives ==
    ASSUME TypeInv, NEW c, Send(c), txLost' = 0
    PROVE  plc' = c /\ txLost = 0
  BY ControlAssumption DEF Send, TypeInv, ControlTypeOK

LEMMA HoldArrives ==
    ASSUME TypeInv, Hold \/ LatchedHold, txLost' = 0
    PROVE  plc' = "STOP"
  BY SendArrives, Zenon DEF Hold, LatchedHold

LEMMA ListenerPlace ==
    ASSUME TypeInv, NEW l \in ListenerPlaces, Goto("listener", l)
    PROVE  pc'["listener"] = l /\ pc'["release"] = pc["release"] /\ pc'["freshness"] = pc["freshness"]
  BY GotoPlace, Zenon DEF TypeInv, Places, Threads, Labels

\* The listener runs while no release does.
LEMMA ListenerHold ==
    ASSUME TypeInv, Latched, HoldInv, RequestSteps \/ NoDecision \/ \E c \in Commands : Decide(c)
    PROVE  HoldInv'
<1>l. /\ pc["listener"] # "idle" /\ pc["release"] = "idle" /\ req \in Requests
      /\ \E l \in ListenerPlaces : Goto("listener", l)
  BY ListenerFrame, Zenon
<1>p. pc'["release"] = "idle" /\ pc'["freshness"] = pc["freshness"]
  BY <1>l, ListenerPlace, Zenon
<1>q. ReleaseQuiet'
  BY <1>p, Zenon DEF ReleaseQuiet
<1> SUFFICES SensorOwed' /\ HoldOwed'
  BY <1>q, Zenon DEF HoldInv
<1>1. CASE ApplyAiVerdicts
  <2> DEFINE b == "AiPipelineInvalid" \in faults
             v == AiPipelineVerdictApply(b, req)
  <2>1. v.saw /\ ~v.entered => b
    <3>1. b \in BOOLEAN
      OBVIOUS
    <3> HIDE DEF b
    <3> QED BY <1>l, <3>1, AiFacts, Zenon
  <2>2. /\ latch' = IF v.saw THEN latch \cup {"AiPipelineInvalid"} ELSE latch
        /\ IF v.entered THEN Hold ELSE UNCHANGED <<plc, txLost>>
        /\ suppress' = suppress /\ tier2' = tier2 /\ sensorLatch' = sensorLatch
    BY <1>1, Zenon DEF ApplyAiVerdicts, output, local
  <2>3. ~sensorLatch
    BY <1>1, Zenon DEF HoldInv, SensorOwed, ApplyAiVerdicts, Step
  <2> HIDE DEF v
  <2>4. CASE v.entered
    BY <2>2, <2>3, <2>4, HoldArrives, Zenon DEF SensorOwed, HoldOwed
  <2>5. CASE ~v.entered
    <3>1. latch' = latch
      BY <2>1, <2>2, <2>5, Zenon DEF Latched
    <3> QED BY <1>l, <1>p, <2>2, <2>3, <2>5, <3>1, Zenon DEF HoldInv, SensorOwed, HoldOwed, MustHold
  <2> QED BY <2>4, <2>5, Zenon
<1>2. CASE ApplySourcePresence
  <2>1. ~sensorLatch /\ ~sensorLatch'
    BY <1>2, Zenon DEF HoldInv, SensorOwed, ApplySourcePresence, Step, local
  <2>2. Hold \/ (latch' = latch /\ tier2' = tier2 /\ (suppress' => suppress) /\ UNCHANGED <<plc, txLost>>)
    BY <1>2, Zenon DEF ApplySourcePresence, ClearPss, output
  <2> QED BY <1>l, <1>p, <2>1, <2>2, HoldArrives DEF HoldInv, SensorOwed, HoldOwed, MustHold
<1>3. CASE ApplySourceInputState
  <2>1. ~sensorLatch /\ ~sensorLatch'
    BY <1>3, Zenon DEF HoldInv, SensorOwed, ApplySourceInputState, Step, local
  <2>2. Hold \/ (latch' = latch /\ tier2' = tier2 /\ (suppress' => suppress) /\ UNCHANGED <<plc, txLost>>)
    BY <1>3, Zenon DEF ApplySourceInputState, ClearPss, output
  <2> QED BY <1>l, <1>p, <2>1, <2>2, HoldArrives DEF HoldInv, SensorOwed, HoldOwed, MustHold
<1>4. CASE UpdateSensorHealth
  <2> DEFINE start == [failed |-> failed, pending |-> initPending,
                       active |-> "AllSensorsFailed" \in faults, latched |-> FALSE]
             end == SensorHealths(start, req.evs)[Len(req.evs)]
  <2>1. start \in Healths /\ Len(req.evs) \in Nat /\ ~start.latched
    <3>1. failed \subseteq Reviewed /\ initPending \subseteq Reviewed
      BY Zenon DEF TypeInv, ControlTypeOK
    <3>2. Len(req.evs) \in Nat
      BY <1>l, RequestAssumption, Zenon
    <3> QED BY <3>1, <3>2 DEF Healths
  <2>2. /\ latch' = IF end.latched THEN latch \cup {"AllSensorsFailed"} ELSE latch
        /\ sensorLatch' = end.latched /\ req' = req /\ Goto("listener", "mode")
        /\ UNCHANGED <<suppress, tier2, plc, txLost>>
    BY <1>4, Zenon DEF UpdateSensorHealth, Step, output
  <2> HIDE DEF start
  <2>3. Len(req.evs) = 1 /\ req.evs[1].type = "PSS_STATUS_NOOP" => end.latched = start.latched
    BY <2>1, HealthsEnd, Zenon
  <2> HIDE DEF end
  <2>4. ~sensorLatch
    BY <1>4, Zenon DEF HoldInv, SensorOwed, UpdateSensorHealth, Step
  <2>5. pc'["listener"] = "mode"
    BY <2>2, ListenerPlace, Zenon DEF ListenerPlaces
  <2>6. SensorOwed'
    BY <2>1, <2>2, <2>3, <2>5, Zenon DEF SensorOwed, IsNoopOnly
  <2>7. HoldOwed'
    BY <1>l, <1>p, <2>2, <2>4, Zenon DEF HoldInv, HoldOwed, MustHold
  <2> QED BY <2>6, <2>7, Zenon
<1>5. CASE ApplyMode
  <2>1. UNCHANGED <<latch, tier2, plc, txLost>> /\ (suppress' => suppress)
    BY <1>5, Zenon DEF ApplyMode, ClearPss, output
  <2>2. CASE IsNoopOnly(req)
    <3>1. ~sensorLatch /\ ~sensorLatch'
      BY <1>5, <2>2, Zenon DEF ApplyMode, Done, HoldInv, SensorOwed
    <3> QED BY <1>l, <1>p, <2>1, <3>1, Zenon DEF HoldInv, SensorOwed, HoldOwed, MustHold
  <2>3. CASE ~IsNoopOnly(req)
    <3>1. sensorLatch' = sensorLatch /\ req' = req /\ Goto("listener", "swFail")
      BY <1>5, <2>3, Zenon DEF ApplyMode, Step
    <3>2. pc'["listener"] = "swFail"
      BY <3>1, ListenerPlace, Zenon DEF ListenerPlaces
    <3> QED BY <1>l, <1>p, <2>1, <2>3, <3>1, <3>2, Zenon DEF HoldInv, SensorOwed, HoldOwed, MustHold
  <2> QED BY <2>2, <2>3, Zenon
<1>6. CASE ApplySwFailEvents
  <2>1. tier2' = tier2
    BY <1>6, Zenon DEF ApplySwFailEvents
  <2>2. CASE req.mode = "ERROR"
    <3>1. /\ sensorLatch' = sensorLatch /\ req' = req /\ Goto("listener", "modeError")
          /\ Hold \/ UNCHANGED <<latch, suppress, plc, txLost>>
      BY <1>6, <2>2, Zenon DEF ApplySwFailEvents, Step, output
    <3>2. pc'["listener"] = "modeError"
      BY <3>1, ListenerPlace, Zenon DEF ListenerPlaces
    <3> QED BY <1>l, <1>p, <2>1, <3>1, <3>2, HoldArrives DEF HoldInv, SensorOwed, HoldOwed, MustHold
  <2>3. CASE req.mode # "ERROR"
    <3>1. Hold \/ (~sensorLatch /\ UNCHANGED <<latch, suppress, plc, txLost>>)
      BY <1>6, <2>3, Zenon DEF ApplySwFailEvents, output
    <3>2. ~sensorLatch'
      BY <1>6, <2>3, Zenon DEF ApplySwFailEvents, Done, TypeInv, ControlTypeOK
    <3> QED BY <1>l, <1>p, <2>1, <3>1, <3>2, HoldArrives DEF HoldInv, SensorOwed, HoldOwed, MustHold
  <2> QED BY <2>2, <2>3, Zenon
<1>7. CASE ApplyModeError
  BY <1>7, HoldArrives, Zenon DEF ApplyModeError, Done, SensorOwed, HoldOwed
<1>8. CASE NoDecision
  <2>1. ~sensorLatch /\ ~sensorLatch' /\ UNCHANGED <<latch, suppress, tier2, plc, txLost>>
    BY <1>8, Zenon DEF NoDecision, Done, HoldInv, SensorOwed, faultVars, output
  <2> QED BY <1>l, <1>p, <2>1, Zenon DEF HoldInv, SensorOwed, HoldOwed, MustHold
<1>9. ASSUME NEW c \in Commands, Decide(c) PROVE SensorOwed' /\ HoldOwed'
  <2>1. ~sensorLatch' /\ UNCHANGED <<latch, suppress, tier2>> /\ Send(IF tier2 \/ latch # {} THEN "STOP" ELSE c)
    BY <1>9, Zenon DEF Decide, Done, faultVars
  <2>2. MustHold => tier2 \/ latch # {}
    BY Zenon DEF MustHold, Latched
  <2> QED BY <2>1, <2>2, SendArrives, Zenon DEF SensorOwed, HoldOwed, MustHold
<1> QED BY <1>1, <1>2, <1>3, <1>4, <1>5, <1>6, <1>7, <1>8, <1>9, Zenon DEF RequestSteps

LEMMA ReleasePlace ==
    ASSUME TypeInv, NEW l \in Labels, Goto("release", l)
    PROVE  pc'["release"] = l /\ pc'["listener"] = pc["listener"] /\ pc'["freshness"] = pc["freshness"]
  BY GotoPlace, Zenon DEF TypeInv, Places, Threads

LEMMA ReleaseHold ==
    ASSUME TypeInv, Latched, HoldInv, Release
    PROVE  HoldInv'
<1>s. SensorOwed'
  <2>1. sensorLatch' = sensorLatch /\ req' = req /\ \E l \in Labels : Goto("release", l)
    BY ReleaseFrame, Zenon
  <2>2. pc'["listener"] = pc["listener"]
    BY <2>1, ReleasePlace, Zenon
  <2> QED BY <2>1, <2>2, Zenon DEF HoldInv, SensorOwed
<1> SUFFICES ReleaseQuiet' /\ HoldOwed'
  BY <1>s, Zenon DEF HoldInv
<1>1. CASE ReleaseRequested
  <2>1. pc'["release"] = "check" /\ pc'["freshness"] = pc["freshness"] /\ pc["release"] = "idle"
    BY <1>1, ReleasePlace, Zenon DEF ReleaseRequested, Labels
  <2> QED BY <1>1, <2>1, Zenon DEF ReleaseRequested, HoldInv, ReleaseQuiet, HoldOwed, MustHold, faultVars, output, local
<1>2. CASE ReleaseCheck /\ ActiveCauses # {}
  <2>1. LatchedHold /\ Goto("release", "idle")
    BY <1>2, Zenon DEF ReleaseCheck
  <2>2. pc'["release"] = "idle"
    BY <2>1, ReleasePlace, Zenon DEF Labels, ListenerPlaces
  <2> QED BY <2>1, <2>2, HoldArrives, Zenon DEF ReleaseQuiet, HoldOwed
<1>3. CASE ReleaseCheck /\ ActiveCauses = {}
  <2>1. /\ Goto("release", "answer") /\ snap' = latch /\ pc["release"] = "check"
        /\ UNCHANGED <<sub, suppress, latch, tier2, plc, txLost, sensorLatch>>
    BY <1>3, Zenon DEF ReleaseCheck, faultVars, output
  <2>2. pc'["release"] = "answer" /\ pc'["freshness"] = pc["freshness"]
    BY <2>1, ReleasePlace, Zenon DEF Labels
  <2>3. ~tier2 /\ sub = {}
    BY <1>3, Zenon DEF ActiveCauses
  <2> QED BY <2>1, <2>2, <2>3, Zenon DEF HoldInv, ReleaseQuiet, HoldOwed, MustHold
<1>4. CASE ReleaseAnswer
  <2>0. pc["release"] = "answer" /\ UNCHANGED <<sub, suppress, latch, tier2, sensorLatch>>
    BY <1>4, Zenon DEF ReleaseAnswer, faultVars
  <2>1. CASE Send("NORMAL") /\ Goto("release", "clear") /\ UNCHANGED <<locks, snap, raised>>
    <3>1. pc'["release"] = "clear" /\ pc'["freshness"] = pc["freshness"]
      BY <2>1, ReleasePlace, Zenon DEF Labels
    <3> QED BY <2>0, <2>1, <3>1, Zenon DEF HoldInv, ReleaseQuiet, HoldOwed
  <2>2. CASE txLost < MaxTxLost /\ txLost' = txLost + 1 /\ plc' \in {plc, "NORMAL"} /\ ReleaseEnd
    <3>1. pc'["release"] = "idle"
      BY <2>2, ReleasePlace, Zenon DEF ReleaseEnd, Labels, ListenerPlaces
    <3>2. txLost' # 0
      BY <2>2, ControlAssumption DEF TypeInv, ControlTypeOK
    <3> QED BY <3>1, <3>2, Zenon DEF ReleaseQuiet, HoldOwed
  <2> QED BY <1>4, <2>1, <2>2, Zenon DEF ReleaseAnswer
<1>5. CASE ReleaseClear
  <2>1. /\ pc["release"] = "clear" /\ Goto("release", "idle")
        /\ UNCHANGED <<sub, suppress, sensorLatch>>
    BY <1>5, Zenon DEF ReleaseClear, ReleaseEnd
  <2>2. pc'["release"] = "idle" /\ pc'["freshness"] = pc["freshness"]
    BY <2>1, ReleasePlace, Zenon DEF Labels, ListenerPlaces
  <2>3. ~tier2 /\ ~suppress /\ (latch # snap => pc["freshness"] = "hold")
    BY <2>1, Zenon DEF HoldInv, ReleaseQuiet, Latched
  <2>4. HoldOwed'
    <3>1. CASE snap = {}
      BY <1>5, <2>1, <2>2, <2>3, <3>1 DEF ReleaseClear, HoldOwed, MustHold
    <3>2. CASE snap # {} /\ latch = snap /\ ActiveCauses = {}
      BY <1>5, <2>1, <2>3, <3>2 DEF ReleaseClear, HoldOwed, MustHold
    <3>3. CASE snap # {} /\ ~(latch = snap /\ ActiveCauses = {})
      <4>1. Send("STOP")
        BY <1>5, <3>3, Zenon DEF ReleaseClear
      <4> QED BY <4>1, SendArrives, Zenon DEF HoldOwed
    <3> QED BY <3>1, <3>2, <3>3, Zenon
  <2> QED BY <2>2, <2>4, Zenon DEF ReleaseQuiet
<1> QED BY <1>1, <1>2, <1>3, <1>4, <1>5, Zenon DEF Release

LEMMA WatchdogPlace ==
    ASSUME TypeInv, NEW t \in {"heartbeat", "freshness"}, NEW l \in Labels, Goto(t, l)
    PROVE  /\ pc'[t] = l /\ pc'["listener"] = pc["listener"] /\ pc'["release"] = pc["release"]
           /\ t = "heartbeat" => pc'["freshness"] = pc["freshness"]
  BY GotoPlace DEF TypeInv, Places, Threads

LEMMA WatchdogHolds ==
    ASSUME TypeInv, Latched, HoldInv, HbWatchdog \/ Timeout \/ FreshnessWatchdog
    PROVE  HoldInv'
<1>s. SensorOwed'
  <2>1. CASE Timeout
    BY <2>1, Zenon DEF Timeout, local, HoldInv, SensorOwed
  <2>2. CASE HbWatchdog \/ FreshnessWatchdog
    <3>1. sensorLatch' = sensorLatch /\ req' = req
      BY <2>2, WatchdogFrame, Zenon
    <3>2. \E t \in {"heartbeat", "freshness"}, l \in Labels : Goto(t, l)
      BY <2>2, WatchdogFrame, Zenon
    <3>3. pc'["listener"] = pc["listener"]
      BY <3>2, WatchdogPlace, Zenon
    <3> QED BY <3>1, <3>3, Zenon DEF HoldInv, SensorOwed
  <2> QED BY <2>1, <2>2, Zenon
<1>f. send = Free => pc["release"] \notin {"answer", "clear"}
  BY Zenon DEF TypeInv, Places, Free
<1> SUFFICES ReleaseQuiet' /\ HoldOwed'
  BY <1>s, Zenon DEF HoldInv
<1>1. ASSUME NEW m \in 0..MaxHbFailures, HbTick(m) PROVE ReleaseQuiet' /\ HoldOwed'
  <2>1. PICK l \in {"hold", "tier2", "mark", "idle"} : Goto("heartbeat", l)
    BY <1>1, Zenon DEF HbTick
  <2>2. pc'["release"] = pc["release"] /\ pc'["freshness"] = pc["freshness"]
    BY <2>1, WatchdogPlace, Zenon DEF Labels, ListenerPlaces
  <2>3. (tier2' => tier2) /\ UNCHANGED <<sub, suppress, latch, plc, txLost, sensorLatch, snap>>
    BY <1>1, Zenon DEF HbTick, output, local
  <2> QED BY <2>2, <2>3, Zenon DEF HoldInv, ReleaseQuiet, HoldOwed, MustHold
<1>2. CASE HbTier2
  <2>1. pc'["release"] = pc["release"]
    BY <1>2, WatchdogPlace, Zenon DEF HbTier2, Labels, ListenerPlaces
  <2> QED BY <1>f, <1>2, <2>1, HoldArrives, Zenon DEF HbTier2, LatchedHold, ReleaseQuiet, HoldOwed
<1>3. CASE HbMark
  <2>1. pc'["release"] = pc["release"] /\ pc'["freshness"] = pc["freshness"]
    BY <1>3, WatchdogPlace, Zenon DEF HbMark, Labels, ListenerPlaces
  <2>2. LatchedHold \/ UNCHANGED <<latch, plc, txLost>>
    BY <1>3, Zenon DEF HbMark, MarkFault, output
  <2>3. UNCHANGED <<suppress, tier2, sensorLatch>> /\ send = Free
    BY <1>3, Zenon DEF HbMark, local
  <2> QED BY <1>f, <2>1, <2>2, <2>3, HoldArrives, Zenon DEF HoldInv, ReleaseQuiet, HoldOwed, MustHold
<1>4. ASSUME NEW t \in {"heartbeat", "freshness"}, WatchdogHold(t) PROVE ReleaseQuiet' /\ HoldOwed'
  <2>1. pc'["release"] = pc["release"]
    BY <1>4, WatchdogPlace, Zenon DEF WatchdogHold, Labels, ListenerPlaces
  <2> QED BY <1>f, <1>4, <2>1, HoldArrives, Zenon DEF WatchdogHold, LatchedHold, ReleaseQuiet, HoldOwed
<1>5. CASE Timeout
  BY <1>5, Zenon DEF Timeout, HoldInv, ReleaseQuiet, HoldOwed, MustHold, faultVars, output, local
<1>6. CASE FreshnessExpired
  <2>1. pc'["release"] = pc["release"] /\ pc["freshness"] = "idle"
    BY <1>6, WatchdogPlace, Zenon DEF FreshnessExpired, Labels
  <2> QED BY <1>6, <2>1, Zenon DEF FreshnessExpired, HoldInv, ReleaseQuiet, HoldOwed, MustHold, faultVars, output, local
<1>7. CASE FreshnessMark
  <2>1. /\ pc["freshness"] = "mark"
        /\ Goto("freshness", IF "DecisionFreshness" \in faults THEN "idle" ELSE "hold")
        /\ "DecisionFreshness" \in faults => latch' = latch
        /\ UNCHANGED <<sub, suppress, tier2, plc, txLost, sensorLatch, snap>>
    BY <1>7, Zenon DEF FreshnessMark, MarkFault, output
  <2>2. CASE "DecisionFreshness" \in faults
    <3>1. pc'["release"] = pc["release"]
      BY <2>1, <2>2, WatchdogPlace, Zenon DEF Labels, ListenerPlaces
    <3> QED BY <2>1, <2>2, <3>1, Zenon DEF HoldInv, ReleaseQuiet, HoldOwed, MustHold
  <2>3. CASE "DecisionFreshness" \notin faults
    <3>1. pc'["release"] = pc["release"] /\ pc'["freshness"] = "hold"
      BY <2>1, <2>3, WatchdogPlace, Zenon DEF Labels, ListenerPlaces
    <3> QED BY <2>1, <3>1, Zenon DEF HoldInv, ReleaseQuiet, HoldOwed
  <2> QED BY <2>2, <2>3, Zenon
<1> QED BY <1>1, <1>2, <1>3, <1>4, <1>5, <1>6, <1>7, Zenon DEF HbWatchdog, FreshnessWatchdog

LEMMA HoldNext == TypeInv /\ Latched /\ HoldInv /\ [ControlNext]_controlVars => HoldInv'
<1> SUFFICES ASSUME TypeInv, Latched, HoldInv, [ControlNext]_controlVars PROVE HoldInv'
  BY Zenon
<1>1. CASE UNCHANGED controlVars
  BY <1>1, Zenon DEF controlVars, HoldInv, SensorOwed, ReleaseQuiet, HoldOwed, MustHold, faultVars, output, local
<1>2. ASSUME NEW r \in Requests, NEW gap \in BOOLEAN, Receive(r, gap) PROVE HoldInv'
  <2>1. ~sensorLatch /\ ~sensorLatch' /\ pc["release"] = "idle"
    BY <1>2, Zenon DEF Receive, HoldInv, SensorOwed, TypeInv, Places, Free
  <2>2. pc'["release"] = pc["release"] /\ pc'["freshness"] = pc["freshness"]
    BY <1>2, ListenerPlace, Zenon DEF Receive, ListenerPlaces
  <2>3. Send("STOP") \/ UNCHANGED <<latch, plc, txLost>>
    BY <1>2, Zenon DEF Receive
  <2>4. UNCHANGED <<suppress, tier2>>
    BY <1>2, Zenon DEF Receive
  <2>5. HoldOwed'
    BY <2>1, <2>2, <2>3, <2>4, SendArrives, Zenon DEF HoldInv, HoldOwed, MustHold
  <2> QED BY <2>1, <2>2, <2>5, Zenon DEF HoldInv, SensorOwed, ReleaseQuiet
<1>3. ASSUME NEW c \in Commands, Reassert(c) \/ Revise(c) PROVE HoldInv'
  <2>1. UNCHANGED <<sub, suppress, latch, tier2, pc, req, sensorLatch, snap>>
    BY <1>3, Zenon DEF Reassert, Revise, faultVars, local
  <2>2. MustHold => Send("STOP") \/ UNCHANGED <<plc, txLost>>
    BY <1>3, Zenon DEF Reassert, Revise
  <2>3. HoldOwed'
    BY <2>1, <2>2, SendArrives, Zenon DEF HoldInv, HoldOwed, MustHold
  <2> QED BY <2>1, <2>3, Zenon DEF HoldInv, SensorOwed, ReleaseQuiet
<1> QED BY <1>1, <1>2, <1>3, ListenerHold, ReleaseHold, WatchdogHolds, Zenon DEF ControlNext

(* At rest the PLC is in STOP while a latch, a suppression or a tier-2 hold *)
(* stands, whichever of the five senders came last.                         *)
THEOREM HoldIsOnPlc == ControlSpec => []HoldOnPlc
<1>1. TypeInv /\ HoldInv => HoldOnPlc
  BY Zenon DEF TypeInv, Places, HoldInv, SensorOwed, HoldOwed, HoldOnPlc, Settled, Free
<1> QED BY <1>1, TypeHolds, LatchedHolds, HoldInit, HoldNext, PTL DEF ControlSpec

-----------------------------------------------------------------------------
(* The steps the decision modules share are steps of SdmControl.            *)

LEMMA DecideIsControl ==
    ASSUME NEW c \in Commands, Decide(c) \/ Reassert(c) \/ Revise(c) PROVE ControlNext
  BY Zenon DEF ControlNext

LEMMA StopIsCommand == "STOP" \in Commands /\ "NORMAL" \in Commands
  BY ControlAssumption, Zenon
=============================================================================
