----------------------------- MODULE JunctionZone -----------------------------
(***************************************************************************)
(* The junction state machine of CrossingJunctionSafetyControl.cpp, as     *)
(* functions of one zone's state and the time.  A1: a forklift is engaged; *)
(* A2: a person is in the region of interest; the siren is A1 and A2.      *)
(*                                                                         *)
(* Times are ticks of the steady clock; 0 means never, as in the source.   *)
(* An event is [kind, sensor, object].                                     *)
(***************************************************************************)
EXTENDS Integers, Sequences

CONSTANTS
    Cameras,           \* pipeline ids
    EngageWindow,      \* g_tripwireEngageWindowMs
    EntryPulse,        \* g_roiEntryPulseMs; 0 turns the backstop off
    PersonHold,        \* g_personRoiHoldMs
    ForkliftHold,      \* g_forkliftRoiHoldMs
    Debounce,          \* g_clearDebounceMs
    Objects,           \* the values of an ObjectRecord
    Nobody             \* an ObjectRecord never filled

ASSUME JunctionAssumption ==
    /\ {EngageWindow, EntryPulse, PersonHold, ForkliftHold, Debounce} \subseteq Nat
    /\ Nobody \in Objects

JunctionKinds == {"TRIPWIRE", "PERSON_IN", "FORKLIFT_IN", "PERSON_OUT", "FORKLIFT_OUT"}

\* SensorJunctionView and JunctionZoneState
NoView == [person |-> FALSE, forklift |-> FALSE, personAt |-> 0, forkliftAt |-> 0]
NewZone ==
    [tripwire |-> 0, entry |-> 0, view |-> [c \in Cameras |-> NoView],
     person |-> FALSE, forklift |-> FALSE, personVacant |-> 0, forkliftVacant |-> 0,
     engaged |-> FALSE, forkliftRecord |-> Nobody, personRecord |-> Nobody]

\* junctionSignalFresh
Fresh(last, now, window) == last # 0 /\ now - last <= window

\* One debounced level of updateJunctionLevelsLocked: rising at once, falling only
\* after the debounce.
Level(raw, level, vacant, now) ==
    LET since == IF raw THEN 0 ELSE IF vacant = 0 THEN now ELSE vacant
    IN  [level |-> raw \/ (level /\ now - since < Debounce), vacant |-> since]

\* Mutant: the camera that spoke last is believed.
RawPersonLast(z, now) ==
    \E c \in Cameras : /\ z.view[c].person /\ Fresh(z.view[c].personAt, now, PersonHold)
                       /\ \A d \in Cameras : z.view[d].personAt <= z.view[c].personAt

\* Some camera that still reports says a person is in.
RawPerson(z, now) ==
    \E c \in Cameras : z.view[c].person /\ Fresh(z.view[c].personAt, now, PersonHold)

RawForklift(z, now) ==
    \E c \in Cameras : z.view[c].forklift /\ Fresh(z.view[c].forkliftAt, now, ForkliftHold)

\* updateJunctionLevelsLocked
UpdateLevels(z, now) ==
    LET p == Level(RawPerson(z, now), z.person, z.personVacant, now)
        f == Level(RawForklift(z, now), z.forklift, z.forkliftVacant, now)
    IN  [z EXCEPT !.person = p.level, !.personVacant = p.vacant,
                  !.forklift = f.level, !.forkliftVacant = f.vacant,
                  !.entry = IF RawForklift(z, now) /\ ~z.forklift THEN now ELSE @]

\* junctionVerdictLocked
Verdict(z, now) ==
    [a1 |-> \/ z.engaged /\ (Fresh(z.tripwire, now, EngageWindow) \/ z.forklift)
            \/ EntryPulse > 0 /\ Fresh(z.entry, now, EntryPulse),
     a2 |-> z.person]

Alarm(v) == v.a1 /\ v.a2

\* evaluateJunctionLocked: the zone afterwards; its verdict is Verdict of it.
Evaluate(z, now) ==
    LET u == UpdateLevels(z, now)
    IN  [u EXCEPT !.engaged = @ /\ Verdict(u, now).a1]

\* ingestJunctionEvent
Ingest(z, ev, now) ==
    LET c == ev.sensor
        set == CASE ev.kind = "TRIPWIRE" ->
                      [z EXCEPT !.tripwire = now, !.engaged = TRUE, !.forkliftRecord = ev.object]
                 [] ev.kind = "PERSON_IN" ->
                      [z EXCEPT !.view[c] = [@ EXCEPT !.person = TRUE, !.personAt = now], !.personRecord = ev.object]
                 [] ev.kind = "FORKLIFT_IN" ->
                      [z EXCEPT !.view[c] = [@ EXCEPT !.forklift = TRUE, !.forkliftAt = now], !.forkliftRecord = ev.object]
                 [] ev.kind = "PERSON_OUT" ->
                      [z EXCEPT !.view[c] = [@ EXCEPT !.person = FALSE, !.personAt = now]]
                 [] ev.kind = "FORKLIFT_OUT" ->
                      [z EXCEPT !.view[c] = [@ EXCEPT !.forklift = FALSE, !.forkliftAt = now]]
    IN  UpdateLevels(set, now)

\* The events of a request the junction takes in.
JunctionEvents(r) ==
    {i \in 1..Len(r.evs) :
        LET ev == r.evs[i]
        IN  ~ev.stale /\ ev.healthy /\ ev.trusted /\ ev.type = "JUNCTION"}

\* The gateway's junction events name a camera and carry the object they are about.
JunctionBatch(r) ==
    /\ Len(r.evs) \in Nat
    /\ \A i \in JunctionEvents(r) :
         /\ r.evs[i].kind \in JunctionKinds /\ r.evs[i].sensor \in Cameras
         /\ r.evs[i].object \in Objects \ {Nobody}

\* The zone as the events of a request are taken in: element i is after event i.
IngestAll(start, r, now) ==
    LET z[i \in 0..Len(r.evs)] ==
            IF i = 0 THEN start
            ELSE IF i \in JunctionEvents(r) THEN Ingest(z[i - 1], r.evs[i], now)
            ELSE z[i - 1]
    IN  z
=============================================================================
