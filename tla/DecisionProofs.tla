---------------------------- MODULE DecisionProofs ----------------------------
(***************************************************************************)
(* The three decision modules implement SdmControl, so what SdmProofs      *)
(* shows of the latch, the lost sources and the hold on the PLC holds of   *)
(* each of them; and what each adds of its own.  First, what one report    *)
(* does to a junction's zone and one observation to the pair table, and    *)
(* what a whole batch of them does.                                        *)
(***************************************************************************)
EXTENDS SdmProofs, ProximitySdm, CrossingSdm, AtlProximitySdm, FiniteSetTheorems

(* The junction of CrossingSdm.  What a zone knows, against the cameras'    *)
(* reports: rep is the time of each camera's last report of each kind.      *)

ReportKeys == Cameras \X {"TRIPWIRE", "PERSON_IN", "PERSON_OUT"}

Views == [person : BOOLEAN, forklift : BOOLEAN, personAt : Nat, forkliftAt : Nat]

Zones ==
    [tripwire : Nat, entry : Nat, view : [Cameras -> Views], person : BOOLEAN, forklift : BOOLEAN,
     personVacant : Nat, forkliftVacant : Nat, engaged : BOOLEAN,
     forkliftRecord : Objects, personRecord : Objects]

ZoneTyped(z, rep, now) ==
    /\ now \in Nat \ {0} /\ z \in Zones /\ z.tripwire <= now /\ z.entry <= now
    /\ rep \in [ReportKeys -> Nat] /\ \A k \in ReportKeys : rep[k] <= now

\* The view of a camera is its last report, the wire the last crossing of any.
ViewsTrue(z, rep) ==
    \A c \in Cameras :
        /\ rep[<<c, "PERSON_IN">>] > rep[<<c, "PERSON_OUT">>] => z.view[c].person
        /\ z.view[c].person => z.view[c].personAt = rep[<<c, "PERSON_IN">>]
        /\ rep[<<c, "TRIPWIRE">>] <= z.tripwire

\* A level or a view that is up has named its object.
Named(z) ==
    /\ z.person \/ (\E c \in Cameras : z.view[c].person) => z.personRecord # Nobody
    /\ z.engaged \/ z.forklift \/ z.entry # 0 \/ (\E c \in Cameras : z.view[c].forklift)
         => z.forkliftRecord # Nobody

Engaged(z, rep, now) ==
    (\E c \in Cameras : Fresh(rep[<<c, "TRIPWIRE">>], now, EngageWindow)) => z.engaged

PersonUp(z, rep, now) ==
    (\E c \in Cameras : /\ Fresh(rep[<<c, "PERSON_IN">>], now, PersonHold)
                        /\ rep[<<c, "PERSON_IN">>] > rep[<<c, "PERSON_OUT">>]) => z.person

ZoneBase(z, rep, now) ==
    ZoneTyped(z, rep, now) /\ ViewsTrue(z, rep) /\ Named(z) /\ Engaged(z, rep, now)

ZoneInv(z, rep, now) == ZoneBase(z, rep, now) /\ PersonUp(z, rep, now)

\* updateJunctionLevelsLocked touches the two levels and the entry pulse only.
LEMMA UpdateFields ==
    ASSUME NEW z \in Zones, NEW now \in Nat
    PROVE  LET u == UpdateLevels(z, now)
               since == IF RawPerson(z, now) THEN 0 ELSE IF z.personVacant = 0 THEN now ELSE z.personVacant
           IN  /\ u \in Zones
               /\ u.view = z.view /\ u.tripwire = z.tripwire /\ u.engaged = z.engaged
               /\ u.forkliftRecord = z.forkliftRecord /\ u.personRecord = z.personRecord
               /\ u.person = (RawPerson(z, now) \/ (z.person /\ now - since < Debounce))
               /\ u.forklift => RawForklift(z, now) \/ z.forklift
               /\ u.entry = z.entry \/ (u.entry = now /\ RawForklift(z, now))
<1> DEFINE rp == RawPerson(z, now)
           rf == RawForklift(z, now)
           ps == IF rp THEN 0 ELSE IF z.personVacant = 0 THEN now ELSE z.personVacant
           fs == IF rf THEN 0 ELSE IF z.forkliftVacant = 0 THEN now ELSE z.forkliftVacant
           pl == rp \/ (z.person /\ now - ps < Debounce)
           fl == rf \/ (z.forklift /\ now - fs < Debounce)
           entry == IF rf /\ ~z.forklift THEN now ELSE z.entry
<1>1. rp \in BOOLEAN /\ rf \in BOOLEAN
  BY Zenon DEF RawPerson, RawForklift
<1>2. UpdateLevels(z, now) = [z EXCEPT !.person = pl, !.personVacant = ps, !.forklift = fl,
                                       !.forkliftVacant = fs, !.entry = entry]
  BY Zenon DEF UpdateLevels, Level, Zones
<1> HIDE DEF rp, rf
<1>3. ps \in Nat /\ fs \in Nat /\ entry \in Nat /\ pl \in BOOLEAN /\ fl \in BOOLEAN
  BY <1>1, Zenon DEF Zones
<1>4. entry = z.entry \/ (entry = now /\ rf)
  BY Zenon
<1>5. fl => rf \/ z.forklift
  BY Zenon
<1> HIDE DEF entry, fl
<1> DEFINE plv == pl
           psv == ps
<1>6. plv = (rp \/ (z.person /\ now - psv < Debounce))
  BY Zenon
<1> HIDE DEF plv, psv
<1> QED BY <1>1, <1>2, <1>3, <1>4, <1>5, <1>6, ZenonT(40) DEF Zones, rp, rf, plv, psv

LEMMA UpdateInv ==
    ASSUME NEW z, NEW rep, NEW now, ZoneBase(z, rep, now)
    PROVE  ZoneInv(UpdateLevels(z, now), rep, now)
<1> DEFINE u == UpdateLevels(z, now)
<1>1. z \in Zones /\ now \in Nat \ {0} /\ rep \in [ReportKeys -> Nat]
  BY Zenon DEF ZoneBase, ZoneTyped
<1>2. /\ u \in Zones
      /\ u.view = z.view /\ u.tripwire = z.tripwire /\ u.engaged = z.engaged
      /\ u.forkliftRecord = z.forkliftRecord /\ u.personRecord = z.personRecord
      /\ u.person => RawPerson(z, now) \/ z.person
      /\ RawPerson(z, now) => u.person
      /\ u.forklift => RawForklift(z, now) \/ z.forklift
      /\ u.entry = z.entry \/ (u.entry = now /\ RawForklift(z, now))
  BY <1>1, UpdateFields, Zenon
<1> HIDE DEF u
<1>3. ZoneTyped(u, rep, now)
  BY <1>2 DEF ZoneBase, ZoneTyped
<1>4. ViewsTrue(u, rep) /\ Engaged(u, rep, now)
  BY <1>2, Zenon DEF ZoneBase, ViewsTrue, Engaged
<1>5. Named(u)
  BY <1>2, Zenon DEF ZoneBase, Named, RawPerson, RawForklift
<1>6. PersonUp(u, rep, now)
  <2> SUFFICES ASSUME NEW c \in Cameras, Fresh(rep[<<c, "PERSON_IN">>], now, PersonHold),
                      rep[<<c, "PERSON_IN">>] > rep[<<c, "PERSON_OUT">>]
               PROVE  RawPerson(z, now)
    BY <1>2, Zenon DEF PersonUp
  <2>1. z.view[c].person /\ z.view[c].personAt = rep[<<c, "PERSON_IN">>]
    BY Zenon DEF ZoneBase, ViewsTrue
  <2> QED BY <2>1, Zenon DEF RawPerson
<1> QED BY <1>3, <1>4, <1>5, <1>6, Zenon DEF ZoneInv, ZoneBase, u

\* The reports after one more event.
Reported(rep, ev, now) == [k \in ReportKeys |-> IF k = <<ev.sensor, ev.kind>> THEN now ELSE rep[k]]

LEMMA IngestInv ==
    ASSUME NEW z, NEW rep, NEW now, NEW ev, ZoneBase(z, rep, now),
           ev.kind \in JunctionKinds, ev.sensor \in Cameras, ev.object \in Objects \ {Nobody}
    PROVE  ZoneInv(Ingest(z, ev, now), Reported(rep, ev, now), now)
<1> DEFINE c == ev.sensor
           next == Reported(rep, ev, now)
           view(v) == [z.view EXCEPT ![c] = v]
<1>1. z \in Zones /\ now \in Nat \ {0} /\ rep \in [ReportKeys -> Nat] /\ z.view \in [Cameras -> Views]
  BY Zenon DEF ZoneBase, ZoneTyped, Zones
<1>2. z.view[c] \in Views
  BY <1>1, Zenon
<1>3. ASSUME NEW y, ZoneBase(y, next, now), Ingest(z, ev, now) = UpdateLevels(y, now)
      PROVE  ZoneInv(Ingest(z, ev, now), next, now)
  BY <1>3, UpdateInv, Zenon
<1>4. next \in [ReportKeys -> Nat] /\ \A k \in ReportKeys : next[k] <= now
  BY <1>1 DEF Reported, ZoneBase, ZoneTyped
<1>5. \A k \in ReportKeys : next[k] = IF k = <<ev.sensor, ev.kind>> THEN now ELSE rep[k]
  BY Zenon DEF Reported
<1>6. \A d \in Cameras : /\ <<d, "TRIPWIRE">> \in ReportKeys /\ <<d, "PERSON_IN">> \in ReportKeys
                         /\ <<d, "PERSON_OUT">> \in ReportKeys
  BY Zenon DEF ReportKeys
<1>reports. ASSUME NEW d \in Cameras
      PROVE  /\ next[<<d, "TRIPWIRE">>] = IF d = c /\ ev.kind = "TRIPWIRE" THEN now ELSE rep[<<d, "TRIPWIRE">>]
             /\ next[<<d, "PERSON_IN">>] = IF d = c /\ ev.kind = "PERSON_IN" THEN now ELSE rep[<<d, "PERSON_IN">>]
             /\ next[<<d, "PERSON_OUT">>] = IF d = c /\ ev.kind = "PERSON_OUT" THEN now ELSE rep[<<d, "PERSON_OUT">>]
             /\ rep[<<d, "TRIPWIRE">>] \in 0..now /\ rep[<<d, "PERSON_IN">>] \in 0..now
             /\ rep[<<d, "PERSON_OUT">>] \in 0..now
  BY <1>1, <1>5, <1>6 DEF ZoneBase, ZoneTyped
<1> HIDE DEF next
<1>7. CASE ev.kind = "TRIPWIRE"
  <2> DEFINE y == [z EXCEPT !.tripwire = now, !.engaged = TRUE, !.forkliftRecord = ev.object]
  <2>1. Ingest(z, ev, now) = UpdateLevels(y, now)
    BY <1>7, Zenon DEF Ingest
  <2>2. /\ y \in Zones /\ y.tripwire = now /\ y.engaged = TRUE /\ y.forkliftRecord = ev.object
        /\ y.view = z.view /\ y.entry = z.entry /\ y.person = z.person /\ y.personRecord = z.personRecord
    BY <1>1, Zenon DEF Zones
  <2> HIDE DEF y
  <2>3. ZoneTyped(y, next, now)
    BY <2>2, <1>1, <1>4 DEF ZoneBase, ZoneTyped
  <2>4. ViewsTrue(y, next) /\ Engaged(y, next, now)
    BY <2>2, <1>1, <1>reports, <1>7 DEF ZoneBase, ViewsTrue, Engaged
  <2>5. Named(y)
    BY <2>2, Zenon DEF ZoneBase, Named
  <2> QED BY <1>3, <2>1, <2>3, <2>4, <2>5, Zenon DEF ZoneBase, y, next
<1>8. CASE ev.kind = "PERSON_IN"
  <2> DEFINE v == [z.view[c] EXCEPT !.person = TRUE, !.personAt = now]
             y == [z EXCEPT !.view = view(v), !.personRecord = ev.object]
  <2>1. Ingest(z, ev, now) = UpdateLevels(y, now)
    BY <1>8, <1>1, <1>2, Zenon DEF Ingest, Zones, Views
  <2>2. v \in Views /\ v.person = TRUE /\ v.personAt = now /\ v.forklift = z.view[c].forklift
    BY <1>1, <1>2, Zenon DEF Views
  <2> HIDE DEF v
  <2>3. /\ y \in Zones /\ y.tripwire = z.tripwire /\ y.engaged = z.engaged
        /\ y.forkliftRecord = z.forkliftRecord /\ y.forklift = z.forklift
        /\ y.view = view(v) /\ y.entry = z.entry /\ y.person = z.person /\ y.personRecord = ev.object
    BY <1>1, <2>2, Zenon DEF Zones
  <2>4. \A d \in Cameras : y.view[d] = IF d = c THEN v ELSE z.view[d]
    BY <2>3, <1>1, Zenon
  <2> HIDE DEF y
  <2>5. ZoneTyped(y, next, now)
    BY <2>3, <1>1, <1>4, Zenon DEF ZoneBase, ZoneTyped
  <2>6. ViewsTrue(y, next) /\ Engaged(y, next, now)
    <3>1. ASSUME NEW d \in Cameras
          PROVE  /\ next[<<d, "PERSON_IN">>] > next[<<d, "PERSON_OUT">>] => y.view[d].person
                 /\ y.view[d].person => y.view[d].personAt = next[<<d, "PERSON_IN">>]
                 /\ next[<<d, "TRIPWIRE">>] <= y.tripwire
      <4>1. CASE d = c
        BY <4>1, <2>2, <2>3, <2>4, <1>1, <1>reports, <1>8 DEF ZoneBase, ViewsTrue
      <4>2. CASE d # c
        BY <4>2, <2>2, <2>3, <2>4, <1>1, <1>reports, <1>8 DEF ZoneBase, ViewsTrue
      <4> QED BY <4>1, <4>2, Zenon
    <3>2. Engaged(y, next, now)
      BY <2>3, <1>reports, <1>8, Zenon DEF ZoneBase, Engaged
    <3> QED BY <3>1, <3>2, Zenon DEF ViewsTrue
  <2>7. Named(y)
    BY <2>2, <2>3, <2>4, Zenon DEF ZoneBase, Named
  <2> QED BY <1>3, <2>1, <2>5, <2>6, <2>7, Zenon DEF ZoneBase, y, next
<1>9. CASE ev.kind = "PERSON_OUT"
  <2> DEFINE v == [z.view[c] EXCEPT !.person = FALSE, !.personAt = now]
             y == [z EXCEPT !.view = view(v)]
  <2>1. Ingest(z, ev, now) = UpdateLevels(y, now)
    BY <1>9, <1>1, <1>2, Zenon DEF Ingest, Zones, Views
  <2>2. v \in Views /\ v.person = FALSE /\ v.forklift = z.view[c].forklift
    BY <1>1, <1>2, Zenon DEF Views
  <2> HIDE DEF v
  <2>3. /\ y \in Zones /\ y.tripwire = z.tripwire /\ y.engaged = z.engaged
        /\ y.forkliftRecord = z.forkliftRecord /\ y.forklift = z.forklift
        /\ y.view = view(v) /\ y.entry = z.entry /\ y.person = z.person /\ y.personRecord = z.personRecord
    BY <1>1, <2>2, Zenon DEF Zones
  <2>4. \A d \in Cameras : y.view[d] = IF d = c THEN v ELSE z.view[d]
    BY <2>3, <1>1
  <2> HIDE DEF y
  <2>5. ZoneTyped(y, next, now)
    BY <2>3, <1>1, <1>4, Zenon DEF ZoneBase, ZoneTyped
  <2>6. ViewsTrue(y, next) /\ Engaged(y, next, now)
    <3>1. ASSUME NEW d \in Cameras
          PROVE  /\ next[<<d, "PERSON_IN">>] > next[<<d, "PERSON_OUT">>] => y.view[d].person
                 /\ y.view[d].person => y.view[d].personAt = next[<<d, "PERSON_IN">>]
                 /\ next[<<d, "TRIPWIRE">>] <= y.tripwire
      <4>1. CASE d = c
        BY <4>1, <2>2, <2>3, <2>4, <1>1, <1>reports, <1>9 DEF ZoneBase, ViewsTrue
      <4>2. CASE d # c
        BY <4>2, <2>2, <2>3, <2>4, <1>1, <1>reports, <1>9 DEF ZoneBase, ViewsTrue
      <4> QED BY <4>1, <4>2, Zenon
    <3>2. Engaged(y, next, now)
      BY <2>3, <1>reports, <1>9, Zenon DEF ZoneBase, Engaged
    <3> QED BY <3>1, <3>2, Zenon DEF ViewsTrue
  <2>7. Named(y)
    BY <2>2, <2>3, <2>4, Zenon DEF ZoneBase, Named
  <2> QED BY <1>3, <2>1, <2>5, <2>6, <2>7, Zenon DEF ZoneBase, y, next
<1>10. CASE ev.kind \in {"FORKLIFT_IN", "FORKLIFT_OUT"}
  <2> DEFINE in == ev.kind = "FORKLIFT_IN"
             v == [z.view[c] EXCEPT !.forklift = in, !.forkliftAt = now]
             object == IF in THEN ev.object ELSE z.forkliftRecord
             y == [z EXCEPT !.view = view(v), !.forkliftRecord = object]
  <2>1. Ingest(z, ev, now) = UpdateLevels(y, now)
    <3>1. CASE in
      BY <3>1, <1>1, <1>2, Zenon DEF Ingest, Zones, Views
    <3>2. CASE ~in
      BY <3>2, <1>10, <1>1, <1>2, Zenon DEF Ingest, Zones, Views
    <3> QED BY <3>1, <3>2, Zenon
  <2>2. /\ v \in Views /\ v.forklift = in /\ v.person = z.view[c].person
        /\ v.personAt = z.view[c].personAt
    BY <1>1, <1>2, Zenon DEF Views
  <2>3. object \in Objects /\ (in => object # Nobody) /\ (~in => object = z.forkliftRecord)
    BY <1>1, Zenon DEF Zones
  <2> HIDE DEF v, object
  <2>4. /\ y \in Zones /\ y.tripwire = z.tripwire /\ y.engaged = z.engaged
        /\ y.forkliftRecord = object /\ y.forklift = z.forklift
        /\ y.view = view(v) /\ y.entry = z.entry /\ y.person = z.person /\ y.personRecord = z.personRecord
    BY <1>1, <2>2, <2>3, Zenon DEF Zones
  <2>5. \A d \in Cameras : y.view[d] = IF d = c THEN v ELSE z.view[d]
    BY <2>4, <1>1, Zenon
  <2> HIDE DEF y
  <2>6. \A k \in ReportKeys : next[k] = rep[k]
    BY <1>5, <1>10 DEF ReportKeys
  <2>7. ZoneTyped(y, next, now)
    BY <2>4, <1>1, <1>4, Zenon DEF ZoneBase, ZoneTyped
  <2>8. ViewsTrue(y, next) /\ Engaged(y, next, now)
    <3>1. ASSUME NEW d \in Cameras
          PROVE  /\ y.view[d].person = z.view[d].person /\ y.view[d].personAt = z.view[d].personAt
                 /\ next[<<d, "PERSON_IN">>] = rep[<<d, "PERSON_IN">>]
                 /\ next[<<d, "PERSON_OUT">>] = rep[<<d, "PERSON_OUT">>]
                 /\ next[<<d, "TRIPWIRE">>] = rep[<<d, "TRIPWIRE">>]
      BY <2>2, <2>5, <2>6, <1>6, Zenon
    <3> QED BY <2>4, <3>1, Zenon DEF ZoneBase, ViewsTrue, Engaged
  <2>9. Named(y)
    BY <2>2, <2>3, <2>4, <2>5, Zenon DEF ZoneBase, Named
  <2> QED BY <1>3, <2>1, <2>7, <2>8, <2>9, Zenon DEF ZoneBase, y, next
<1> QED BY <1>7, <1>8, <1>9, <1>10, Zenon DEF JunctionKinds, next

LEMMA EvaluateInv ==
    ASSUME NEW z, NEW rep, NEW now, ZoneBase(z, rep, now)
    PROVE  ZoneInv(Evaluate(z, now), rep, now)
<1> DEFINE u == UpdateLevels(z, now)
           e == u.engaged /\ Verdict(u, now).a1
           y == [u EXCEPT !.engaged = e]
<1>1. ZoneInv(u, rep, now)
  BY UpdateInv, Zenon
<1> HIDE DEF u
<1>2. Evaluate(z, now) = y
  BY <1>1, Zenon DEF Evaluate, u, ZoneInv, ZoneBase, ZoneTyped, Zones
<1>3. u \in Zones /\ now \in Nat \ {0} /\ rep \in [ReportKeys -> Nat] /\ u.tripwire \in Nat
  BY <1>1, Zenon DEF ZoneInv, ZoneBase, ZoneTyped, Zones
<1>4. e \in BOOLEAN /\ (e => u.engaged)
  BY <1>3, Zenon DEF Zones
<1>5. Engaged(u, rep, now) => ((\E c \in Cameras : Fresh(rep[<<c, "TRIPWIRE">>], now, EngageWindow)) => e)
  <2> SUFFICES ASSUME NEW c \in Cameras, Fresh(rep[<<c, "TRIPWIRE">>], now, EngageWindow),
                      Engaged(u, rep, now)
               PROVE  e
    BY Zenon
  <2>1. u.engaged
    BY Zenon DEF Engaged
  <2>2. rep[<<c, "TRIPWIRE">>] <= u.tripwire /\ rep[<<c, "TRIPWIRE">>] \in Nat
    BY <1>1, <1>3, Zenon DEF ZoneInv, ZoneBase, ViewsTrue, ReportKeys
  <2>3. Fresh(u.tripwire, now, EngageWindow)
    BY <2>2, <1>3, JunctionAssumption DEF Fresh
  <2> QED BY <2>1, <2>3, Zenon DEF Verdict
<1> HIDE DEF e
<1>6. /\ y \in Zones /\ y.engaged = e /\ y.view = u.view /\ y.tripwire = u.tripwire /\ y.entry = u.entry
      /\ y.person = u.person /\ y.forklift = u.forklift
      /\ y.personRecord = u.personRecord /\ y.forkliftRecord = u.forkliftRecord
  BY <1>3, <1>4, Zenon DEF Zones
<1> HIDE DEF y
<1>7. ZoneTyped(y, rep, now) /\ ViewsTrue(y, rep) /\ PersonUp(y, rep, now)
  BY <1>1, <1>6, Zenon DEF ZoneInv, ZoneBase, ZoneTyped, ViewsTrue, PersonUp
<1>8. Named(y)
  BY <1>1, <1>4, <1>6, Zenon DEF ZoneInv, ZoneBase, Named
<1>9. Engaged(y, rep, now)
  BY <1>1, <1>5, <1>6, Zenon DEF ZoneInv, ZoneBase, Engaged
<1> QED BY <1>2, <1>7, <1>8, <1>9, Zenon DEF ZoneInv, ZoneBase

\* computeJunctionCommandFromBatch takes the events in one after the other.
LEMMA IngestUnfold ==
    ASSUME NEW start, NEW r, NEW now, Len(r.evs) \in Nat
    PROVE  LET z == IngestAll(start, r, now)
           IN  /\ z[0] = start
               /\ \A i \in 1..Len(r.evs) :
                    z[i] = IF i \in JunctionEvents(r) THEN Ingest(z[i - 1], r.evs[i], now) ELSE z[i - 1]
<1> DEFINE n == Len(r.evs)
           One(y, i) == IF i \in JunctionEvents(r) THEN Ingest(y, r.evs[i], now) ELSE y
           Run(f, m) == f = [i \in 0..m |-> IF i = 0 THEN start ELSE One(f[i - 1], i)]
           T == {m \in 0..n : ~ \E f : Run(f, m)}
<1>1. IngestAll(start, r, now) = CHOOSE f : Run(f, n)
  BY Zenon DEF IngestAll
<1> HIDE DEF One
<1>2. T = {}
  <2> SUFFICES ASSUME T # {} PROVE FALSE
    BY Zenon
  <2>1. PICK x \in T : \A y \in T : x <= y
    <3>1. T \subseteq Nat
      OBVIOUS
    <3> HIDE DEF T
    <3> QED BY <3>1, LeastNat, Zenon
  <2>2. x # 0
    <3> DEFINE f == [i \in 0..0 |-> start]
    <3>1. Run(f, 0)
      OBVIOUS
    <3> QED BY <3>1, Zenon
  <2>3. x \in Nat /\ x - 1 \in 0..n /\ x - 1 \notin T
    <3>1. T \subseteq 0..n
      BY Zenon
    <3> HIDE DEF T
    <3> QED BY <2>1, <2>2, <3>1
  <2>4. PICK f : Run(f, x - 1)
    BY <2>3, Zenon
  <2> DEFINE g == [i \in 0..x |-> IF i < x THEN f[i] ELSE One(f[x - 1], x)]
  <2>5. \A i \in 0..x : g[i] = IF i = 0 THEN start ELSE One(g[i - 1], i)
    BY <2>2, <2>3, <2>4, SMTT(40)
  <2>6. Run(g, x)
    BY <2>5, Zenon
  <2> QED BY <2>6, Zenon
<1>3. \E f : Run(f, n)
  BY <1>2
<1> DEFINE z == IngestAll(start, r, now)
<1>4. Run(z, n)
  BY <1>1, <1>3, Zenon
<1> HIDE DEF z
<1>5. z[0] = start /\ \A i \in 1..n : z[i] = One(z[i - 1], i)
  <2>1. \A i \in 0..n : z[i] = IF i = 0 THEN start ELSE One(z[i - 1], i)
    BY <1>4, Zenon
  <2> QED BY <2>1
<1> QED BY <1>5, Zenon DEF One, z

\* A whole batch.
LEMMA BatchInv ==
    ASSUME NEW z, NEW rep, NEW now, NEW r, JunctionBatch(r), ZoneInv(z, rep, now)
    PROVE  ZoneInv(IngestAll(z, r, now)[Len(r.evs)],
                   [k \in ReportKeys |->
                      IF \E i \in JunctionEvents(r) : r.evs[i].sensor = k[1] /\ r.evs[i].kind = k[2]
                      THEN now ELSE rep[k]],
                   now)
<1> DEFINE n == Len(r.evs)
           J == JunctionEvents(r)
           y == IngestAll(z, r, now)
           told(k, i) == \E j \in J : j <= i /\ r.evs[j].sensor = k[1] /\ r.evs[j].kind = k[2]
           at(i) == [k \in ReportKeys |-> IF told(k, i) THEN now ELSE rep[k]]
           Good(i) == ZoneInv(y[i], at(i), now)
           T == {i \in 0..n : ~Good(i)}
<1>1. n \in Nat
  BY Zenon DEF JunctionBatch
<1>2. y[0] = z /\ \A i \in 1..n : y[i] = IF i \in J THEN Ingest(y[i - 1], r.evs[i], now) ELSE y[i - 1]
  BY <1>1, IngestUnfold
<1>3. J \subseteq 1..n
  BY Zenon DEF JunctionEvents
<1>4. \A i \in J : /\ r.evs[i].kind \in JunctionKinds /\ r.evs[i].sensor \in Cameras
                   /\ r.evs[i].object \in Objects \ {Nobody}
  BY Zenon DEF JunctionBatch
<1>5. rep \in [ReportKeys -> Nat]
  BY Zenon DEF ZoneInv, ZoneBase, ZoneTyped
<1> HIDE DEF y, J, n
<1>6. at(0) = rep
  <2>1. \A k : ~told(k, 0)
    <3>1. \A j \in J : ~ (j <= 0)
      <4>1. \A j \in 1..n : ~ (j <= 0)
        OBVIOUS
      <4> QED BY <4>1, <1>3, Zenon
    <3> QED BY <3>1, Zenon
  <2> QED BY <2>1, <1>5, Zenon
<1>7. ASSUME NEW x \in 1..n, x \notin J PROVE at(x) = at(x - 1)
  <2>1. \A k \in ReportKeys : told(k, x) <=> told(k, x - 1)
    <3>1. \A j \in 1..n : j # x => (j <= x <=> j <= x - 1)
      BY <1>1
    <3>2. \A j \in J : j <= x <=> j <= x - 1
      BY <3>1, <1>3, <1>7, Zenon
    <3> QED BY <3>2, Zenon
  <2> QED BY <2>1, Zenon
<1>8. ASSUME NEW x \in 1..n, x \in J PROVE at(x) = Reported(at(x - 1), r.evs[x], now)
  <2>1. \A k \in ReportKeys : told(k, x) <=> told(k, x - 1) \/ k = <<r.evs[x].sensor, r.evs[x].kind>>
    <3>1. \A j \in 1..n : j <= x <=> j <= x - 1 \/ j = x
      BY <1>1
    <3>2. \A j \in J : j <= x <=> j <= x - 1 \/ j = x
      BY <3>1, <1>3, Zenon
    <3> HIDE DEF T
    <3>3. \A k \in ReportKeys : r.evs[x].sensor = k[1] /\ r.evs[x].kind = k[2] <=> k = <<r.evs[x].sensor, r.evs[x].kind>>
      BY DEF ReportKeys
    <3> QED BY <3>2, <3>3, <1>8, Zenon
  <2> DEFINE old == at(x - 1)
  <2>2. \A k \in ReportKeys : old[k] = IF told(k, x - 1) THEN now ELSE rep[k]
    BY Zenon
  <2> HIDE DEF told, old
  <2>3. Reported(old, r.evs[x], now) =
          [k \in ReportKeys |-> IF k = <<r.evs[x].sensor, r.evs[x].kind>> THEN now ELSE old[k]]
    BY Zenon DEF Reported
  <2>4. \A k \in ReportKeys : (IF told(k, x) THEN now ELSE rep[k])
                              = IF k = <<r.evs[x].sensor, r.evs[x].kind>> THEN now ELSE old[k]
    BY <2>1, <2>2, Zenon
  <2>5. at(x) = Reported(old, r.evs[x], now)
    BY <2>3, <2>4, Zenon
  <2> QED BY <2>5, Zenon DEF old
<1> HIDE DEF at
<1>9. T = {}
  <2> SUFFICES ASSUME T # {} PROVE FALSE
    BY Zenon
  <2>1. PICK x \in T : \A j \in T : x <= j
    <3>1. T \subseteq Nat
      BY <1>1
    <3> HIDE DEF T
    <3> QED BY <3>1, LeastNat, Zenon
  <2>2. x # 0
    BY <1>2, <1>6, Zenon
  <2>3. x \in 1..n /\ x - 1 \in 0..n /\ x - 1 \notin T
    BY <1>1, <2>1, <2>2
  <2>4. Good(x - 1)
    BY <2>3, Zenon
  <2>5. CASE x \in J
    BY <1>2, <1>4, <1>8, <2>3, <2>4, <2>5, IngestInv DEF ZoneInv
  <2>6. CASE x \notin J
    BY <1>2, <1>7, <2>3, <2>4, <2>6, Zenon
  <2> QED BY <2>1, <2>5, <2>6, Zenon
<1>10. Good(n)
  BY <1>1, <1>9
<1>11. at(n) = [k \in ReportKeys |->
                  IF \E i \in J : r.evs[i].sensor = k[1] /\ r.evs[i].kind = k[2] THEN now ELSE rep[k]]
  <2>1. \A k \in ReportKeys : told(k, n) <=> \E i \in J : r.evs[i].sensor = k[1] /\ r.evs[i].kind = k[2]
    <3>1. \A j \in 1..n : j <= n
      BY <1>1
    <3>2. \A j \in J : j <= n
      BY <3>1, <1>3, Zenon
    <3> QED BY <3>2, Zenon
  <2> QED BY <2>1, Zenon DEF at
<1> QED BY <1>10, <1>11, Zenon DEF y, J, n

-----------------------------------------------------------------------------
(* The pair table of AtlProximitySdm.                                       *)

Tables == [Slots -> Entries \cup {NoEntry}]

\* A pair has one entry; no entry is from the future.
TableTyped(t, now) ==
    /\ t \in Tables /\ now \in 1..LastMoment
    /\ \A i \in Slots : t[i] # NoEntry => t[i].at <= now
    /\ \A i, j \in Slots : t[i] # NoEntry /\ t[j] # NoEntry /\ t[i].key = t[j].key => i = j

\* An entry is its pair's newest observation.
EntriesNewest(t, known) ==
    \A i \in Slots : t[i] # NoEntry =>
        /\ t[i].key \in DOMAIN known
        /\ known[t[i].key].tier = t[i].tier /\ known[t[i].key].at = t[i].at

\* No pair that is still live is missing.
Complete(t, known, now) ==
    \A k \in DOMAIN known : ~Expired(known[k].at, now) => \E i \in Slots : t[i] # NoEntry /\ t[i].key = k

KnownTyped(known, now) ==
    \A k \in DOMAIN known : known[k].tier \in 1..3 /\ known[k].at \in 1..now

LEMMA NoEntryApart == NoEntry \notin Entries
  BY PairAssumption, Zenon

LEMMA ReclaimFacts ==
    ASSUME NEW t, NEW now, TableTyped(t, now)
    PROVE  LET r == Reclaim(t, now)
           IN  /\ TableTyped(r, now)
               /\ \A i \in Slots : r[i] # NoEntry <=> t[i] # NoEntry /\ ~Expired(t[i].at, now)
               /\ \A i \in Slots : r[i] # NoEntry => r[i] = t[i]
<1> DEFINE r == Reclaim(t, now)
<1>1. \A i \in Slots : r[i] = IF t[i] # NoEntry /\ Expired(t[i].at, now) THEN NoEntry ELSE t[i]
  BY Zenon DEF Reclaim
<1>2. r \in Tables
  <2>1. \A i \in Slots : (IF t[i] # NoEntry /\ Expired(t[i].at, now) THEN NoEntry ELSE t[i]) \in Entries \cup {NoEntry}
    BY Zenon DEF TableTyped, Tables
  <2> QED BY <2>1, Zenon DEF Reclaim, Tables
<1> HIDE DEF r
<1>3. \A i \in Slots : r[i] # NoEntry => r[i] = t[i]
  BY <1>1, Zenon
<1>4. \A i \in Slots : r[i] # NoEntry <=> t[i] # NoEntry /\ ~Expired(t[i].at, now)
  BY <1>1, Zenon
<1>5. TableTyped(r, now)
  BY <1>2, <1>3, Zenon DEF TableTyped
<1> QED BY <1>3, <1>4, <1>5, Zenon DEF r

\* There is a least severe and oldest entry in a table that is full.
LEMMA WeakestIs ==
    ASSUME NEW t \in Tables, \A i \in Slots : t[i] # NoEntry
    PROVE  LET w == CHOOSE i \in Slots : \A j \in Slots :
                       \/ t[i].tier < t[j].tier
                       \/ t[i].tier = t[j].tier /\ t[i].at < t[j].at
                       \/ t[i].tier = t[j].tier /\ t[i].at = t[j].at /\ i <= j
           IN  w \in Slots /\ \A j \in Slots : t[w].tier <= t[j].tier
<1> DEFINE Less(i, j) == \/ t[i].tier < t[j].tier
                         \/ t[i].tier = t[j].tier /\ t[i].at < t[j].at
                         \/ t[i].tier = t[j].tier /\ t[i].at = t[j].at /\ i <= j
           Least(i) == \A j \in Slots : Less(i, j)
           w == CHOOSE i \in Slots : Least(i)
<1>1. \A i \in Slots : t[i].tier \in Nat /\ t[i].at \in Nat
  BY DEF Tables, Entries
<1>2. Slots \subseteq Nat /\ Slots # {}
  BY PairAssumption DEF Slots
<1>3. \E i \in Slots : Least(i)
  <2> DEFINE A == {t[i].tier : i \in Slots}
  <2>1. PICK a \in A : \A x \in A : a <= x
    <3>1. A \subseteq Nat /\ A # {}
      BY <1>1, <1>2, Zenon
    <3> HIDE DEF A
    <3> QED BY <3>1, LeastNat, Zenon
  <2> DEFINE S == {i \in Slots : t[i].tier = a}
             B == {t[i].at : i \in S}
  <2>2. S # {}
    BY <2>1, Zenon
  <2>3. PICK b \in B : \A x \in B : b <= x
    <3>1. B \subseteq Nat /\ B # {}
      BY <1>1, <2>2, Zenon
    <3> HIDE DEF B
    <3> QED BY <3>1, LeastNat, Zenon
  <2> DEFINE C == {i \in S : t[i].at = b}
  <2>4. PICK c \in C : \A x \in C : c <= x
    <3>1. C \subseteq Nat /\ C # {}
      BY <1>2, <2>3, Zenon
    <3> HIDE DEF C
    <3> QED BY <3>1, LeastNat, Zenon
  <2>5. c \in Slots /\ t[c].tier = a /\ t[c].at = b
    BY <2>4, Zenon
  <2>6. ASSUME NEW j \in Slots PROVE Less(c, j)
    <3>1. a <= t[j].tier
      BY <2>1, Zenon
    <3>2. t[j].tier = a => b <= t[j].at
      BY <2>3, Zenon
    <3>3. t[j].tier = a /\ t[j].at = b => c <= j
      BY <2>4, Zenon
    <3> QED BY <1>1, <1>2, <2>5, <3>1, <3>2, <3>3
  <2> QED BY <2>5, <2>6, Zenon
<1>4. w \in Slots /\ Least(w)
  <2> HIDE DEF Least
  <2> QED BY <1>3, Zenon
<1>5. \A j \in Slots : t[w].tier <= t[j].tier
  <2> HIDE DEF w
  <2> QED BY <1>1, <1>4
<1> QED BY <1>4, <1>5, Zenon

\* AtlPxcPairFusionObserve: the observation takes one slot, its own, a free one or the
\* weakest; or the table is full of pairs at least as severe.
LEMMA ObserveFacts ==
    ASSUME NEW t, NEW now, TableTyped(t, now), NEW key \in PairKeys, NEW tier \in 1..3
    PROVE  LET r == Reclaim(t, now)
               o == Observe(t, key, tier, now)
               new == [key |-> key, tier |-> tier, at |-> now]
           IN  \/ \E s \in Slots :
                    /\ o = [r EXCEPT ![s] = new]
                    /\ \A j \in Slots : j # s /\ r[j] # NoEntry => r[j].key # key
                    /\ \/ r[s] = NoEntry
                       \/ r[s].key = key
                       \/ \A j \in Slots : r[j] # NoEntry /\ r[j].key # key /\ r[s].tier <= r[j].tier
                            /\ r[s].tier < tier
               \/ /\ o = r
                  /\ \A j \in Slots : r[j] # NoEntry /\ r[j].key # key /\ tier <= r[j].tier
<1> DEFINE r == Reclaim(t, now)
           o == Observe(t, key, tier, now)
           new == [key |-> key, tier |-> tier, at |-> now]
           same == {i \in Slots : r[i] # NoEntry /\ r[i].key = key}
           free == {i \in Slots : r[i] = NoEntry}
           w == CHOOSE i \in Slots : \A j \in Slots :
                       \/ r[i].tier < r[j].tier
                       \/ r[i].tier = r[j].tier /\ r[i].at < r[j].at
                       \/ r[i].tier = r[j].tier /\ r[i].at = r[j].at /\ i <= j
           s1 == CHOOSE i \in same : TRUE
           s2 == CHOOSE i \in free : \A j \in free : i <= j
<1>1. o = IF same # {} THEN [r EXCEPT ![s1] = new]
          ELSE IF free # {} THEN [r EXCEPT ![s2] = new]
          ELSE IF tier > r[w].tier THEN [r EXCEPT ![w] = new]
          ELSE r
  BY Zenon DEF Observe
<1>2. TableTyped(r, now)
  BY ReclaimFacts, Zenon
<1> HIDE DEF r, o, new
<1>3. CASE same # {}
  <2>1. s1 \in same
    BY <1>3, Zenon
  <2> HIDE DEF s1
  <2>2. \A j \in Slots : j # s1 /\ r[j] # NoEntry => r[j].key # key
    BY <1>2, <2>1, Zenon DEF TableTyped
  <2>3. o = [r EXCEPT ![s1] = new]
    BY <1>1, <1>3, Zenon
  <2> QED BY <2>1, <2>2, <2>3, Zenon DEF r, o, new
<1>4. CASE same = {} /\ free # {}
  <2>1. free \subseteq Nat
    BY PairAssumption DEF Slots
  <2>2. \E i \in free : \A j \in free : i <= j
    <3> HIDE DEF free
    <3> QED BY <1>4, <2>1, LeastNat, Zenon
  <2>3. s2 \in free
    <3> HIDE DEF free
    <3> QED BY <2>2, Zenon
  <2> HIDE DEF s2
  <2>4. o = [r EXCEPT ![s2] = new]
    BY <1>1, <1>4, Zenon
  <2>5. \A j \in Slots : j # s2 /\ r[j] # NoEntry => r[j].key # key
    BY <1>4, Zenon
  <2> QED BY <2>3, <2>4, <2>5, Zenon DEF r, o, new
<1>5. CASE same = {} /\ free = {}
  <2>1. \A j \in Slots : r[j] # NoEntry /\ r[j].key # key
    BY <1>5, Zenon
  <2>2. w \in Slots /\ \A j \in Slots : r[w].tier <= r[j].tier
    BY <1>2, <2>1, WeakestIs, Zenon DEF TableTyped
  <2> HIDE DEF w
  <2>3. \A j \in Slots : r[j].tier \in Nat
    BY <1>2, <2>1 DEF TableTyped, Tables, Entries
  <2>4. CASE tier > r[w].tier
    <3>1. o = [r EXCEPT ![w] = new]
      BY <1>1, <1>5, <2>4, Zenon
    <3> QED BY <2>1, <2>2, <2>3, <2>4, <3>1, Zenon DEF r, o, new
  <2>5. CASE ~(tier > r[w].tier)
    <3>1. o = r
      BY <1>1, <1>5, <2>5, Zenon
    <3>2. \A j \in Slots : tier <= r[j].tier
      BY <2>2, <2>3, <2>5
    <3> QED BY <2>1, <3>1, <3>2, Zenon DEF r, o, new
  <2> QED BY <2>4, <2>5, Zenon
<1> QED BY <1>3, <1>4, <1>5, Zenon

\* foldAtlProximityBatchLocked takes the events one after the other.
LEMMA FoldUnfold ==
    ASSUME NEW table, NEW known, NEW r, NEW now, Len(r.evs) \in Nat
    PROVE  LET f == Fold(table, known, r, now)
           IN  /\ f[0] = [table |-> table, any |-> FALSE, full |-> FALSE, newest |-> known]
               /\ \A i \in 1..Len(r.evs) :
                    f[i] = IF i \in PairEvents(r) THEN FoldEvent(f[i - 1], r.evs[i], now) ELSE f[i - 1]
<1> DEFINE n == Len(r.evs)
           start == [table |-> table, any |-> FALSE, full |-> FALSE, newest |-> known]
           One(y, i) == IF i \in PairEvents(r) THEN FoldEvent(y, r.evs[i], now) ELSE y
           Run(f, m) == f = [i \in 0..m |-> IF i = 0 THEN start ELSE One(f[i - 1], i)]
           T == {m \in 0..n : ~ \E f : Run(f, m)}
<1>1. Fold(table, known, r, now) = CHOOSE f : Run(f, n)
  BY Zenon DEF Fold
<1> HIDE DEF One, start
<1>2. T = {}
  <2> SUFFICES ASSUME T # {} PROVE FALSE
    BY Zenon
  <2>1. PICK x \in T : \A y \in T : x <= y
    <3>1. T \subseteq Nat
      OBVIOUS
    <3> HIDE DEF T
    <3> QED BY <3>1, LeastNat, Zenon
  <2>2. x # 0
    <3> DEFINE f == [i \in 0..0 |-> start]
    <3>1. Run(f, 0)
      OBVIOUS
    <3> QED BY <3>1, Zenon
  <2>3. x \in Nat /\ x - 1 \in 0..n /\ x - 1 \notin T
    <3>1. T \subseteq 0..n
      BY Zenon
    <3> HIDE DEF T
    <3> QED BY <2>1, <2>2, <3>1
  <2>4. PICK f : Run(f, x - 1)
    BY <2>3, Zenon
  <2> DEFINE g == [i \in 0..x |-> IF i < x THEN f[i] ELSE One(f[x - 1], x)]
  <2>5. \A i \in 0..x : g[i] = IF i = 0 THEN start ELSE One(g[i - 1], i)
    BY <2>2, <2>3, <2>4, SMTT(40)
  <2>6. Run(g, x)
    BY <2>5, Zenon
  <2> QED BY <2>6, Zenon
<1>3. \E f : Run(f, n)
  BY <1>2
<1> DEFINE z == Fold(table, known, r, now)
<1>4. Run(z, n)
  BY <1>1, <1>3, Zenon
<1> HIDE DEF z
<1>5. z[0] = start /\ \A i \in 1..n : z[i] = One(z[i - 1], i)
  <2>1. \A i \in 0..n : z[i] = IF i = 0 THEN start ELSE One(z[i - 1], i)
    BY <1>4, Zenon
  <2> QED BY <2>1
<1> QED BY <1>5, Zenon DEF One, start, z

\* What the table knows after some events: complete unless it was full.
Folded(f, refusedBefore, now) ==
    /\ TableTyped(f.table, now) /\ KnownTyped(f.newest, now)
    /\ EntriesNewest(f.table, f.newest)
    /\ ~refusedBefore /\ ~f.full => Complete(f.table, f.newest, now)

\* A table without its expired entries knows as much.
LEMMA ReclaimKnows ==
    ASSUME NEW t, NEW known, NEW now, TableTyped(t, now), EntriesNewest(t, known)
    PROVE  /\ EntriesNewest(Reclaim(t, now), known)
           /\ Complete(t, known, now) => Complete(Reclaim(t, now), known, now)
<1> DEFINE r == Reclaim(t, now)
<1>1. /\ \A i \in Slots : r[i] # NoEntry <=> t[i] # NoEntry /\ ~Expired(t[i].at, now)
      /\ \A i \in Slots : r[i] # NoEntry => r[i] = t[i]
  BY ReclaimFacts, Zenon
<1> HIDE DEF r
<1>2. EntriesNewest(r, known)
  BY <1>1, Zenon DEF EntriesNewest
<1>3. ASSUME Complete(t, known, now) PROVE Complete(r, known, now)
  <2> SUFFICES ASSUME NEW k \in DOMAIN known, ~Expired(known[k].at, now)
               PROVE  \E i \in Slots : r[i] # NoEntry /\ r[i].key = k
    BY Zenon DEF Complete
  <2>1. PICK i \in Slots : t[i] # NoEntry /\ t[i].key = k
    BY <1>3, Zenon DEF Complete
  <2>2. t[i].at = known[k].at
    BY <2>1, Zenon DEF EntriesNewest
  <2> QED BY <1>1, <2>1, <2>2, Zenon
<1> QED BY <1>2, <1>3, Zenon DEF r

LEMMA FoldEventKnows ==
    ASSUME NEW f, NEW before \in BOOLEAN, NEW now, NEW ev, Folded(f, before, now), f.full \in BOOLEAN,
           PairKey(ev.pair) \in PairKeys, PairTier(ev.type) \in 1..3
    PROVE  LET g == FoldEvent(f, ev, now) IN Folded(g, before, now) /\ g.full \in BOOLEAN
<1> DEFINE key == PairKey(ev.pair)
           tier == PairTier(ev.type)
           t == f.table
           r == Reclaim(t, now)
           o == Observe(t, key, tier, now)
           new == [key |-> key, tier |-> tier, at |-> now]
           noRoom == (\A k \in Slots : r[k] # NoEntry) /\ \A k \in Slots : r[k].key # key
           full == f.full \/ noRoom
           known == [k \in DOMAIN f.newest \cup {key} |->
                       IF k = key THEN [tier |-> tier, at |-> now] ELSE f.newest[k]]
           g == FoldEvent(f, ev, now)
<1>1. g.table = o /\ g.full = full /\ g.newest = known
  BY Zenon DEF FoldEvent
<1>2. /\ TableTyped(t, now) /\ TableTyped(r, now) /\ EntriesNewest(r, f.newest)
      /\ Complete(t, f.newest, now) => Complete(r, f.newest, now)
  BY ReclaimFacts, ReclaimKnows, Zenon DEF Folded
<1>3. \/ \E s \in Slots :
           /\ o = [r EXCEPT ![s] = new]
           /\ \A j \in Slots : j # s /\ r[j] # NoEntry => r[j].key # key
           /\ r[s] = NoEntry \/ r[s].key = key \/ noRoom
      \/ o = r /\ noRoom
  <2> HIDE DEF key, tier
  <2>1. key \in PairKeys /\ tier \in 1..3
    BY Zenon DEF key, tier
  <2>2. \/ \E s \in Slots :
             /\ o = [r EXCEPT ![s] = new]
             /\ \A j \in Slots : j # s /\ r[j] # NoEntry => r[j].key # key
             /\ \/ r[s] = NoEntry
                \/ r[s].key = key
                \/ \A j \in Slots : r[j] # NoEntry /\ r[j].key # key /\ r[s].tier <= r[j].tier
                     /\ r[s].tier < tier
        \/ /\ o = r
           /\ \A j \in Slots : r[j] # NoEntry /\ r[j].key # key /\ tier <= r[j].tier
    BY <1>2, <2>1, ObserveFacts, Zenon
  <2> HIDE DEF o, r, new
  <2> QED BY <2>2, Zenon
<1>4. key \in PairKeys /\ tier \in 1..3 /\ now \in 1..LastMoment /\ now \in Nat /\ noRoom \in BOOLEAN
  BY <1>2, PairAssumption, SMTT(30) DEF TableTyped
<1>5. new \in Entries /\ new.key = key /\ new.tier = tier /\ new.at = now /\ new # NoEntry
  BY <1>4, NoEntryApart DEF Entries
<1>6. /\ DOMAIN known = DOMAIN f.newest \cup {key} /\ known[key].tier = tier /\ known[key].at = now
      /\ \A k \in DOMAIN f.newest : k # key => known[k] = f.newest[k]
  BY Zenon
<1> HIDE DEF g, known, new, o, r, t, key, tier, noRoom
<1>7. KnownTyped(known, now)
  BY <1>4, <1>6 DEF KnownTyped, Folded
<1>8. TableTyped(o, now) /\ EntriesNewest(o, known) /\ (~noRoom /\ Complete(r, f.newest, now) => Complete(o, known, now))
  <2>1. CASE o = r /\ noRoom
    <3>1. \A j \in Slots : r[j].key # key
      BY <2>1, Zenon DEF noRoom
    <3> QED BY <1>2, <1>6, <2>1, <3>1, Zenon DEF EntriesNewest
  <2>2. ASSUME NEW s \in Slots, o = [r EXCEPT ![s] = new],
               \A j \in Slots : j # s /\ r[j] # NoEntry => r[j].key # key,
               r[s] = NoEntry \/ r[s].key = key \/ noRoom
        PROVE  TableTyped(o, now) /\ EntriesNewest(o, known)
               /\ (~noRoom /\ Complete(r, f.newest, now) => Complete(o, known, now))
    <3>1. r \in [Slots -> Entries \cup {NoEntry}]
      BY <1>2, Zenon DEF TableTyped, Tables
    <3>2. o \in Tables /\ o[s] = new /\ \A j \in Slots : j # s => o[j] = r[j]
      BY <1>5, <2>2, <3>1, Zenon DEF Tables
    <3>3. TableTyped(o, now)
      BY <1>2, <1>4, <1>5, <2>2, <3>2, SMTT(30) DEF TableTyped
    <3>4. EntriesNewest(o, known)
      BY <1>2, <1>5, <1>6, <2>2, <3>2 DEF EntriesNewest
    <3>5. ASSUME ~noRoom, Complete(r, f.newest, now),
                 NEW k \in DOMAIN known, ~Expired(known[k].at, now)
          PROVE  \E i \in Slots : o[i] # NoEntry /\ o[i].key = k
      <4>1. CASE k = key
        BY <1>5, <3>2, <4>1, Zenon
      <4>2. CASE k # key
        <5>1. PICK i \in Slots : r[i] # NoEntry /\ r[i].key = k
          BY <1>6, <3>5, <4>2, Zenon DEF Complete
        <5>2. i # s
          BY <2>2, <3>5, <4>2, <5>1, Zenon
        <5> QED BY <3>2, <5>1, <5>2, Zenon
      <4> QED BY <4>1, <4>2, Zenon
    <3> QED BY <3>3, <3>4, <3>5, Zenon DEF Complete
  <2> QED BY <1>3, <2>1, <2>2, Zenon
<1>9. g.full \in BOOLEAN /\ (~g.full => ~f.full /\ ~noRoom)
  BY <1>1, <1>4, Zenon
<1>10. Folded(g, before, now)
  <2>1. ~before /\ ~g.full => Complete(o, known, now)
    BY <1>2, <1>8, <1>9, Zenon DEF Folded, t
  <2> QED BY <1>1, <1>7, <1>8, <2>1, Zenon DEF Folded
<1> QED BY <1>9, <1>10, Zenon DEF g

LEMMA PairEventTyped ==
    ASSUME NEW r, PairBatch(r), NEW i \in PairEvents(r)
    PROVE  PairKey(r.evs[i].pair) \in PairKeys /\ PairTier(r.evs[i].type) \in 1..3
<1>1. PairKey(r.evs[i].pair) \in PairKeys
  BY Zenon DEF PairBatch
<1>2. PairTier(r.evs[i].type) \in 1..3
  BY DEF PairEvents, PairTier
<1> QED BY <1>1, <1>2, Zenon

LEMMA FoldKnows ==
    ASSUME NEW table, NEW known, NEW r, PairBatch(r), NEW now, NEW before \in BOOLEAN,
           Folded([table |-> table, any |-> FALSE, full |-> FALSE, newest |-> known], before, now)
    PROVE  \A i \in 0..Len(r.evs) :
             LET f == Fold(table, known, r, now)[i] IN Folded(f, before, now) /\ f.full \in BOOLEAN
<1> DEFINE n == Len(r.evs)
           f == Fold(table, known, r, now)
           Good(i) == Folded(f[i], before, now) /\ f[i].full \in BOOLEAN
           T == {i \in 0..n : ~Good(i)}
<1>1. n \in Nat
  BY PairAssumption DEF PairBatch
<1>2. /\ f[0] = [table |-> table, any |-> FALSE, full |-> FALSE, newest |-> known]
      /\ \A i \in 1..n : f[i] = IF i \in PairEvents(r) THEN FoldEvent(f[i - 1], r.evs[i], now) ELSE f[i - 1]
  BY <1>1, FoldUnfold
<1> HIDE DEF f
<1>0. Good(0)
  <2>1. f[0].full = FALSE
    BY <1>2
  <2> QED BY <1>2, <2>1, Zenon
<1>3. T = {}
  <2> SUFFICES ASSUME T # {} PROVE FALSE
    BY Zenon
  <2>1. PICK x \in T : \A y \in T : x <= y
    <3>1. T \subseteq Nat
      BY <1>1
    <3> HIDE DEF T
    <3> QED BY <3>1, LeastNat, Zenon
  <2>2. x # 0
    BY <1>0, Zenon
  <2>3. x \in 1..n /\ x - 1 \in 0..n /\ x - 1 \notin T
    BY <1>1, <2>1, <2>2
  <2>4. Good(x - 1)
    BY <2>3, Zenon
  <2>5. CASE x \in PairEvents(r)
    <3>1. PairKey(r.evs[x].pair) \in PairKeys /\ PairTier(r.evs[x].type) \in 1..3
      BY <2>5, PairEventTyped, Zenon
    <3>2. f[x] = FoldEvent(f[x - 1], r.evs[x], now)
      BY <1>2, <2>3, <2>5, Zenon
    <3> QED BY <2>4, <3>1, <3>2, FoldEventKnows
  <2>6. CASE x \notin PairEvents(r)
    BY <1>2, <2>3, <2>4, <2>6, Zenon
  <2> QED BY <2>1, <2>5, <2>6, Zenon
<1> QED BY <1>3, Zenon DEF f

LEMMA EmptyPairs ==
    ASSUME NEW now \in 1..LastMoment
    PROVE  /\ TableTyped(EmptyTable, now) /\ KnownTyped(<<>>, now)
           /\ EntriesNewest(EmptyTable, <<>>) /\ Complete(EmptyTable, <<>>, now)
<1>1. EmptyTable \in Tables /\ \A i \in Slots : EmptyTable[i] = NoEntry
  BY Zenon DEF EmptyTable, Tables
<1>2. DOMAIN <<>> = {}
  OBVIOUS
<1> HIDE DEF EmptyTable
<1> QED BY <1>1, <1>2, Zenon DEF TableTyped, KnownTyped, EntriesNewest, Complete

\* The slots of the live entries at least as severe as tier.
Severe(t, tier, now) == {s \in Slots : t[s] # NoEntry /\ ~Expired(t[s].at, now) /\ t[s].tier >= tier}

LEMMA SevereCount ==
    ASSUME NEW t, NEW tier, NEW now
    PROVE  /\ IsFiniteSet(Severe(t, tier, now)) /\ Cardinality(Severe(t, tier, now)) \in Nat
           /\ Cardinality(Slots) = Capacity
           /\ Cardinality(Severe(t, tier, now)) # 0 => Severe(t, tier, now) # {}
<1>1. IsFiniteSet(Slots) /\ Cardinality(Slots) = Capacity
  BY PairAssumption, FS_Interval DEF Slots
<1>2. Severe(t, tier, now) \in SUBSET Slots
  BY Zenon DEF Severe
<1>3. IsFiniteSet(Severe(t, tier, now))
  BY <1>1, <1>2, FS_Subset, Zenon
<1> QED BY <1>1, <1>3, FS_CardinalityType, FS_EmptySet, Zenon

\* Taking one slot away costs at most one.
LEMMA SevereShrinks ==
    ASSUME NEW t, NEW u, NEW tier, NEW now, NEW s,
           Severe(t, tier, now) \ {s} \subseteq Severe(u, tier, now)
    PROVE  Cardinality(Severe(t, tier, now)) - 1 <= Cardinality(Severe(u, tier, now))
<1> DEFINE A == Severe(t, tier, now)
           B == Severe(u, tier, now)
<1>1. IsFiniteSet(A) /\ IsFiniteSet(B) /\ Cardinality(A) \in Nat /\ Cardinality(B) \in Nat
  BY SevereCount, Zenon
<1> HIDE DEF A, B
<1>2. A \ {s} \in SUBSET B
  BY Zenon DEF A, B
<1>3. Cardinality(A \ {s}) <= Cardinality(B)
  BY <1>1, <1>2, FS_Subset, Zenon
<1>4. Cardinality(A \ {s}) = IF s \in A THEN Cardinality(A) - 1 ELSE Cardinality(A)
  BY <1>1, FS_RemoveElement, Zenon
<1>5. Cardinality(A) - 1 <= Cardinality(B)
  BY <1>1, <1>3, <1>4
<1> QED BY <1>5, Zenon DEF A, B

\* An entry for the pair with what was just observed.
Kept(t, key, tier, now) ==
    \E s \in Slots : t[s] # NoEntry /\ t[s].key = key /\ t[s].tier = tier /\ t[s].at = now

LEMMA ObserveOwn ==
    ASSUME NEW t, NEW now, TableTyped(t, now), NEW key \in PairKeys, NEW tier \in 1..3
    PROVE  LET o == Observe(t, key, tier, now)
           IN  Kept(o, key, tier, now) \/ Severe(o, tier, now) = Slots
<1> DEFINE r == Reclaim(t, now)
           o == Observe(t, key, tier, now)
           new == [key |-> key, tier |-> tier, at |-> now]
<1>1. \/ \E s \in Slots : o = [r EXCEPT ![s] = new]
      \/ o = r /\ \A j \in Slots : r[j] # NoEntry /\ tier <= r[j].tier
  BY ObserveFacts
<1>2. /\ TableTyped(r, now) /\ now \in 1..LastMoment
      /\ \A i \in Slots : r[i] # NoEntry => r[i] = t[i] /\ ~Expired(t[i].at, now)
  BY ReclaimFacts DEF TableTyped
<1>3. new \in Entries /\ new # NoEntry /\ new.key = key /\ new.tier = tier /\ new.at = now
  BY <1>2, NoEntryApart DEF Entries
<1>4. DOMAIN r = Slots /\ \A j \in Slots : r[j] # NoEntry => r[j].tier \in Nat
  BY <1>2 DEF TableTyped, Tables, Entries
<1> HIDE DEF r, o, new
<1>5. CASE \E s \in Slots : o = [r EXCEPT ![s] = new]
  <2>1. Kept(o, key, tier, now)
    BY <1>3, <1>4, <1>5, Zenon DEF Kept
  <2> QED BY <2>1, Zenon DEF o
<1>6. CASE o = r /\ \A j \in Slots : r[j] # NoEntry /\ tier <= r[j].tier
  <2>1. Severe(o, tier, now) = Slots
    BY <1>2, <1>4, <1>6, Zenon DEF Severe
  <2> QED BY <2>1, Zenon DEF o
<1> QED BY <1>1, <1>5, <1>6, Zenon

\* Another pair's observation leaves the entry, or a table full of pairs as severe, or
\* takes at most one of those away.
LEMMA ObserveOther ==
    ASSUME NEW t, NEW now, TableTyped(t, now), NEW other \in PairKeys, NEW level \in 1..3,
           NEW key, NEW tier \in 1..3, key # other
    PROVE  LET o == Observe(t, other, level, now)
           IN  /\ Kept(t, key, tier, now) => Kept(o, key, tier, now) \/ Severe(o, tier, now) = Slots
               /\ \E s : Severe(t, tier, now) \ {s} \subseteq Severe(o, tier, now)
<1> DEFINE r == Reclaim(t, now)
           o == Observe(t, other, level, now)
           new == [key |-> other, tier |-> level, at |-> now]
<1>1. \/ \E s \in Slots :
           /\ o = [r EXCEPT ![s] = new]
           /\ \A j \in Slots : j # s /\ r[j] # NoEntry => r[j].key # other
           /\ \/ r[s] = NoEntry
              \/ r[s].key = other
              \/ \A j \in Slots : r[j] # NoEntry /\ r[j].key # other /\ r[s].tier <= r[j].tier
                   /\ r[s].tier < level
      \/ /\ o = r
         /\ \A j \in Slots : r[j] # NoEntry /\ r[j].key # other /\ level <= r[j].tier
  BY ObserveFacts, Zenon
<1>2. /\ TableTyped(r, now) /\ now \in 1..LastMoment
      /\ \A i \in Slots : r[i] # NoEntry <=> t[i] # NoEntry /\ ~Expired(t[i].at, now)
      /\ \A i \in Slots : r[i] # NoEntry => r[i] = t[i]
  BY ReclaimFacts DEF TableTyped
<1>3. new \in Entries /\ new # NoEntry /\ new.key = other /\ new.tier = level /\ new.at = now
  BY <1>2, NoEntryApart DEF Entries
<1>4. DOMAIN r = Slots /\ \A j \in Slots : r[j] # NoEntry => r[j].tier \in Nat
  BY <1>2 DEF TableTyped, Tables, Entries
<1>5. ~Expired(now, now)
  BY <1>2 DEF Expired
<1>6. Severe(t, tier, now) = {s \in Slots : r[s] # NoEntry /\ r[s].tier >= tier}
  BY <1>2, Zenon DEF Severe
<1>7. Kept(t, key, tier, now) =>
        \E s \in Slots : r[s] # NoEntry /\ r[s].key = key /\ r[s].tier = tier /\ r[s].at = now
  <2> SUFFICES ASSUME NEW s \in Slots, t[s] # NoEntry, t[s].key = key, t[s].tier = tier, t[s].at = now
               PROVE  r[s] # NoEntry /\ r[s].key = key /\ r[s].tier = tier /\ r[s].at = now
    BY Zenon DEF Kept
  <2>1. ~Expired(t[s].at, now)
    BY <1>5, Zenon
  <2> HIDE DEF r
  <2> QED BY <1>2, <2>1, Zenon
<1>8. \A j \in Slots : r[j] # NoEntry => ~Expired(r[j].at, now)
  BY <1>2, Zenon
<1> HIDE DEF r, o, new
<1>9. CASE o = r
  <2>1. Kept(t, key, tier, now) => Kept(o, key, tier, now)
    BY <1>7, <1>9, Zenon DEF Kept
  <2>2. Severe(t, tier, now) \subseteq Severe(o, tier, now)
    BY <1>6, <1>8, <1>9, Zenon DEF Severe
  <2> QED BY <2>1, <2>2, Zenon DEF o
<1>10. ASSUME NEW s \in Slots, o = [r EXCEPT ![s] = new],
              \/ r[s] = NoEntry
              \/ r[s].key = other
              \/ \A j \in Slots : r[j] # NoEntry /\ r[j].key # other /\ r[s].tier <= r[j].tier
                   /\ r[s].tier < level
       PROVE  /\ Kept(t, key, tier, now) => Kept(o, key, tier, now) \/ Severe(o, tier, now) = Slots
              /\ Severe(t, tier, now) \ {s} \subseteq Severe(o, tier, now)
  <2>1. o[s] = new /\ \A j \in Slots : j # s => o[j] = r[j]
    BY <1>4, <1>10, Zenon
  <2>2. Severe(t, tier, now) \ {s} \subseteq Severe(o, tier, now)
    BY <1>6, <1>8, <2>1, Zenon DEF Severe
  <2>3. ASSUME NEW x \in Slots, r[x] # NoEntry, r[x].key = key, r[x].tier = tier, r[x].at = now
        PROVE  Kept(o, key, tier, now) \/ Severe(o, tier, now) = Slots
    <3>1. CASE x # s
      BY <2>1, <2>3, <3>1, Zenon DEF Kept
    <3>2. CASE x = s
      <4>1. \A j \in Slots : r[j] # NoEntry /\ tier <= r[j].tier /\ tier < level
        BY <1>10, <2>3, <3>2, Zenon
      <4>2. \A j \in Slots : o[j] # NoEntry /\ ~Expired(o[j].at, now) /\ o[j].tier >= tier
        BY <1>3, <1>4, <1>5, <1>8, <2>1, <4>1, SMTT(30)
      <4> QED BY <4>2, Zenon DEF Severe
    <3> QED BY <3>1, <3>2, Zenon
  <2> QED BY <1>7, <2>2, <2>3, Zenon
<1> QED BY <1>1, <1>9, <1>10, Zenon DEF o

LEMMA BatchSevere ==
    ASSUME NEW table, NEW known, NEW r, PairBatch(r), NEW now, NEW before \in BOOLEAN,
           Folded([table |-> table, any |-> FALSE, full |-> FALSE, newest |-> known], before, now),
           NEW i \in PairEvents(r),
           \A j \in PairEvents(r) : j > i => PairKey(r.evs[j].pair) # PairKey(r.evs[i].pair)
    PROVE  LET t == Fold(table, known, r, now)[Len(r.evs)].table
           IN  TableTyped(t, now) /\ Severe(t, PairTier(r.evs[i].type), now) # {}
<1> DEFINE n == Len(r.evs)
           f == Fold(table, known, r, now)
           key == PairKey(r.evs[i].pair)
           tier == PairTier(r.evs[i].type)
           count(m) == Cardinality(Severe(f[m].table, tier, now))
           P(m) == Kept(f[m].table, key, tier, now) \/ count(m) >= Capacity - (m - i)
           T == {m \in i..n : ~P(m)}
<1>1. n \in Nat /\ n <= Capacity /\ i \in 1..n /\ Capacity \in Nat
  BY PairAssumption DEF PairBatch, PairEvents
<1>2. \A m \in 1..n : f[m] = IF m \in PairEvents(r) THEN FoldEvent(f[m - 1], r.evs[m], now) ELSE f[m - 1]
  BY <1>1, FoldUnfold
<1>3. \A m \in 0..n : TableTyped(f[m].table, now)
  BY FoldKnows, Zenon DEF Folded
<1>4. key \in PairKeys /\ tier \in 1..3
  BY PairEventTyped, Zenon
<1>5. \A m : count(m) \in Nat
  BY SevereCount, Zenon
<1>6. ASSUME NEW m \in 1..n, m \in PairEvents(r)
      PROVE  f[m].table = Observe(f[m - 1].table, PairKey(r.evs[m].pair), PairTier(r.evs[m].type), now)
  <2>1. f[m] = FoldEvent(f[m - 1], r.evs[m], now)
    BY <1>2, <1>6, Zenon
  <2>2. \A g, ev : FoldEvent(g, ev, now).table = Observe(g.table, PairKey(ev.pair), PairTier(ev.type), now)
    BY Zenon DEF FoldEvent
  <2> HIDE DEF f
  <2> QED BY <2>1, <2>2, Zenon
<1>7. \A j \in PairEvents(r) : j > i => PairKey(r.evs[j].pair) # key
  BY Zenon
<1> HIDE DEF f, key, tier
<1>8. P(i)
  <2> DEFINE o == Observe(f[i - 1].table, key, tier, now)
  <2>1. f[i].table = o
    BY <1>1, <1>6, Zenon DEF key, tier
  <2>2. Kept(o, key, tier, now) \/ Severe(o, tier, now) = Slots
    BY <1>1, <1>3, <1>4, ObserveOwn
  <2>3. CASE Kept(o, key, tier, now)
    BY <2>1, <2>3, Zenon
  <2>4. CASE Severe(o, tier, now) = Slots
    <3>1. count(i) = Capacity
      BY <2>1, <2>4, SevereCount, Zenon
    <3> QED BY <1>1, <3>1
  <2> QED BY <2>2, <2>3, <2>4, Zenon
<1>9. ASSUME NEW m \in (i + 1)..n, P(m - 1) PROVE P(m)
  <2>1. m \in 1..n /\ m - 1 \in 0..n /\ m > i
    BY <1>1
  <2>2. CASE m \notin PairEvents(r)
    <3>1. f[m].table = f[m - 1].table
      BY <1>2, <2>1, <2>2, Zenon
    <3>2. CASE Kept(f[m - 1].table, key, tier, now)
      BY <3>1, <3>2, Zenon
    <3>3. CASE count(m - 1) >= Capacity - ((m - 1) - i)
      <4>1. count(m) = count(m - 1)
        BY <3>1, Zenon
      <4> HIDE DEF count
      <4>2. count(m) >= Capacity - (m - i)
        BY <1>1, <1>5, <2>1, <3>3, <4>1
      <4> QED BY <4>2, Zenon
    <3> QED BY <1>9, <3>2, <3>3, Zenon
  <2>3. CASE m \in PairEvents(r)
    <3> DEFINE other == PairKey(r.evs[m].pair)
               level == PairTier(r.evs[m].type)
               t == f[m - 1].table
               o == Observe(t, other, level, now)
    <3>1. f[m].table = o
      BY <1>6, <2>1, <2>3, Zenon
    <3>2. other \in PairKeys /\ level \in 1..3 /\ key # other
      BY <1>7, <2>1, <2>3, PairEventTyped, Zenon
    <3>3. TableTyped(t, now)
      BY <1>3, <2>1, Zenon
    <3> HIDE DEF other, level, t
    <3>4. /\ Kept(t, key, tier, now) => Kept(o, key, tier, now) \/ Severe(o, tier, now) = Slots
          /\ \E s : Severe(t, tier, now) \ {s} \subseteq Severe(o, tier, now)
      BY <1>4, <3>2, <3>3, ObserveOther, Zenon
    <3> HIDE DEF o
    <3>5. CASE Kept(t, key, tier, now)
      <4>1. CASE Kept(o, key, tier, now)
        BY <3>1, <4>1, Zenon
      <4>2. CASE Severe(o, tier, now) = Slots
        <5>1. count(m) = Capacity
          BY <3>1, <4>2, SevereCount, Zenon
        <5> QED BY <1>1, <2>1, <5>1
      <4> QED BY <3>4, <3>5, <4>1, <4>2, Zenon
    <3>6. CASE count(m - 1) >= Capacity - ((m - 1) - i)
      <4>1. count(m - 1) - 1 <= count(m)
        BY <3>1, <3>4, SevereShrinks, Zenon DEF t
      <4> HIDE DEF count
      <4>2. count(m) >= Capacity - (m - i)
        BY <1>1, <1>5, <2>1, <3>6, <4>1
      <4> QED BY <4>2, Zenon
    <3> QED BY <1>9, <3>5, <3>6, Zenon DEF t
  <2> QED BY <2>2, <2>3, Zenon
<1> HIDE DEF P
<1>10. T = {}
  <2> SUFFICES ASSUME T # {} PROVE FALSE
    BY Zenon
  <2>1. PICK x \in T : \A y \in T : x <= y
    <3>1. T \subseteq Nat
      BY <1>1
    <3> HIDE DEF T
    <3> QED BY <3>1, LeastNat, Zenon
  <2>2. x # i
    BY <1>8, Zenon
  <2>3. x \in (i + 1)..n /\ x - 1 \in i..n /\ x - 1 \notin T
    BY <1>1, <2>1, <2>2
  <2>4. P(x - 1)
    BY <2>3, Zenon
  <2> QED BY <1>9, <2>3, <2>4, Zenon
<1>11. P(n)
  BY <1>1, <1>10
<1>12. Severe(f[n].table, tier, now) # {}
  <2>1. CASE Kept(f[n].table, key, tier, now)
    <3>1. PICK s \in Slots : f[n].table[s] # NoEntry /\ f[n].table[s].tier = tier /\ f[n].table[s].at = now
      BY <2>1, Zenon DEF Kept
    <3>2. now \in Nat
      BY <1>1, <1>3, PairAssumption DEF TableTyped
    <3>3. ~Expired(now, now)
      BY <3>2 DEF Expired
    <3>4. s \in Severe(f[n].table, tier, now)
      BY <1>4, <3>1, <3>3 DEF Severe
    <3> QED BY <3>4, Zenon
  <2>2. CASE count(n) >= Capacity - (n - i)
    <3>1. count(n) # 0
      <4>1. count(n) \in Nat
        BY <1>5, Zenon
      <4> HIDE DEF count, n
      <4> QED BY <1>1, <2>2, <4>1
    <3> QED BY <3>1, SevereCount, Zenon
  <2> QED BY <1>11, <2>1, <2>2, Zenon DEF P
<1> QED BY <1>1, <1>3, <1>12 DEF f, tier

\* AtlPxcPairFusionAggregate is at least the tier of any live entry.
LEMMA AggregateBound ==
    ASSUME NEW t, NEW now, TableTyped(t, now), NEW tier \in 1..3, Severe(t, tier, now) # {}
    PROVE  Aggregate(t, now) >= tier
<1> DEFINE r == Reclaim(t, now)
           A == {r[i].tier : i \in {j \in Slots : r[j] # NoEntry}} \cup {0}
           Top(m) == \A n \in A : n <= m
<1>1. /\ TableTyped(r, now)
      /\ \A i \in Slots : r[i] # NoEntry <=> t[i] # NoEntry /\ ~Expired(t[i].at, now)
      /\ \A i \in Slots : r[i] # NoEntry => r[i] = t[i]
  BY ReclaimFacts, Zenon
<1>2. Aggregate(t, now) = CHOOSE m \in A : Top(m)
  BY Zenon DEF Aggregate
<1> HIDE DEF r
<1>3. A \subseteq 0..3
  BY <1>1 DEF TableTyped, Tables, Entries
<1>4. PICK s \in Slots : t[s] # NoEntry /\ ~Expired(t[s].at, now) /\ t[s].tier >= tier
  BY Zenon DEF Severe
<1>5. t[s].tier \in A
  BY <1>1, <1>4, Zenon
<1>6. 0 \in A
  BY Zenon
<1> HIDE DEF A
<1>7. \E m \in A : Top(m)
  <2>1. CASE 3 \in A
    BY <1>3, <2>1
  <2>2. CASE 3 \notin A /\ 2 \in A
    BY <1>3, <2>2
  <2>3. CASE 3 \notin A /\ 2 \notin A /\ 1 \in A
    BY <1>3, <2>3
  <2>4. CASE 3 \notin A /\ 2 \notin A /\ 1 \notin A
    BY <1>3, <1>6, <2>4
  <2> QED BY <2>1, <2>2, <2>3, <2>4, Zenon
<1> HIDE DEF Top
<1>8. Aggregate(t, now) \in A /\ Top(Aggregate(t, now))
  BY <1>2, <1>7, Zenon
<1>9. t[s].tier <= Aggregate(t, now)
  BY <1>5, <1>8, Zenon DEF Top
<1>10. t[s].tier \in 0..3 /\ Aggregate(t, now) \in 0..3
  BY <1>3, <1>5, <1>8, Zenon
<1> QED BY <1>4, <1>9, <1>10

-----------------------------------------------------------------------------
(* ProximitySdm. *)

LEMMA ProximityCommand == \A tier : TierCommand(tier) \in Commands
  BY ProximityAssumption, StopIsCommand DEF TierCommand

LEMMA ProximityStep ==
    TypeInv /\ [ProximityNext]_<<proximityVars, controlVars>> => [ControlNext]_controlVars
<1> SUFFICES ASSUME TypeInv, ProximityNext PROVE [ControlNext]_controlVars
  BY Zenon DEF proximityVars
<1>1. CASE \E c \in Configs : SetSubscribedEvents(c)
  BY <1>1, Zenon DEF SetSubscribedEvents
<1>2. CASE Launch
  BY <1>2, Zenon DEF Launch
<1>3. CASE ProximityDecide
  <2>1. CASE NoDecision
    BY <2>1, Zenon DEF ControlNext
  <2>2. CASE Decide(SlotCommand(req, WinningSlot(req)))
    <3>1. SlotCommand(req, WinningSlot(req)) \in Commands
      BY ProximityCommand, Zenon DEF SlotCommand
    <3> QED BY <2>2, <3>1, DecideIsControl, Zenon
  <2> QED BY <1>3, <2>1, <2>2, Zenon DEF ProximityDecide
<1>4. CASE Reassert(active)
  BY <1>4, DecideIsControl, Zenon DEF TypeInv, ControlTypeOK
<1>5. CASE \/ \E r \in Requests, gap \in BOOLEAN : Receive(r, gap)
           \/ RequestSteps \/ Release \/ HbWatchdog \/ Timeout \/ FreshnessWatchdog
  BY <1>5, Zenon DEF ControlNext
<1> QED BY <1>1, <1>2, <1>3, <1>4, <1>5, Zenon DEF ProximityNext

LEMMA ProximityTyped == ProximitySpec => []TypeInv
<1>1. ProximityInit => TypeInv
  BY TypeInit, Zenon DEF ProximityInit
<1>2. TypeInv /\ [ProximityNext]_<<proximityVars, controlVars>> => TypeInv'
  BY ProximityStep, TypeNext, Zenon
<1> QED BY <1>1, <1>2, PTL DEF ProximitySpec

(* The proximity module implements the shared control: whatever command its *)
(* batch or its periodic loop arrives at, every step of it is one of        *)
(* SdmControl or leaves the shared state alone.                             *)
THEOREM ProximityImplements == ProximitySpec => ControlSpec
<1>1. ProximityInit => ControlInit
  BY Zenon DEF ProximityInit
<1> QED BY <1>1, ProximityTyped, ProximityStep, PTL DEF ProximitySpec, ControlSpec

-----------------------------------------------------------------------------
(* CrossingSdm.  A command computed and not yet sent is one of the two the  *)
(* junction leads to.                                                       *)

CommandsPending == {resolved, pending} \subseteq {NoCommand, "ALARM", "NORMAL"}

LEMMA JunctionCommands == \A z : JunctionCommand(z) \in {"ALARM", "NORMAL"}
  BY Zenon DEF JunctionCommand

LEMMA PendingNext ==
    CommandsPending /\ [CrossingNext]_<<crossingVars, controlVars>> => CommandsPending'
<1> SUFFICES ASSUME CommandsPending, [CrossingNext]_<<crossingVars, controlVars>>
             PROVE  CommandsPending'
  BY Zenon
<1> USE DEF CommandsPending
<1>1. CASE CrossingCompute
  BY <1>1, JunctionCommands, Zenon DEF CrossingCompute
<1>2. CASE CrossingDecide
  BY <1>2, Zenon DEF CrossingDecide, crossingVars
<1>3. CASE EvalRead
  BY <1>3, JunctionCommands, Zenon DEF EvalRead
<1>4. CASE EvalSend
  BY <1>4, Zenon DEF EvalSend
<1>5. CASE Tick
  BY <1>5, Zenon DEF Tick
<1>6. CASE UNCHANGED crossingVars
  BY <1>6, Zenon DEF crossingVars
<1> QED BY <1>1, <1>2, <1>3, <1>4, <1>5, <1>6, Zenon DEF CrossingNext, CrossingReassert

LEMMA CrossingStep ==
    TypeInv /\ CommandsPending /\ [CrossingNext]_<<crossingVars, controlVars>> => [ControlNext]_controlVars
<1> SUFFICES ASSUME TypeInv, CommandsPending, CrossingNext PROVE [ControlNext]_controlVars
  BY Zenon DEF crossingVars
<1>1. CASE CrossingCompute \/ EvalRead \/ Tick
  BY <1>1, Zenon DEF CrossingCompute, EvalRead, Tick
<1>2. CASE CrossingDecide
  <2>1. CASE resolved # NoCommand /\ Decide(resolved)
    BY <2>1, DecideIsControl, CrossingAssumption, StopIsCommand, Zenon DEF CommandsPending
  <2>2. CASE NoDecision
    BY <2>2, Zenon DEF ControlNext
  <2> QED BY <1>2, <2>1, <2>2, Zenon DEF CrossingDecide
<1>3. CASE EvalSend
  BY <1>3, DecideIsControl, CrossingAssumption, StopIsCommand DEF EvalSend, CommandsPending
<1>4. CASE CrossingReassert
  BY <1>4, DecideIsControl, Zenon DEF CrossingReassert, TypeInv, ControlTypeOK
<1>5. CASE CjsControl
  <2>1. CASE \E r \in Requests, gap \in BOOLEAN : CjsReceive(r, gap)
    BY <2>1, Zenon DEF CjsReceive, ControlNext
  <2>2. CASE CjsAiVerdicts \/ CjsSourcePresence \/ CjsSourceInputState
           \/ CjsSensorHealth \/ CjsPssMode \/ CjsSwFailEvents
    <3>1. RequestSteps
      BY <2>2, Zenon DEF RequestSteps, CjsAiVerdicts, CjsSourcePresence, CjsSourceInputState, CjsSensorHealth,
                   CjsPssMode, CjsSwFailEvents
    <3> QED BY <3>1, Zenon DEF ControlNext
  <2>3. CASE CjsRelease \/ CjsHeartbeatWatchdog \/ Timeout \/ CjsFreshnessWatchdog
    BY <2>3, Zenon DEF CjsRelease, CjsHeartbeatWatchdog, CjsFreshnessWatchdog, ControlNext
  <2> QED BY <1>5, <2>1, <2>2, <2>3, Zenon DEF CjsControl
<1> QED BY <1>1, <1>2, <1>3, <1>4, <1>5 DEF CrossingNext

LEMMA CrossingTyped == CrossingSpec => [](TypeInv /\ CommandsPending)
<1>1. CrossingInit => TypeInv /\ CommandsPending
  BY TypeInit, Zenon DEF CrossingInit, CommandsPending
<1>2. /\ TypeInv /\ CommandsPending
      /\ [CrossingNext]_<<crossingVars, controlVars>>
      => TypeInv' /\ CommandsPending'
  BY CrossingStep, PendingNext, TypeNext, Zenon
<1> QED BY <1>1, <1>2, PTL DEF CrossingSpec

(* The crossing module implements the shared control, with its junction     *)
(* evaluated by a third thread and commands that wait between the moment    *)
(* they are computed and the moment they are sent.                          *)
THEOREM CrossingImplements == CrossingSpec => ControlSpec
<1>1. CrossingInit => ControlInit
  BY Zenon DEF CrossingInit
<1> QED BY <1>1, CrossingTyped, CrossingStep, PTL DEF CrossingSpec, ControlSpec

-----------------------------------------------------------------------------
(* AtlProximitySdm. *)

LEMMA PairCommand == \A tier : TierToCommand(tier) \in Commands
  BY AtlProximityAssumption, StopIsCommand DEF TierToCommand

LEMMA AtlProximityStep ==
    TypeInv /\ [AtlProximityNext]_<<pairVars, controlVars>> => [ControlNext]_controlVars
<1> SUFFICES ASSUME TypeInv, AtlProximityNext PROVE [ControlNext]_controlVars
  BY Zenon DEF pairVars
<1>1. CASE AtlProximityDecide
  <2>1. CASE NoDecision
    BY <2>1, Zenon DEF ControlNext
  <2> DEFINE c == TierToCommand(Aggregate(Fold(pairs, latest, req, moment)[Len(req.evs)].table, moment))
  <2>2. CASE Decide(c)
    <3>1. c \in Commands
      BY PairCommand, Zenon
    <3> QED BY <2>2, <3>1, DecideIsControl, Zenon
  <2> QED BY <1>1, <2>1, <2>2, Zenon DEF AtlProximityDecide
<1>2. CASE AtlProximityReassert
  <2> DEFINE c == TierToCommand(Aggregate(pairs, moment))
  <2>1. c \in Commands
    BY PairCommand, Zenon
  <2>2. Reassert(active) \/ Reassert(c)
    BY <1>2, Zenon DEF AtlProximityReassert
  <2> QED BY <2>1, <2>2, DecideIsControl, SMTT(30) DEF TypeInv, ControlTypeOK
<1>3. CASE AtlProximityRelease
  BY <1>3, Zenon DEF AtlProximityRelease, Release, ControlNext
<1>4. CASE PairTick
  BY <1>4, Zenon DEF PairTick
<1>5. CASE ApxControl
  <2>1. CASE \E r \in Requests, gap \in BOOLEAN : ApxReceive(r, gap)
    BY <2>1, Zenon DEF ApxReceive, ControlNext
  <2>2. CASE ApxAiVerdicts \/ ApxSourcePresence \/ ApxSourceInputState
           \/ ApxSensorHealth \/ ApxPssMode \/ ApxSwFailEvents
    <3>1. RequestSteps
      BY <2>2, Zenon DEF RequestSteps, ApxAiVerdicts, ApxSourcePresence, ApxSourceInputState, ApxSensorHealth,
                   ApxPssMode, ApxSwFailEvents
    <3> QED BY <3>1, Zenon DEF ControlNext
  <2>3. CASE ApxHeartbeatWatchdog \/ Timeout \/ ApxFreshnessWatchdog
    BY <2>3, Zenon DEF ApxHeartbeatWatchdog, ApxFreshnessWatchdog, ControlNext
  <2> QED BY <1>5, <2>1, <2>2, <2>3, Zenon DEF ApxControl
<1> QED BY <1>1, <1>2, <1>3, <1>4, <1>5, Zenon DEF AtlProximityNext

LEMMA AtlProximityTyped == AtlProximitySpec => []TypeInv
<1>1. AtlProximityInit => TypeInv
  BY TypeInit, SMTT(30) DEF AtlProximityInit
<1>2. TypeInv /\ [AtlProximityNext]_<<pairVars, controlVars>> => TypeInv'
  BY AtlProximityStep, TypeNext, Zenon
<1> QED BY <1>1, <1>2, PTL DEF AtlProximitySpec

(* The combined module implements the shared control, although it derives   *)
(* the command anew whenever it is repeated.                                *)
THEOREM AtlProximityImplements == AtlProximitySpec => ControlSpec
<1>1. AtlProximityInit => ControlInit
  BY Zenon DEF AtlProximityInit
<1> QED BY <1>1, AtlProximityTyped, AtlProximityStep, PTL DEF AtlProximitySpec, ControlSpec

(* So each of the three keeps the latch's contract, a lost source's         *)
(* sub-cause and the STOP on the PLC: the listener, the watchdogs, the      *)
(* periodic loop and the release of any of them together.                   *)
THEOREM ModulesHold ==
    ProximitySpec \/ CrossingSpec \/ AtlProximitySpec
      => ControlContract /\ []LostSourceHeld /\ []HoldOnPlc
  BY ProximityImplements, CrossingImplements, AtlProximityImplements,
     ContractKept, LossIsHeld, HoldIsOnPlc

-----------------------------------------------------------------------------
(* The decision of ProximitySdm.  The table binds every event type once,    *)
(* and never a health type.                                                 *)

BindingInv ==
    /\ Len(binding) \in Nat /\ DOMAIN binding = 1..Len(binding)
    /\ \A i \in DOMAIN binding : binding[i] # Unknown =>
         /\ binding[i] \in PhysicalEvents
         /\ \A j \in DOMAIN binding : binding[i] = binding[j] => i = j

LEMMA AcceptedBinding ==
    ASSUME NEW c, Len(c) \in Nat, DOMAIN c = 1..Len(c), BindingAccepted(c)
    PROVE  \A i \in DOMAIN c : c[i] # Unknown =>
             /\ c[i] \in PhysicalEvents
             /\ \A j \in DOMAIN c : c[i] = c[j] => i = j
<1> SUFFICES ASSUME NEW i \in DOMAIN c, c[i] # Unknown,
                    NEW j \in DOMAIN c, c[i] = c[j]
             PROVE  c[i] \in PhysicalEvents /\ i = j
  BY Zenon DEF BindingAccepted
<1>1. \A k \in DOMAIN c : c[k] # Unknown => c[k] \in PhysicalEvents /\ \A m \in 1..(k - 1) : c[k] # c[m]
  BY Zenon DEF BindingAccepted
<1>2. i \in 1..Len(c) /\ j \in 1..Len(c)
  BY Zenon
<1>3. ~(j \in 1..(i - 1)) /\ ~(i \in 1..(j - 1))
  BY <1>1, Zenon
<1> QED BY <1>1, <1>2, <1>3

LEMMA BindingHolds == ProximitySpec => []BindingInv
<1>1. ProximityInit => BindingInv
  <2> SUFFICES ASSUME ProximityInit PROVE BindingInv
    BY Zenon
  <2>1. PICK c \in Configs : binding = Unbound(Len(c))
    BY Zenon DEF ProximityInit
  <2>2. Len(c) \in Nat
    BY ProximityAssumption, Zenon
  <2>3. DOMAIN binding = 1..Len(c) /\ \A i \in DOMAIN binding : binding[i] = Unknown
    BY <2>1, Zenon DEF Unbound
  <2>4. Len(binding) = Len(c)
    BY <2>1, <2>2 DEF Unbound
  <2> QED BY <2>2, <2>3, <2>4, Zenon DEF BindingInv
<1>2. BindingInv /\ [ProximityNext]_<<proximityVars, controlVars>> => BindingInv'
  <2> SUFFICES ASSUME BindingInv, [ProximityNext]_<<proximityVars, controlVars>> PROVE BindingInv'
    BY Zenon
  <2>1. CASE \E c \in Configs : SetSubscribedEvents(c)
    <3>1. PICK c \in Configs : BindingAccepted(c) /\ binding' = c
      BY <2>1, Zenon DEF SetSubscribedEvents
    <3>2. Len(c) \in Nat /\ DOMAIN c = 1..Len(c)
      BY ProximityAssumption, Zenon
    <3> QED BY <3>1, <3>2, AcceptedBinding, Zenon DEF BindingInv
  <2>2. CASE UNCHANGED binding
    BY <2>2, Zenon DEF BindingInv
  <2> QED BY <2>1, <2>2, Zenon DEF ProximityNext, Launch, proximityVars
<1> QED BY <1>1, <1>2, PTL DEF ProximitySpec

LEMMA RankBounds == \A c : ProximityRank(c) \in 0..2
  BY DEF ProximityRank

(* There is a winning slot: the first of the candidates of highest rank.    *)
LEMMA WinningSlotIs ==
    ASSUME NEW r, Candidates(r) # {}, Len(r.evs) \in Nat
    PROVE  /\ WinningSlot(r) \in Candidates(r)
           /\ \A j \in Candidates(r) :
                ProximityRank(SlotCommand(r, j)) <= ProximityRank(SlotCommand(r, WinningSlot(r)))
<1> DEFINE rank(i) == ProximityRank(SlotCommand(r, i))
           C == Candidates(r)
           Wins(i) == \A j \in C : rank(i) > rank(j) \/ (rank(i) = rank(j) /\ i <= j)
<1>1. C \subseteq Nat
  BY DEF Candidates
<1>2. \A i : rank(i) \in 0..2
  BY RankBounds, Zenon
<1>3. \E S \in SUBSET C : S # {} /\ \A i \in S, j \in C : rank(i) > rank(j) \/ (rank(i) = rank(j) /\ j \in S)
  <2> HIDE DEF rank, C
  <2>0. C # {}
    BY Zenon DEF C
  <2>1. CASE \E i \in C : rank(i) = 2
    <3> DEFINE S == {i \in C : rank(i) = 2}
    <3>1. S # {} /\ \A i \in S, j \in C : rank(i) > rank(j) \/ (rank(i) = rank(j) /\ j \in S)
      BY <2>1, <1>2
    <3> QED BY <3>1, Zenon
  <2>2. CASE ~(\E i \in C : rank(i) = 2) /\ \E i \in C : rank(i) = 1
    <3> DEFINE S == {i \in C : rank(i) = 1}
    <3>1. S # {} /\ \A i \in S, j \in C : rank(i) > rank(j) \/ (rank(i) = rank(j) /\ j \in S)
      BY <2>2, <1>2
    <3> QED BY <3>1, Zenon
  <2>3. CASE \A i \in C : rank(i) # 2 /\ rank(i) # 1
    <3>1. \A i \in C : rank(i) = 0
      BY <2>3, <1>2
    <3> QED BY <3>1, <2>0, Zenon
  <2> QED BY <2>1, <2>2, <2>3, Zenon
<1>4. PICK S \in SUBSET C : S # {} /\ \A i \in S, j \in C : rank(i) > rank(j) \/ (rank(i) = rank(j) /\ j \in S)
  BY <1>3, Zenon
<1>5. PICK w \in S : \A i \in S : w <= i
  <2>1. S \in SUBSET Nat
    BY <1>1, <1>4
  <2> QED BY <1>4, <2>1, LeastNat, Zenon
<1>6. w \in C /\ Wins(w)
  BY <1>4, <1>5, Zenon
<1>7. WinningSlot(r) = CHOOSE i \in C : Wins(i)
  BY Zenon DEF WinningSlot
<1> HIDE DEF Wins
<1>8. WinningSlot(r) \in C /\ Wins(WinningSlot(r))
  BY <1>6, <1>7, Zenon
<1>9. \A j \in C : rank(j) <= rank(WinningSlot(r))
  <2> HIDE DEF rank, C
  <2> QED BY <1>8, <1>2 DEF Wins
<1> QED BY <1>8, <1>9, Zenon

(* The worst case of a batch decides, for every binding the module accepts  *)
(* and every batch (computeProximityCommandFromBatch).                      *)
THEOREM WorstCaseDecides == ProximitySpec => []WorstCaseWins
<1>1. TypeInv /\ BindingInv => WorstCaseWins
  <2> SUFFICES ASSUME TypeInv, BindingInv, pc["listener"] = "decide",
                      NEW i \in 1..Len(req.evs), NEW k \in DOMAIN binding,
                      Usable(req.evs[i]), binding[k] # Unknown, req.evs[i].type = binding[k]
               PROVE  ProximityRank(TierCommand(Tier(k))) <= ProximityRank(SlotCommand(req, WinningSlot(req)))
    BY Zenon DEF WorstCaseWins
  <2>1. Descriptors(req.evs[i].type) = {k}
    BY Zenon DEF Descriptors, BindingInv
  <2>2. i \in Candidates(req)
    BY <2>1, ProximityAssumption, Zenon DEF Candidates, BindingInv
  <2>3. SlotCommand(req, i) = TierCommand(Tier(k))
    <3>1. (CHOOSE j \in {k} : \A m \in {k} : j <= m) = k
      BY DEF BindingInv
    <3> QED BY <2>1, <3>1, Zenon DEF SlotCommand
  <2>4. Len(req.evs) \in Nat
    BY RequestAssumption, Zenon DEF TypeInv, Places
  <2> QED BY <2>2, <2>3, <2>4, WinningSlotIs, Zenon
<1> QED BY <1>1, ProximityTyped, BindingHolds, PTL

-----------------------------------------------------------------------------
(* The junction of CrossingSdm. *)

JunctionInv == ZoneInv(zone, reports, clock) /\ clock \in 1..LastTick

LEMMA JunctionInit == CrossingInit => JunctionInv
<1> SUFFICES ASSUME CrossingInit PROVE JunctionInv
  BY Zenon
<1>1. zone = NewZone /\ clock = 1 /\ reports = [k \in ReportKeys |-> 0]
  BY Zenon DEF CrossingInit, ReportKeys
<1>2. NoView \in Views /\ ~NoView.person /\ ~NoView.forklift
  BY Zenon DEF NoView, Views
<1>3. zone \in Zones
  BY <1>1, <1>2, JunctionAssumption, Zenon DEF NewZone, Zones
<1>4. \A c \in Cameras : zone.view[c] = NoView
  BY <1>1, Zenon DEF NewZone
<1>5. \A k \in ReportKeys : reports[k] = 0
  BY <1>1, Zenon
<1>6. \A c \in Cameras : /\ <<c, "TRIPWIRE">> \in ReportKeys /\ <<c, "PERSON_IN">> \in ReportKeys
                         /\ <<c, "PERSON_OUT">> \in ReportKeys
  BY Zenon DEF ReportKeys
<1>7. ZoneTyped(zone, reports, clock)
  BY <1>1, <1>3, <1>5, SMTT(30) DEF ZoneTyped, NewZone
<1>8. ViewsTrue(zone, reports) /\ Named(zone)
  BY <1>1, <1>2, <1>4, <1>5, <1>6, SMTT(30) DEF ViewsTrue, Named, NewZone
<1>9. Engaged(zone, reports, clock) /\ PersonUp(zone, reports, clock)
  BY <1>5, <1>6, Zenon DEF Engaged, PersonUp, Fresh
<1> QED BY <1>1, <1>7, <1>8, <1>9, CrossingAssumption, SMTT(30) DEF JunctionInv, ZoneInv, ZoneBase

LEMMA JunctionNext ==
    TypeInv /\ JunctionInv /\ [CrossingNext]_<<crossingVars, controlVars>> => JunctionInv'
<1> SUFFICES ASSUME TypeInv, JunctionInv, [CrossingNext]_<<crossingVars, controlVars>>
             PROVE  JunctionInv'
  BY Zenon
<1>1. CASE CrossingCompute
  <2> DEFINE z == IngestAll(zone, req, clock)[Len(req.evs)]
             rep == [k \in ReportKeys |->
                       IF \E i \in JunctionEvents(req) : req.evs[i].sensor = k[1] /\ req.evs[i].kind = k[2]
                       THEN clock ELSE reports[k]]
  <2>1. JunctionBatch(req)
    BY <1>1, CrossingAssumption, Zenon DEF CrossingCompute, TypeInv, Places
  <2>2. ZoneInv(z, rep, clock)
    BY <2>1, BatchInv DEF JunctionInv
  <2>3. DOMAIN reports = ReportKeys
    BY Zenon DEF JunctionInv, ZoneInv, ZoneBase, ZoneTyped
  <2>4. zone' = Evaluate(z, clock) /\ reports' = rep /\ clock' = clock
    BY <1>1, <2>3, Zenon DEF CrossingCompute
  <2> HIDE DEF z, rep
  <2> QED BY <2>2, <2>4, EvaluateInv, Zenon DEF ZoneInv, JunctionInv
<1>2. CASE EvalRead
  <2>1. (zone' = zone \/ zone' = Evaluate(zone, clock)) /\ reports' = reports /\ clock' = clock
    BY <1>2, Zenon DEF EvalRead
  <2> QED BY <2>1, EvaluateInv, Zenon DEF ZoneInv, JunctionInv
<1>3. CASE Tick
  <2>1. zone' = zone /\ reports' = reports /\ clock' = clock + 1 /\ clock' \in 1..LastTick
    BY <1>3, CrossingAssumption DEF Tick, JunctionInv
  <2>2. ASSUME NEW k \in ReportKeys, NEW w \in Nat, Fresh(reports[k], clock + 1, w)
        PROVE  Fresh(reports[k], clock, w)
    BY <2>2 DEF Fresh, JunctionInv, ZoneInv, ZoneBase, ZoneTyped
  <2>3. ZoneTyped(zone, reports, clock + 1)
    BY DEF JunctionInv, ZoneInv, ZoneBase, ZoneTyped, Zones
  <2>4. Engaged(zone, reports, clock + 1) /\ PersonUp(zone, reports, clock + 1)
    BY <2>2, JunctionAssumption, Zenon DEF JunctionInv, ZoneInv, ZoneBase, Engaged, PersonUp, ReportKeys
  <2> QED BY <2>1, <2>3, <2>4, Zenon DEF JunctionInv, ZoneInv, ZoneBase
<1>4. CASE UNCHANGED <<zone, clock, reports>>
  BY <1>4, Zenon DEF JunctionInv
<1> QED BY <1>1, <1>2, <1>3, <1>4, Zenon DEF CrossingNext, CrossingDecide, EvalSend, CrossingReassert, crossingVars

LEMMA JunctionHolds == CrossingSpec => []JunctionInv
  BY CrossingTyped, JunctionInit, JunctionNext, PTL DEF CrossingSpec

(* The siren sounds from the moment a crossing and a person are on record,  *)
(* whichever cameras said so, and falls silent once the holds have passed,  *)
(* for every window, hold and debounce (junctionVerdictLocked,              *)
(* updateJunctionLevelsLocked).                                             *)
THEOREM SirenIsTimely == CrossingSpec => []SirenTimely
<1>1. JunctionInv => SirenTimely
  <2> SUFFICES ASSUME JunctionInv PROVE SirenTimely
    BY Zenon
  <2>1. /\ zone \in Zones /\ clock \in Nat \ {0} /\ reports \in [ReportKeys -> Nat]
        /\ zone.tripwire \in Nat /\ zone.personVacant \in Nat
    BY Zenon DEF JunctionInv, ZoneInv, ZoneBase, ZoneTyped, Zones
  <2>2. SirenAtOnce
    <3> SUFFICES ASSUME PersonStated, CrossingStated PROVE Alarm(Verdict(zone, clock))
      BY Zenon DEF SirenAtOnce
    <3>1. zone.person
      BY Zenon DEF JunctionInv, ZoneInv, PersonUp, PersonStated
    <3>2. PICK c \in Cameras : Fresh(reports[<<c, "TRIPWIRE">>], clock, EngageWindow)
      BY Zenon DEF CrossingStated
    <3>3. zone.engaged
      BY <3>2, Zenon DEF JunctionInv, ZoneInv, ZoneBase, Engaged
    <3>4. reports[<<c, "TRIPWIRE">>] <= zone.tripwire /\ reports[<<c, "TRIPWIRE">>] \in Nat
      BY <2>1, Zenon DEF JunctionInv, ZoneInv, ZoneBase, ViewsTrue, ReportKeys
    <3>5. Fresh(zone.tripwire, clock, EngageWindow)
      BY <2>1, <3>2, <3>4, JunctionAssumption DEF Fresh
    <3> QED BY <3>1, <3>3, <3>5, Zenon DEF Alarm, Verdict
  <2>3. SirenEnds
    <3> SUFFICES ASSUME \A c \in Cameras : ~Fresh(reports[<<c, "PERSON_IN">>], clock, PersonHold),
                        zone.personVacant # 0, clock - zone.personVacant >= Debounce
                 PROVE  ~Alarm(Verdict(Evaluate(zone, clock), clock))
      BY Zenon DEF SirenEnds
    <3>1. ~RawPerson(zone, clock)
      BY Zenon DEF RawPerson, JunctionInv, ZoneInv, ZoneBase, ViewsTrue
    <3> DEFINE u == UpdateLevels(zone, clock)
    <3>2. u \in Zones /\ ~u.person
      <4> DEFINE since == IF RawPerson(zone, clock) THEN 0
                          ELSE IF zone.personVacant = 0 THEN clock ELSE zone.personVacant
      <4>1. /\ u \in Zones
            /\ u.person = (RawPerson(zone, clock) \/ (zone.person /\ clock - since < Debounce))
        BY <2>1, UpdateFields, Zenon
      <4>2. ~(clock - since < Debounce)
        BY <2>1, <3>1, JunctionAssumption
      <4> QED BY <3>1, <4>1, <4>2, Zenon
    <3> HIDE DEF u
    <3>3. ~Evaluate(zone, clock).person
      BY <3>2, Zenon DEF Evaluate, u, Zones
    <3> QED BY <3>3, Zenon DEF Alarm, Verdict
  <2> QED BY <2>2, <2>3, Zenon DEF SirenTimely
<1> QED BY <1>1, JunctionHolds, PTL

(* An alarm names both parties, whichever event completed it.               *)
THEOREM AlarmIsNamed == CrossingSpec => []AlarmNamesPair
<1>1. JunctionInv => AlarmNamesPair
  BY Zenon DEF JunctionInv, ZoneInv, ZoneBase, Named, AlarmNamesPair, Alarm, Verdict, Fresh
<1> QED BY <1>1, JunctionHolds, PTL

-----------------------------------------------------------------------------
(* The pair table of AtlProximitySdm. *)

PairsInv ==
    /\ TableTyped(pairs, moment) /\ KnownTyped(latest, moment) /\ EntriesNewest(pairs, latest)
    /\ refused \in BOOLEAN /\ (~refused => Complete(pairs, latest, moment))
LEMMA PairsInit == AtlProximityInit => PairsInv
<1> SUFFICES ASSUME AtlProximityInit PROVE PairsInv
  BY Zenon
<1>1. pairs = EmptyTable /\ moment = 1 /\ latest = <<>> /\ refused = FALSE
  BY Zenon DEF AtlProximityInit
<1>2. moment \in 1..LastMoment
  BY <1>1, PairAssumption
<1> QED BY <1>1, <1>2, EmptyPairs, Zenon DEF PairsInv

LEMMA PairsNext ==
    TypeInv /\ PairsInv /\ [AtlProximityNext]_<<pairVars, controlVars>> => PairsInv'
<1> SUFFICES ASSUME TypeInv, PairsInv, [AtlProximityNext]_<<pairVars, controlVars>> PROVE PairsInv'
  BY Zenon
<1>1. CASE AtlProximityDecide
  <2> DEFINE f == Fold(pairs, latest, req, moment)[Len(req.evs)]
  <2>1. PairBatch(req)
    BY <1>1, AtlProximityAssumption, Zenon DEF AtlProximityDecide, TypeInv, Places
  <2>2. Folded([table |-> pairs, any |-> FALSE, full |-> FALSE, newest |-> latest], refused, moment)
    BY Zenon DEF Folded, PairsInv
  <2>3. Folded(f, refused, moment) /\ f.full \in BOOLEAN
    <3>1. Len(req.evs) \in 0..Len(req.evs)
      BY <2>1, PairAssumption DEF PairBatch
    <3> QED BY <2>1, <2>2, <3>1, FoldKnows, Zenon DEF PairsInv
  <2>4. pairs' = f.table /\ latest' = f.newest /\ refused' = (refused \/ f.full) /\ moment' = moment
    BY <1>1, Zenon DEF AtlProximityDecide
  <2> HIDE DEF f
  <2> QED BY <2>3, <2>4, Zenon DEF Folded, PairsInv
<1>2. CASE AtlProximityReassert
  <2>1. (pairs' = pairs \/ pairs' = Reclaim(pairs, moment)) /\ latest' = latest /\ refused' = refused /\ moment' = moment
    BY <1>2, Zenon DEF AtlProximityReassert
  <2>2. TableTyped(Reclaim(pairs, moment), moment)
    BY ReclaimFacts, Zenon DEF PairsInv
  <2> QED BY <2>1, <2>2, ReclaimKnows, Zenon DEF PairsInv
<1>3. CASE AtlProximityRelease
  <2>1. CASE pairs' = EmptyTable /\ latest' = <<>> /\ refused' = FALSE /\ moment' = moment
    <3>1. moment \in 1..LastMoment
      BY Zenon DEF PairsInv, TableTyped
    <3> QED BY <2>1, <3>1, EmptyPairs, Zenon DEF PairsInv
  <2>2. CASE UNCHANGED pairVars
    BY <2>2, Zenon DEF PairsInv, pairVars
  <2> QED BY <1>3, <2>1, <2>2, Zenon DEF AtlProximityRelease, pairVars
<1>4. CASE PairTick
  <2>1. moment' = moment + 1 /\ pairs' = pairs /\ latest' = latest /\ refused' = refused /\ moment < LastMoment
    BY <1>4, Zenon DEF PairTick
  <2>2. moment \in 1..LastMoment /\ moment \in Nat /\ LastMoment \in Nat
    BY PairAssumption DEF PairsInv, TableTyped
  <2>3. \A i \in Slots : pairs[i] # NoEntry => pairs[i].at \in Nat
    BY SMTT(30) DEF PairsInv, TableTyped, Tables, Entries
  <2>4. TableTyped(pairs, moment + 1)
    BY <2>1, <2>2, <2>3, SMTT(30) DEF PairsInv, TableTyped
  <2>5. KnownTyped(latest, moment + 1)
    BY <2>2 DEF PairsInv, KnownTyped
  <2>6. \A k \in DOMAIN latest : Expired(latest[k].at, moment) => Expired(latest[k].at, moment + 1)
    BY <2>2, PairAssumption DEF PairsInv, KnownTyped, Expired
  <2>7. Complete(pairs, latest, moment) => Complete(pairs, latest, moment + 1)
    BY <2>6, Zenon DEF Complete
  <2> QED BY <2>1, <2>4, <2>5, <2>7, Zenon DEF PairsInv
<1>5. CASE UNCHANGED pairVars
  BY <1>5, Zenon DEF PairsInv, pairVars
<1> QED BY <1>1, <1>2, <1>3, <1>4, <1>5, Zenon DEF AtlProximityNext

LEMMA PairsHold == AtlProximitySpec => []PairsInv
  BY AtlProximityTyped, PairsInit, PairsNext, PTL DEF AtlProximitySpec

\* The table's tiers are those of the newest live observations.
LEMMA WorstCaseKept == PairsInv => PairsWorstCase
<1> SUFFICES ASSUME PairsInv, ~refused PROVE Aggregate(pairs, moment) = WorstLive
  BY Zenon DEF PairsWorstCase
<1> DEFINE r == Reclaim(pairs, moment)
           A == {r[i].tier : i \in {j \in Slots : r[j] # NoEntry}}
           B == {latest[k].tier : k \in {j \in DOMAIN latest : ~Expired(latest[j].at, moment)}}
<1>1. /\ \A i \in Slots : r[i] # NoEntry <=> pairs[i] # NoEntry /\ ~Expired(pairs[i].at, moment)
      /\ \A i \in Slots : r[i] # NoEntry => r[i] = pairs[i]
      /\ EntriesNewest(r, latest) /\ Complete(r, latest, moment)
  BY ReclaimFacts, ReclaimKnows, Zenon DEF PairsInv
<1>2. Aggregate(pairs, moment) = CHOOSE m \in A \cup {0} : \A n \in A \cup {0} : n <= m
  BY Zenon DEF Aggregate
<1>3. WorstLive = CHOOSE m \in B \cup {0} : \A n \in B \cup {0} : n <= m
  BY Zenon DEF WorstLive
<1> HIDE DEF r
<1>4. A \subseteq B
  <2> SUFFICES ASSUME NEW i \in Slots, r[i] # NoEntry PROVE r[i].tier \in B
    BY Zenon
  <2>1. /\ r[i].key \in DOMAIN latest /\ latest[r[i].key].tier = r[i].tier
        /\ latest[r[i].key].at = r[i].at
    BY <1>1, Zenon DEF EntriesNewest
  <2>2. ~Expired(r[i].at, moment)
    BY <1>1, Zenon
  <2> QED BY <2>1, <2>2, Zenon
<1>5. B \subseteq A
  <2> SUFFICES ASSUME NEW k \in DOMAIN latest, ~Expired(latest[k].at, moment) PROVE latest[k].tier \in A
    BY Zenon
  <2>1. PICK i \in Slots : r[i] # NoEntry /\ r[i].key = k
    BY <1>1, Zenon DEF Complete
  <2>2. latest[k].tier = r[i].tier
    BY <1>1, <2>1, Zenon DEF EntriesNewest
  <2> QED BY <2>1, <2>2, Zenon
<1> HIDE DEF A, B
<1>6. A = B
  BY <1>4, <1>5, Zenon
<1> QED BY <1>2, <1>3, <1>6, Zenon
(* The pair table decides for the worst live pair, for every capacity and   *)
(* TTL: exactly, as long as it never was full; and when it was, never below *)
(* what the newest observation of a pair in the batch asks for, because a   *)
(* batch is too short to displace every pair as severe                      *)
(* (AtlPxcPairFusionObserve, AtlPxcPairFusionAggregate).                    *)
THEOREM PairsAreHonoured == AtlProximitySpec => []PairsHonoured
<1>1. TypeInv /\ PairsInv => BatchNotUnderstated
  <2> SUFFICES ASSUME TypeInv, PairsInv, pc["listener"] = "decide", NEW i \in PairEvents(req),
                      \A j \in PairEvents(req) :
                         j > i => PairKey(req.evs[j].pair) # PairKey(req.evs[i].pair)
               PROVE  Aggregate(Fold(pairs, latest, req, moment)[Len(req.evs)].table, moment)
                        >= PairTier(req.evs[i].type)
    BY Zenon DEF BatchNotUnderstated
  <2>1. PairBatch(req)
    BY AtlProximityAssumption, Zenon DEF TypeInv, Places
  <2>2. Folded([table |-> pairs, any |-> FALSE, full |-> FALSE, newest |-> latest], refused, moment)
    BY Zenon DEF Folded, PairsInv
  <2> DEFINE t == Fold(pairs, latest, req, moment)[Len(req.evs)].table
  <2>3. refused \in BOOLEAN
    BY Zenon DEF PairsInv
  <2>4. TableTyped(t, moment) /\ Severe(t, PairTier(req.evs[i].type), moment) # {}
    BY <2>1, <2>2, <2>3, BatchSevere, Zenon
  <2>5. PairTier(req.evs[i].type) \in 1..3
    BY <2>1, PairEventTyped, Zenon
  <2> HIDE DEF t
  <2>6. Aggregate(t, moment) >= PairTier(req.evs[i].type)
    BY <2>4, <2>5, AggregateBound, Zenon
  <2> QED BY <2>6, Zenon DEF t
<1> QED BY <1>1, WorstCaseKept, AtlProximityTyped, PairsHold, PTL DEF PairsHonoured
=============================================================================
