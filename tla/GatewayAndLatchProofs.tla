------------------------ MODULE GatewayAndLatchProofs ------------------------
(***************************************************************************)
(* Proofs about the two ends of the SDMs.                                  *)
(*                                                                         *)
(* The gateway of PSS: two-stage admission, for every set of SDMs and      *)
(* every size of the client table.                                         *)
(*                                                                         *)
(* The safety-latch manager: no release goes out without what warrants it, *)
(* however far the manager is behind the log.  The lines the manager has   *)
(* not read lead, one from the next, from the state of the SDM it last     *)
(* read of to the state the SDM is in (Chain): each line tells the whole   *)
(* change since the line before it, but for the silent end of a manual or  *)
(* unnamed cause.  Reading a line keeps what the manager believes in step  *)
(* with the state that line was written in (Believes), so that its gates,  *)
(* passed, imply the grounds.                                              *)
(***************************************************************************)
EXTENDS PsdGateway, LatchManager, WellFoundedInduction, TLAPS

-----------------------------------------------------------------------------
(* What is in a state of the SDM, in a line and in the manager. *)

SdmRecords ==
    [latched : BOOLEAN, active : SUBSET (Causes \cup {"unnamed"}), failed : SUBSET Pipelines,
     forklift : BOOLEAN, persons : Nat, violation : BOOLEAN, crossed : BOOLEAN,
     had : SUBSET (ManualCauses \cup {"unnamed"}), again : BOOLEAN]

SdmStates == {s \in SdmRecords : s.again => s.had \cap ManualCauses # {}}

Kinds == {"onset", "recovery", "latch", "failed", "recovered", "forklift", "persons", "violation",
          "snapshot", "denied", "accepted", "noLatch"}

Whats == Causes \cup Pipelines \cup BOOLEAN \cup Nat \cup {{}}

Lines == [kind : Kinds, what : Whats, sdm : SdmStates]

Phases == {"none", "pending", "recovered", "settled"}

Releasers ==
    [live : BOOLEAN, failed : SUBSET Pipelines, forklift : {-1, 0, 1}, persons : Nat \cup {-1},
     violation : {-1, 0, 1}, latched : BOOLEAN, causes : [Causes -> Phases], backfilled : BOOLEAN,
     unverified : BOOLEAN, confirm : {"none", "fresh", "ripe"}, gaveUp : BOOLEAN, attempts : Nat]

-----------------------------------------------------------------------------
(* What a line of kind k about x, written in state q, tells of the change  *)
(* since the SDM was in state p.                                           *)

CamerasLogged(p, k, x, q) ==
    /\ k = "failed" => x \in Pipelines /\ q.failed = p.failed \cup {x}
    /\ k = "recovered" => q.failed = p.failed \ {x}
    /\ k \notin {"failed", "recovered"} => q.failed = p.failed

AutosLogged(p, k, x, q) ==
    /\ k = "onset" => /\ x \in Causes /\ x \notin Autos \cap p.active
                      /\ q.active \cap Autos = (p.active \cup {x}) \cap Autos
    /\ k = "recovery" => x \in Autos /\ q.active \cap Autos = (p.active \cap Autos) \ {x}
    /\ k \notin {"onset", "recovery"} => q.active \cap Autos = p.active \cap Autos

ManualsLogged(p, k, x, q) ==
    /\ k = "onset" => /\ q.active \cap ManualCauses \subseteq p.active \cup {x}
                      /\ q.had \cap ManualCauses = (p.had \cup {x}) \cap ManualCauses
                      /\ x \in p.had \/ p.again => q.again
    /\ k \in {"accepted", "noLatch"} => q.active = {} /\ q.had = {} /\ ~q.again
    /\ k \notin {"onset", "accepted", "noLatch"} =>
           /\ q.active \cap ManualCauses \subseteq p.active
           /\ q.had \cap ManualCauses = p.had \cap ManualCauses
           /\ q.again = p.again

LatchLogged(p, k, q) ==
    /\ k \in {"onset", "latch"} => q.latched
    /\ k = "accepted" => ~q.latched
    /\ k = "noLatch" => ~p.latched
    /\ k \notin {"onset", "latch", "accepted"} => q.latched = p.latched

CrossingLogged(p, k, q) ==
    /\ k = "forklift" => q.crossed
    /\ k = "latch" /\ p.latched => q.crossed = p.crossed
    /\ k \notin {"forklift", "latch", "onset"} => q.crossed = p.crossed

SceneLogged(p, k, x, q) ==
    /\ IF k = "forklift" THEN x = q.forklift ELSE q.forklift => p.forklift
    /\ IF k = "persons" THEN x = q.persons ELSE q.persons <= p.persons
    /\ IF k = "violation" THEN x = q.violation ELSE q.violation => p.violation
    /\ k \in {"accepted", "noLatch"} => ~q.forklift /\ q.persons = 0 /\ ~q.violation

Tells(p, k, x, q) ==
    /\ CamerasLogged(p, k, x, q) /\ AutosLogged(p, k, x, q) /\ ManualsLogged(p, k, x, q)
    /\ LatchLogged(p, k, q) /\ CrossingLogged(p, k, q) /\ SceneLogged(p, k, x, q)

Follows(p, l) == Tells(p, l.kind, l.what, l.sdm)

\* The lines w lead from state s to End(s, w).
Chain(s, w) == \A i \in 1..Len(w) : Follows(IF i = 1 THEN s ELSE w[i - 1].sdm, w[i])

End(s, w) == IF w = <<>> THEN s ELSE w[Len(w)].sdm

\* The SDM was in state p at its last line and is in state s: a manual or unnamed cause may
\* have ended without a line.
Silent(p, s) ==
    /\ s.active \subseteq p.active /\ s.active \cap Autos = p.active \cap Autos
    /\ s.latched = p.latched /\ s.failed = p.failed /\ s.forklift = p.forklift /\ s.persons = p.persons
    /\ s.violation = p.violation /\ s.crossed = p.crossed /\ s.had = p.had /\ s.again = p.again

LogInv ==
    /\ sdmState \in SdmStates /\ seen \in SdmStates /\ log \in Seq(Lines)
    /\ snap = <<>> \/ (snap \in Seq(SdmStates) /\ Len(snap) = 1)
    /\ "sensors" \in sdmState.active => sdmState.failed = Pipelines
    /\ Chain(seen, log) /\ Silent(End(seen, log), sdmState)

-----------------------------------------------------------------------------
(* What the manager believes of the state s it last read of.               *)

CausesBelieved(r, s) ==
    /\ \A c \in Autos : c \in s.active <=> r.causes[c] = "pending"
    /\ \A c \in ManualCauses : /\ c \in s.active \cup s.had => r.causes[c] # "none"
                               /\ r.causes[c] = "pending" => c \in s.had
    /\ ~r.latched => \A c \in Causes : r.causes[c] = "none"

DoubtBelieved(r, s) ==
    /\ r.latched = s.latched
    /\ r.latched /\ ~r.unverified => s.crossed \/ s.again
    /\ r.confirm # "none" => r.latched

SceneBelieved(r, s) ==
    /\ s.forklift => r.forklift = 1
    /\ s.persons <= r.persons \/ (r.persons = -1 /\ s.persons = 0)
    /\ s.violation => r.violation = 1

Believes(r, s) ==
    /\ r.failed = s.failed
    /\ CausesBelieved(r, s) /\ DoubtBelieved(r, s) /\ SceneBelieved(r, s)

BeliefInv ==
    /\ m \in Releasers /\ looked \in BOOLEAN
    /\ Believes(m, seen)
    /\ m.confirm # "none" => looked \/ seen.again \/ seen.crossed

LatchInv == LogInv /\ BeliefInv /\ ReleaseWarranted

-----------------------------------------------------------------------------
(* Chains. *)

\* A line that follows from the end of a chain makes it longer.
LEMMA ChainAppend ==
  ASSUME NEW s \in SdmStates, NEW w \in Seq(Lines), NEW l \in Lines, Chain(s, w), Follows(End(s, w), l)
  PROVE  w \o <<l>> \in Seq(Lines) /\ Chain(s, w \o <<l>>) /\ End(s, w \o <<l>>) = l.sdm
<1> DEFINE v == w \o <<l>>
<1>1. /\ v \in Seq(Lines) /\ Len(v) = Len(w) + 1 /\ Len(w) \in Nat
      /\ \A i \in 1..Len(w) : v[i] = w[i]
      /\ v[Len(w) + 1] = l
  OBVIOUS
<1>2. v # <<>>
  BY <1>1
<1>3. End(s, v) = l.sdm
  BY <1>1, <1>2, Zenon DEF End
<1>4. ASSUME NEW i \in 1..Len(v)
      PROVE  Follows(IF i = 1 THEN s ELSE v[i - 1].sdm, v[i])
  <2>1. CASE i <= Len(w)
    <3>1. v[i] = w[i] /\ (i # 1 => v[i - 1] = w[i - 1])
      BY <1>1, <2>1
    <3> HIDE DEF v
    <3> QED BY <3>1, <2>1, <1>1 DEF Chain
  <2>2. CASE i = Len(w) + 1
    <3>1. v[i] = l /\ (i # 1 => w # <<>> /\ v[i - 1] = w[Len(w)])
      BY <1>1, <2>2
    <3>2. i = 1 => w = <<>>
      BY <2>2, <1>1
    <3> HIDE DEF v
    <3> QED BY <3>1, <3>2, Zenon DEF End
  <2> HIDE DEF v
  <2> QED BY <2>1, <2>2, <1>1
<1> QED BY <1>1, <1>3, <1>4, Zenon DEF Chain

\* The first line read off a chain: it follows from the start, and the rest from it.
LEMMA ChainTail ==
  ASSUME NEW s \in SdmStates, NEW w \in Seq(Lines), w # <<>>, Chain(s, w)
  PROVE  /\ Head(w) \in Lines /\ Tail(w) \in Seq(Lines)
         /\ Follows(s, Head(w))
         /\ Chain(Head(w).sdm, Tail(w))
         /\ End(Head(w).sdm, Tail(w)) = End(s, w)
<1> DEFINE v == Tail(w)
<1>1. /\ v \in Seq(Lines) /\ Len(v) = Len(w) - 1 /\ Len(w) \in Nat \ {0} /\ Head(w) = w[1]
      /\ \A i \in 1..Len(v) : v[i] = w[i + 1]
  OBVIOUS
<1>0. v = <<>> <=> Len(w) = 1
  <2> HIDE DEF v
  <2>1. v = <<>> <=> Len(v) = 0
    BY <1>1
  <2> QED BY <2>1, <1>1
<1>2. Head(w) \in Lines
  OBVIOUS
<1>3. Follows(s, Head(w))
  <2>1. 1 \in 1..Len(w)
    BY <1>1
  <2> QED BY <2>1, <1>1, Zenon DEF Chain
<1>4. ASSUME NEW i \in 1..Len(v)
      PROVE  Follows(IF i = 1 THEN Head(w).sdm ELSE v[i - 1].sdm, v[i])
  <2> HIDE DEF v
  <2>1. i + 1 \in 1..Len(w) /\ i + 1 # 1 /\ (i + 1) - 1 = i
    BY <1>1
  <2>2. Follows(w[i].sdm, w[i + 1])
    BY <2>1, Zenon DEF Chain
  <2>3. i # 1 => v[i - 1] = w[i]
    BY <1>1
  <2> QED BY <1>1, <2>2, <2>3, Zenon
<1>5. End(Head(w).sdm, v) = End(s, w)
  <2> HIDE DEF v
  <2>1. CASE v = <<>>
    BY <2>1, <1>1, <1>0, Zenon DEF End
  <2>2. CASE v # <<>>
    <3>1. v[Len(v)] = w[Len(w)]
      BY <2>2, <1>1
    <3> QED BY <3>1, <2>2, Zenon DEF End
  <2> QED BY <2>1, <2>2, Zenon
<1> QED BY <1>1, <1>2, <1>3, <1>4, <1>5, Zenon DEF Chain

-----------------------------------------------------------------------------
(* The SDM's steps: what they write follows from its last line. *)

LEMMA SdmFields ==
  ASSUME NEW s \in SdmStates
  PROVE  /\ s.latched \in BOOLEAN /\ s.active \subseteq Causes \cup {"unnamed"} /\ s.failed \subseteq Pipelines
         /\ s.forklift \in BOOLEAN /\ s.persons \in Nat /\ s.violation \in BOOLEAN /\ s.crossed \in BOOLEAN
         /\ s.had \subseteq ManualCauses \cup {"unnamed"} /\ s.again \in BOOLEAN
         /\ s.again => s.had \cap ManualCauses # {}
  BY Zenon DEF SdmStates, SdmRecords

\* What a line tells, it tells also after the silent end of a cause.
LEMMA TellsAll ==
  ASSUME NEW p, NEW s, NEW k, NEW x, NEW q, Silent(p, s), Tells(s, k, x, q)
  PROVE  Tells(p, k, x, q)
<1> USE DEF Silent, Tells
<1>1. CamerasLogged(p, k, x, q) /\ LatchLogged(p, k, q) /\ CrossingLogged(p, k, q) /\ SceneLogged(p, k, x, q)
  BY Zenon DEF CamerasLogged, LatchLogged, CrossingLogged, SceneLogged
<1>2. AutosLogged(p, k, x, q) /\ ManualsLogged(p, k, x, q)
  BY Zenon DEF AutosLogged, ManualsLogged
<1> QED BY <1>1, <1>2, Zenon

\* The SDM writes one line.
LEMMA WroteOne ==
  ASSUME LogInv, NEW k \in Kinds, NEW x \in Whats, NEW t \in SdmStates, Tells(sdmState, k, x, t),
         Write(t, <<Line(k, x, t)>>), "sensors" \in t.active => t.failed = Pipelines
  PROVE  LogInv'
<1> DEFINE l == Line(k, x, t)
<1>1. l \in Lines /\ l.sdm = t /\ l.kind = k /\ l.what = x
  BY Zenon DEF Line, Lines
<1> HIDE DEF l
<1>2. log' = log \o <<l>> /\ sdmState' = t /\ seen' = seen
  BY Zenon DEF Write, l
<1>3. Follows(End(seen, log), l)
  BY <1>1, TellsAll, Zenon DEF LogInv, Follows
<1>4. log' \in Seq(Lines) /\ Chain(seen, log') /\ End(seen, log') = t
  BY <1>1, <1>2, <1>3, ChainAppend, Zenon DEF LogInv
<1>5. snap' = <<>> \/ (snap' \in Seq(SdmStates) /\ Len(snap') = 1)
  BY DEF Write, LogInv
<1> QED BY <1>2, <1>4, <1>5, Zenon DEF LogInv, Silent

\* Or two, when a camera changes the all-failed condition.
LEMMA WroteTwo ==
  ASSUME LogInv, NEW k \in Kinds, NEW x \in Whats, NEW s \in SdmStates, Tells(sdmState, k, x, s),
         NEW h \in Kinds, NEW y \in Whats, NEW t \in SdmStates, Tells(s, h, y, t), k # "snapshot",
         Write(t, <<Line(k, x, s)>> \o <<Line(h, y, t)>>), "sensors" \in t.active => t.failed = Pipelines
  PROVE  LogInv'
<1> DEFINE a == Line(k, x, s)
           b == Line(h, y, t)
           w == log \o <<a>>
<1>1. /\ a \in Lines /\ a.sdm = s /\ a.kind = k /\ a.what = x
      /\ b \in Lines /\ b.sdm = t /\ b.kind = h /\ b.what = y
  BY Zenon DEF Line, Lines
<1> HIDE DEF a, b
<1>2. sdmState' = t /\ seen' = seen /\ snap' = snap /\ log' = log \o (<<a>> \o <<b>>)
  <2>1. (<<a>> \o <<b>>)[1] = a
    OBVIOUS
  <2> QED BY <1>1, <2>1, Zenon DEF Write, a, b
<1>3. log' = w \o <<b>>
  BY <1>2 DEF LogInv
<1>4. Follows(End(seen, log), a)
  BY <1>1, TellsAll, Zenon DEF LogInv, Follows
<1>5. w \in Seq(Lines) /\ Chain(seen, w) /\ End(seen, w) = s
  BY <1>1, <1>4, ChainAppend, Zenon DEF LogInv
<1> HIDE DEF w
<1>6. log' \in Seq(Lines) /\ Chain(seen, log') /\ End(seen, log') = t
  BY <1>1, <1>3, <1>5, ChainAppend DEF LogInv, Follows
<1> QED BY <1>2, <1>6, Zenon DEF LogInv, Silent

\* A cause begins.
LEMMA BeginTells ==
  ASSUME NEW s \in SdmStates, NEW c \in Causes \ s.active
  PROVE  /\ Begin(s, c) \in SdmStates /\ Tells(s, "onset", c, Begin(s, c)) /\ "onset" \in Kinds /\ c \in Whats
         /\ Begin(s, c).active = s.active \cup {c} /\ Begin(s, c).failed = s.failed
<1> DEFINE t == Begin(s, c)
<1>1. /\ t.active = s.active \cup {c} /\ t.latched = TRUE /\ t.crossed = FALSE
      /\ t.had = s.had \cup ({c} \cap ManualCauses) /\ t.again = (s.again \/ c \in s.had)
      /\ t.failed = s.failed /\ t.forklift = s.forklift /\ t.persons = s.persons /\ t.violation = s.violation
  BY Zenon DEF Begin, SdmStates, SdmRecords
<1>2. t \in SdmRecords
  BY SdmFields, ZenonT(40) DEF Begin, SdmStates, SdmRecords
<1> HIDE DEF t
<1>3. t.again => t.had \cap ManualCauses # {}
  BY <1>1, LatchAssumption, SdmFields, Zenon DEF Causes, Autos
<1>4. AutosLogged(s, "onset", c, t) /\ ManualsLogged(s, "onset", c, t)
  BY <1>1, Zenon DEF AutosLogged, ManualsLogged
<1>5. /\ CamerasLogged(s, "onset", c, t) /\ LatchLogged(s, "onset", t) /\ CrossingLogged(s, "onset", t)
      /\ SceneLogged(s, "onset", c, t)
  BY <1>1, SdmFields DEF CamerasLogged, LatchLogged, CrossingLogged, SceneLogged
<1> QED BY <1>1, <1>2, <1>3, <1>4, <1>5, Zenon DEF Tells, Kinds, Whats, SdmStates, t

LEMMA OnsetLogged ==
  ASSUME LogInv, NEW c \in AutoCauses \cup ManualCauses, SdmOnset(c)
  PROVE  LogInv'
<1>1. sdmState \in SdmStates /\ c \in Causes \ sdmState.active /\ c # "sensors"
  BY LatchAssumption, Zenon DEF LogInv, SdmOnset, Causes, Autos
<1> QED BY <1>1, BeginTells, WroteOne, Zenon DEF SdmOnset, LogInv

\* An automatic cause ends.
LEMMA RecoveryTells ==
  ASSUME NEW s \in SdmStates, NEW c \in Autos, NEW t, t = [s EXCEPT !.active = @ \ {c}]
  PROVE  /\ t \in SdmStates /\ Tells(s, "recovery", c, t) /\ "recovery" \in Kinds /\ c \in Whats
         /\ t.active = s.active \ {c} /\ t.latched = s.latched /\ t.crossed = s.crossed /\ t.had = s.had /\ t.again = s.again
         /\ t.failed = s.failed /\ t.forklift = s.forklift /\ t.persons = s.persons /\ t.violation = s.violation
<1>1. /\ t.active = s.active \ {c} /\ t.latched = s.latched /\ t.crossed = s.crossed /\ t.had = s.had /\ t.again = s.again
      /\ t.failed = s.failed /\ t.forklift = s.forklift /\ t.persons = s.persons /\ t.violation = s.violation
  BY Zenon DEF SdmStates, SdmRecords
<1>2. t \in SdmRecords
  BY SdmFields, Zenon DEF SdmStates, SdmRecords
<1>3. AutosLogged(s, "recovery", c, t) /\ ManualsLogged(s, "recovery", c, t)
  BY <1>1, LatchAssumption, Zenon DEF AutosLogged, ManualsLogged
<1>4. /\ CamerasLogged(s, "recovery", c, t) /\ LatchLogged(s, "recovery", t) /\ CrossingLogged(s, "recovery", t)
      /\ SceneLogged(s, "recovery", c, t)
  BY <1>1, SdmFields DEF CamerasLogged, LatchLogged, CrossingLogged, SceneLogged
<1> QED BY <1>1, <1>2, <1>3, <1>4, SdmFields, Zenon DEF Tells, Kinds, Whats, SdmStates, Causes

LEMMA RecoveryLogged ==
  ASSUME LogInv, NEW c \in AutoCauses \cup ManualCauses, SdmRecovery(c)
  PROVE  LogInv'
<1> DEFINE t == [sdmState EXCEPT !.active = @ \ {c}]
<1>0. c \in Autos
  BY Zenon DEF SdmRecovery, Autos
<1>1. Write(t, <<Line("recovery", c, t)>>)
  BY Zenon DEF SdmRecovery
<1>2. t = [sdmState EXCEPT !.active = @ \ {c}] /\ sdmState \in SdmStates
  BY Zenon DEF LogInv
<1> HIDE DEF t
<1>3. /\ t \in SdmStates /\ Tells(sdmState, "recovery", c, t) /\ "recovery" \in Kinds /\ c \in Whats
      /\ t.active = sdmState.active \ {c} /\ t.failed = sdmState.failed
  BY <1>2, <1>0, RecoveryTells
<1> QED BY <1>1, <1>3, WroteOne, Zenon DEF LogInv

\* A latch without a cause that the log names.
LEMMA UnnamedLogged ==
  ASSUME LogInv, SdmUnnamed
  PROVE  LogInv'
<1> DEFINE s == sdmState
           t == [sdmState EXCEPT !.active = @ \cup {"unnamed"}, !.latched = TRUE,
                          !.crossed = @ /\ sdmState.latched, !.had = @ \cup {"unnamed"}]
<1>0. "unnamed" \notin Autos /\ "unnamed" \notin ManualCauses
  BY LatchAssumption, Zenon DEF Autos
<1>1. Write(t, <<Line("latch", {}, t)>>) /\ s \in SdmStates
  BY Zenon DEF SdmUnnamed, LogInv
<1>2. /\ t.active = s.active \cup {"unnamed"} /\ t.latched = TRUE /\ t.crossed = (s.crossed /\ s.latched) /\ t.had = s.had \cup {"unnamed"} /\ t.again = s.again
      /\ t.failed = s.failed /\ t.forklift = s.forklift /\ t.persons = s.persons /\ t.violation = s.violation
  BY <1>1, Zenon DEF SdmStates, SdmRecords
<1>3. t \in SdmRecords
  BY <1>1, SdmFields, Zenon DEF SdmStates, SdmRecords
<1> HIDE DEF s, t
<1>4. AutosLogged(s, "latch", {}, t) /\ ManualsLogged(s, "latch", {}, t)
  BY <1>2, <1>0, Zenon DEF AutosLogged, ManualsLogged
<1>5. /\ CamerasLogged(s, "latch", {}, t) /\ LatchLogged(s, "latch", t) /\ CrossingLogged(s, "latch", t)
      /\ SceneLogged(s, "latch", {}, t)
  BY <1>1, <1>2, SdmFields DEF CamerasLogged, LatchLogged, CrossingLogged, SceneLogged
<1>6. t \in SdmStates /\ Tells(s, "latch", {}, t) /\ "latch" \in Kinds /\ {} \in Whats
  BY <1>1, <1>2, <1>3, <1>4, <1>5, SdmFields, Zenon DEF Tells, Kinds, Whats, SdmStates
<1> QED BY <1>1, <1>2, <1>6, WroteOne, Zenon DEF LogInv, s

\* A manual or unnamed cause ends: no line.
LEMMA ClearsLogged ==
  ASSUME LogInv, NEW c \in ManualCauses \cup {"unnamed"}, SdmClears(c)
  PROVE  LogInv'
<1> DEFINE s == sdmState
           t == [sdmState EXCEPT !.active = @ \ {c}]
<1>0. sdmState \in SdmStates /\ c \notin Autos
  BY LatchAssumption, Zenon DEF LogInv, Autos
<1>1. sdmState' = t /\ log' = log /\ seen' = seen /\ snap' = snap
  BY DEF SdmClears, Write, LogInv
<1>2. /\ t.active = s.active \ {c} /\ t.latched = s.latched /\ t.crossed = s.crossed
      /\ t.had = s.had /\ t.again = s.again /\ t.failed = s.failed
      /\ t.forklift = s.forklift /\ t.persons = s.persons /\ t.violation = s.violation
  BY <1>0, Zenon DEF SdmStates, SdmRecords
<1>3. t \in SdmRecords
  BY <1>0, SdmFields, Zenon DEF SdmStates, SdmRecords
<1> HIDE DEF t
<1>4. t \in SdmStates
  BY <1>0, <1>2, <1>3, SdmFields, Zenon DEF SdmStates
<1>5. Silent(End(seen, log), t)
  BY <1>0, <1>2, Zenon DEF LogInv, Silent
<1> QED BY <1>1, <1>2, <1>4, <1>5, Zenon DEF LogInv

\* A camera fails.
LEMMA FailedTells ==
  ASSUME NEW s \in SdmStates, NEW c \in Pipelines, NEW t, t = [s EXCEPT !.failed = @ \cup {c}]
  PROVE  /\ t \in SdmStates /\ Tells(s, "failed", c, t) /\ "failed" \in Kinds /\ c \in Whats
         /\ t.active = s.active /\ t.latched = s.latched /\ t.crossed = s.crossed /\ t.had = s.had /\ t.again = s.again
         /\ t.failed = s.failed \cup {c} /\ t.forklift = s.forklift /\ t.persons = s.persons /\ t.violation = s.violation
<1>1. /\ t.active = s.active /\ t.latched = s.latched /\ t.crossed = s.crossed /\ t.had = s.had /\ t.again = s.again
      /\ t.failed = s.failed \cup {c} /\ t.forklift = s.forklift /\ t.persons = s.persons /\ t.violation = s.violation
  BY Zenon DEF SdmStates, SdmRecords
<1>2. t \in SdmRecords
  BY SdmFields, Zenon DEF SdmStates, SdmRecords
<1>3. AutosLogged(s, "failed", c, t) /\ ManualsLogged(s, "failed", c, t)
  BY <1>1, Zenon DEF AutosLogged, ManualsLogged
<1>4. /\ CamerasLogged(s, "failed", c, t) /\ LatchLogged(s, "failed", t) /\ CrossingLogged(s, "failed", t)
      /\ SceneLogged(s, "failed", c, t)
  BY <1>1, SdmFields DEF CamerasLogged, LatchLogged, CrossingLogged, SceneLogged
<1> QED BY <1>1, <1>2, <1>3, <1>4, SdmFields, Zenon DEF Tells, Kinds, Whats, SdmStates, Causes

\* A camera recovers.
LEMMA RecoveredTells ==
  ASSUME NEW s \in SdmStates, NEW c \in Pipelines, NEW t, t = [s EXCEPT !.failed = @ \ {c}]
  PROVE  /\ t \in SdmStates /\ Tells(s, "recovered", c, t) /\ "recovered" \in Kinds /\ c \in Whats
         /\ t.active = s.active /\ t.latched = s.latched /\ t.crossed = s.crossed /\ t.had = s.had /\ t.again = s.again
         /\ t.failed = s.failed \ {c} /\ t.forklift = s.forklift /\ t.persons = s.persons /\ t.violation = s.violation
<1>1. /\ t.active = s.active /\ t.latched = s.latched /\ t.crossed = s.crossed /\ t.had = s.had /\ t.again = s.again
      /\ t.failed = s.failed \ {c} /\ t.forklift = s.forklift /\ t.persons = s.persons /\ t.violation = s.violation
  BY Zenon DEF SdmStates, SdmRecords
<1>2. t \in SdmRecords
  BY SdmFields, Zenon DEF SdmStates, SdmRecords
<1>3. AutosLogged(s, "recovered", c, t) /\ ManualsLogged(s, "recovered", c, t)
  BY <1>1, Zenon DEF AutosLogged, ManualsLogged
<1>4. /\ CamerasLogged(s, "recovered", c, t) /\ LatchLogged(s, "recovered", t) /\ CrossingLogged(s, "recovered", t)
      /\ SceneLogged(s, "recovered", c, t)
  BY <1>1, SdmFields DEF CamerasLogged, LatchLogged, CrossingLogged, SceneLogged
<1> QED BY <1>1, <1>2, <1>3, <1>4, SdmFields, Zenon DEF Tells, Kinds, Whats, SdmStates, Causes

LEMMA FailsLogged ==
  ASSUME LogInv, NEW c \in Pipelines, SdmCameraFails(c)
  PROVE  LogInv'
<1> DEFINE s == [sdmState EXCEPT !.failed = @ \cup {c}]
           t == Begin(s, "sensors")
<1>1. /\ sdmState \in SdmStates /\ s \in SdmStates /\ Tells(sdmState, "failed", c, s)
      /\ "failed" \in Kinds /\ c \in Whats /\ s.active = sdmState.active
  BY FailedTells DEF LogInv
<1>2. "sensors" \in Causes \ sdmState.active
  BY Zenon DEF LogInv, SdmCameraFails, Causes, Autos
<1>3. CASE s.failed = Pipelines
  <2>1. Write(t, <<Line("failed", c, s)>> \o <<Line("onset", "sensors", t)>>)
    BY <1>3, Zenon DEF SdmCameraFails
  <2> HIDE DEF s
  <2>2. t \in SdmStates /\ Tells(s, "onset", "sensors", t) /\ "onset" \in Kinds /\ "sensors" \in Whats /\ t.failed = Pipelines
    BY <1>1, <1>2, <1>3, BeginTells, Zenon
  <2> HIDE DEF t
  <2> QED BY <1>1, <2>1, <2>2, WroteTwo, Zenon
<1>4. CASE s.failed # Pipelines
  <2>1. Write(s, <<Line("failed", c, s)>> \o <<>>)
    BY <1>4, Zenon DEF SdmCameraFails
  <2> HIDE DEF s
  <2>2. Write(s, <<Line("failed", c, s)>>)
    BY <2>1
  <2> QED BY <1>1, <1>2, <2>2, WroteOne, Zenon
<1> QED BY <1>3, <1>4, Zenon

LEMMA RecoversLogged ==
  ASSUME LogInv, NEW c \in Pipelines, SdmCameraRecovers(c)
  PROVE  LogInv'
<1> DEFINE s == [sdmState EXCEPT !.failed = @ \ {c}]
           t == [s EXCEPT !.active = @ \ {"sensors"}]
<1>1. /\ s \in SdmStates /\ Tells(sdmState, "recovered", c, s)
      /\ "recovered" \in Kinds /\ c \in Whats /\ s.active = sdmState.active
  BY RecoveredTells DEF LogInv
<1>2. CASE "sensors" \in sdmState.active
  <2>1. Write(t, <<Line("recovered", c, s)>> \o <<Line("recovery", "sensors", t)>>)
    BY <1>2, Zenon DEF SdmCameraRecovers
  <2> HIDE DEF s
  <2>2. /\ t \in SdmStates /\ Tells(s, "recovery", "sensors", t) /\ "recovery" \in Kinds /\ "sensors" \in Whats
        /\ "sensors" \notin t.active
    BY <1>1, RecoveryTells DEF Autos
  <2> HIDE DEF t
  <2> QED BY <1>1, <2>1, <2>2, WroteTwo, Zenon
<1>3. CASE "sensors" \notin sdmState.active
  <2>1. Write(t, <<Line("recovered", c, s)>> \o <<>>)
    BY <1>3, Zenon DEF SdmCameraRecovers
  <2> HIDE DEF s
  <2>2. t = s
    BY <1>1, <1>3 DEF SdmStates, SdmRecords
  <2> HIDE DEF t
  <2>3. Write(s, <<Line("recovered", c, s)>>)
    BY <2>1, <2>2
  <2> QED BY <1>1, <1>3, <2>3, WroteOne, Zenon
<1> QED BY <1>2, <1>3, Zenon

\* The forklift crosses.
LEMMA ForkliftLogged ==
  ASSUME LogInv, SdmForklift
  PROVE  LogInv'
<1> DEFINE s == sdmState
           t == [sdmState EXCEPT !.forklift = ~@, !.crossed = TRUE]
<1>1. Write(t, <<Line("forklift", t.forklift, t)>>) /\ s \in SdmStates
  BY Zenon DEF SdmForklift, LogInv
<1>2. /\ t.active = s.active /\ t.latched = s.latched /\ t.crossed = TRUE /\ t.had = s.had /\ t.again = s.again
      /\ t.failed = s.failed /\ t.forklift = (~s.forklift) /\ t.persons = s.persons /\ t.violation = s.violation
  BY <1>1, Zenon DEF SdmStates, SdmRecords
<1>3. t \in SdmRecords
  BY <1>1, SdmFields, ZenonT(40) DEF SdmStates, SdmRecords
<1> HIDE DEF s, t
<1>4. AutosLogged(s, "forklift", t.forklift, t) /\ ManualsLogged(s, "forklift", t.forklift, t)
  BY <1>2, Zenon DEF AutosLogged, ManualsLogged
<1>5. /\ CamerasLogged(s, "forklift", t.forklift, t) /\ LatchLogged(s, "forklift", t) /\ CrossingLogged(s, "forklift", t)
      /\ SceneLogged(s, "forklift", t.forklift, t)
  BY <1>1, <1>2, SdmFields DEF CamerasLogged, LatchLogged, CrossingLogged, SceneLogged
<1>6. t \in SdmStates /\ Tells(s, "forklift", t.forklift, t) /\ "forklift" \in Kinds /\ t.forklift \in Whats
  BY <1>1, <1>2, <1>3, <1>4, <1>5, SdmFields, Zenon DEF Tells, Kinds, Whats, SdmStates
<1> QED BY <1>1, <1>2, <1>6, WroteOne, Zenon DEF LogInv, s

\* The persons are counted.
LEMMA PersonsTells ==
  ASSUME NEW s \in SdmStates, NEW n \in Nat, NEW t, t = [s EXCEPT !.persons = n]
  PROVE  /\ t \in SdmStates /\ Tells(s, "persons", n, t) /\ "persons" \in Kinds /\ n \in Whats
         /\ t.active = s.active /\ t.latched = s.latched /\ t.crossed = s.crossed /\ t.had = s.had /\ t.again = s.again
         /\ t.failed = s.failed /\ t.forklift = s.forklift /\ t.persons = n /\ t.violation = s.violation
<1>1. /\ t.active = s.active /\ t.latched = s.latched /\ t.crossed = s.crossed /\ t.had = s.had /\ t.again = s.again
      /\ t.failed = s.failed /\ t.forklift = s.forklift /\ t.persons = n /\ t.violation = s.violation
  BY Zenon DEF SdmStates, SdmRecords
<1>2. t \in SdmRecords
  BY SdmFields, Zenon DEF SdmStates, SdmRecords
<1>3. AutosLogged(s, "persons", n, t) /\ ManualsLogged(s, "persons", n, t)
  BY <1>1, Zenon DEF AutosLogged, ManualsLogged
<1>4. /\ CamerasLogged(s, "persons", n, t) /\ LatchLogged(s, "persons", t) /\ CrossingLogged(s, "persons", t)
      /\ SceneLogged(s, "persons", n, t)
  BY <1>1, SdmFields, Zenon DEF CamerasLogged, LatchLogged, CrossingLogged, SceneLogged
<1> QED BY <1>1, <1>2, <1>3, <1>4, SdmFields, Zenon DEF Tells, Kinds, Whats, SdmStates, Causes

LEMMA PersonsLogged ==
  ASSUME LogInv, NEW n \in 0..MaxPersons, SdmPersons(n)
  PROVE  LogInv'
<1> DEFINE t == [sdmState EXCEPT !.persons = n]
<1>1. Write(t, <<Line("persons", n, t)>>) /\ sdmState \in SdmStates
  BY Zenon DEF SdmPersons, LogInv
<1>2. n \in Nat
  BY LatchAssumption
<1>0. t = [sdmState EXCEPT !.persons = n]
  BY Zenon
<1> HIDE DEF t
<1>3. /\ t \in SdmStates /\ Tells(sdmState, "persons", n, t) /\ "persons" \in Kinds /\ n \in Whats
      /\ t.active = sdmState.active /\ t.failed = sdmState.failed
  BY <1>0, <1>1, <1>2, PersonsTells
<1> QED BY <1>1, <1>3, WroteOne, Zenon DEF LogInv

\* The restricted area is entered or left.
LEMMA ViolationLogged ==
  ASSUME LogInv, SdmViolation
  PROVE  LogInv'
<1> DEFINE s == sdmState
           t == [sdmState EXCEPT !.violation = ~@]
<1>1. Write(t, <<Line("violation", t.violation, t)>>) /\ s \in SdmStates
  BY Zenon DEF SdmViolation, LogInv
<1>2. /\ t.active = s.active /\ t.latched = s.latched /\ t.crossed = s.crossed /\ t.had = s.had /\ t.again = s.again
      /\ t.failed = s.failed /\ t.forklift = s.forklift /\ t.persons = s.persons /\ t.violation = (~s.violation)
  BY <1>1, Zenon DEF SdmStates, SdmRecords
<1>3. t \in SdmRecords
  BY <1>1, SdmFields, Zenon DEF SdmStates, SdmRecords
<1> HIDE DEF s, t
<1>4. AutosLogged(s, "violation", t.violation, t) /\ ManualsLogged(s, "violation", t.violation, t)
  BY <1>2, Zenon DEF AutosLogged, ManualsLogged
<1>5. /\ CamerasLogged(s, "violation", t.violation, t) /\ LatchLogged(s, "violation", t) /\ CrossingLogged(s, "violation", t)
      /\ SceneLogged(s, "violation", t.violation, t)
  BY <1>1, <1>2, SdmFields DEF CamerasLogged, LatchLogged, CrossingLogged, SceneLogged
<1>6. t \in SdmStates /\ Tells(s, "violation", t.violation, t) /\ "violation" \in Kinds /\ t.violation \in Whats
  BY <1>1, <1>2, <1>3, <1>4, <1>5, SdmFields, Zenon DEF Tells, Kinds, Whats, SdmStates
<1> QED BY <1>1, <1>2, <1>6, WroteOne, Zenon DEF LogInv, s

\* A line that reports no change, and an accepted release.
LEMMA SaysTells ==
  ASSUME NEW s \in SdmStates, NEW k \in {"latch", "snapshot", "denied"}, k = "latch" => s.latched
  PROVE  Tells(s, k, {}, s) /\ k \in Kinds /\ {} \in Whats
  BY SdmFields DEF Tells, CamerasLogged, AutosLogged, ManualsLogged, LatchLogged, CrossingLogged, SceneLogged, Kinds, Whats

LEMMA SaysLogged ==
  ASSUME LogInv, SdmSays
  PROVE  LogInv'
  BY SaysTells, WroteOne, Zenon DEF SdmSays, LogInv

LEMMA AnswerTells ==
  ASSUME NEW s \in SdmStates, s.active = {}, NEW k \in {"accepted", "noLatch"}, k = "noLatch" => ~s.latched,
         NEW t, t = [StartSdm EXCEPT !.failed = s.failed, !.crossed = s.crossed]
  PROVE  /\ t \in SdmStates /\ Tells(s, k, {}, t) /\ k \in Kinds /\ {} \in Whats
         /\ t.active = {} /\ t.latched = FALSE /\ t.crossed = s.crossed /\ t.had = {} /\ t.again = FALSE
         /\ t.failed = s.failed /\ t.forklift = FALSE /\ t.persons = 0 /\ t.violation = FALSE
<1>1. /\ t.active = {} /\ t.latched = FALSE /\ t.crossed = s.crossed /\ t.had = {} /\ t.again = FALSE
      /\ t.failed = s.failed /\ t.forklift = FALSE /\ t.persons = 0 /\ t.violation = FALSE
  BY Zenon DEF SdmStates, SdmRecords, StartSdm
<1>2. t \in SdmRecords
  BY SdmFields, Zenon DEF SdmStates, SdmRecords, StartSdm
<1>3. AutosLogged(s, k, {}, t) /\ ManualsLogged(s, k, {}, t)
  BY <1>1, Zenon DEF AutosLogged, ManualsLogged
<1>4. CamerasLogged(s, k, {}, t) /\ LatchLogged(s, k, t) /\ CrossingLogged(s, k, t)
  BY <1>1, SdmFields, Zenon DEF CamerasLogged, LatchLogged, CrossingLogged
<1>5. SceneLogged(s, k, {}, t)
  BY <1>1, SdmFields DEF SceneLogged
<1> QED BY <1>1, <1>2, <1>3, <1>4, <1>5, SdmFields, Zenon DEF Tells, Kinds, Whats, SdmStates, Causes

LEMMA AnswerLogged ==
  ASSUME LogInv, SdmAnswer
  PROVE  LogInv'
<1>1. CASE sdmState.active # {}
  BY <1>1, SaysTells, WroteOne, Zenon DEF SdmAnswer, LogInv
<1>2. CASE sdmState.active = {}
  BY <1>2, AnswerTells, WroteOne, Zenon DEF SdmAnswer, LogInv
<1> QED BY <1>1, <1>2, Zenon

\* The steps of the SDM keep the chain, and leave the manager alone.
LEMMA SdmKeeps ==
  ASSUME LogInv, SdmNext
  PROVE  LogInv' /\ UNCHANGED <<m, seen, faults, looked>>
<1>1. UNCHANGED <<m, seen, faults, looked>>
  BY Zenon DEF SdmNext, SdmOnset, SdmRecovery, SdmClears, SdmCameraFails, SdmCameraRecovers, SdmPersons, SdmUnnamed,
         SdmForklift, SdmViolation, SdmSays, SdmAnswer, Lose, Write
<1>2. CASE Lose
  BY <1>2, Zenon DEF Lose, LogInv
<1> QED BY <1>1, <1>2, OnsetLogged, RecoveryLogged, ClearsLogged, FailsLogged, RecoversLogged, PersonsLogged,
           UnnamedLogged, ForkliftLogged, ViolationLogged, SaysLogged, AnswerLogged, Zenon DEF SdmNext

-----------------------------------------------------------------------------
(* What reading a line does to the manager's belief. *)

LEMMA ReleaserFields ==
  ASSUME NEW r \in Releasers
  PROVE  /\ r.live \in BOOLEAN /\ r.failed \subseteq Pipelines /\ r.forklift \in {-1, 0, 1}
         /\ r.persons \in Nat \cup {-1} /\ r.violation \in {-1, 0, 1} /\ r.latched \in BOOLEAN
         /\ r.causes \in [Causes -> Phases] /\ r.backfilled \in BOOLEAN /\ r.unverified \in BOOLEAN
         /\ r.confirm \in {"none", "fresh", "ripe"} /\ r.gaveUp \in BOOLEAN /\ r.attempts \in Nat
  BY Zenon DEF Releasers

\* What reading line l, written after a state p, makes of the releaser r: a first press stands
\* only where the line raises no doubt.
PressStands(r, p, l, x) ==
    x.confirm # "none" => /\ r.confirm # "none" /\ l.sdm.latched
                          /\ p.again => l.sdm.again
                          /\ p.crossed => l.sdm.crossed \/ l.sdm.again

Heard(r, p, l, x) == x \in Releasers /\ Believes(x, l.sdm) /\ PressStands(r, p, l, x)

LEMMA LineState ==
  ASSUME NEW l \in Lines
  PROVE  /\ l.sdm \in SdmStates /\ l.sdm \in SdmRecords /\ l.kind \in Kinds
  BY Zenon DEF Lines, SdmStates

\* A line that tells of no latch and no cause leaves those beliefs as they are.
LEMMA HeardSame ==
  ASSUME NEW r \in Releasers, NEW p \in SdmStates, NEW l \in Lines, Believes(r, p), Follows(p, l),
         l.kind \in {"failed", "recovered", "persons", "forklift", "violation", "snapshot", "denied"},
         NEW x \in Releasers, x.latched = r.latched /\ x.causes = r.causes /\ x.confirm = r.confirm,
         x.unverified = r.unverified \/ l.kind = "forklift",
         x.failed = l.sdm.failed, SceneBelieved(x, l.sdm)
  PROVE  Heard(r, p, l, x)
<1>1. CausesBelieved(x, l.sdm)
  BY DEF Believes, CausesBelieved, Follows, Tells, AutosLogged, ManualsLogged
<1>2. DoubtBelieved(x, l.sdm) /\ (p.again => l.sdm.again) /\ (p.crossed => l.sdm.crossed \/ l.sdm.again)
  BY Zenon DEF Believes, DoubtBelieved, Follows, Tells, LatchLogged, CrossingLogged, ManualsLogged
<1> QED BY <1>1, <1>2, Zenon DEF Heard, PressStands, Believes, DoubtBelieved

\* A denial: the manager changes nothing.
LEMMA HeardDenied ==
  ASSUME NEW r \in Releasers, NEW p \in SdmStates, NEW l \in Lines, Believes(r, p), Follows(p, l),
         l.kind = "denied"
  PROVE  Heard(r, p, l, After(r, l))
<1> DEFINE x == After(r, l)
<1>1. x = r
  BY Zenon DEF After, Scene
<1> HIDE DEF x
<1>2. /\ x.failed = r.failed /\ x.forklift = r.forklift /\ x.persons = r.persons /\ x.violation = r.violation
      /\ x.latched = r.latched /\ x.causes = r.causes /\ x.unverified = r.unverified /\ x.confirm = r.confirm
  BY <1>1, Zenon DEF Releasers
<1>3. x.failed = l.sdm.failed /\ SceneBelieved(x, l.sdm)
  BY <1>2, LineState, SdmFields, ReleaserFields
  DEF Believes, SceneBelieved, Follows, Tells, SceneLogged, CamerasLogged
<1>4. x \in Releasers
  BY <1>1, LineState, SdmFields, ReleaserFields DEF Releasers, Follows, Tells, CamerasLogged, SceneLogged
<1> QED BY <1>2, <1>3, <1>4, HeardSame, Zenon DEF x

\* A camera failed.
LEMMA HeardFailed ==
  ASSUME NEW r \in Releasers, NEW p \in SdmStates, NEW l \in Lines, Believes(r, p), Follows(p, l),
         l.kind = "failed"
  PROVE  Heard(r, p, l, After(r, l))
<1> DEFINE x == After(r, l)
<1>1. x = [r EXCEPT !.failed = @ \cup {l.what}]
  BY Zenon DEF After, Scene
<1> HIDE DEF x
<1>2. /\ x.failed = r.failed \cup {l.what} /\ x.forklift = r.forklift /\ x.persons = r.persons /\ x.violation = r.violation
      /\ x.latched = r.latched /\ x.causes = r.causes /\ x.unverified = r.unverified /\ x.confirm = r.confirm
  BY <1>1, Zenon DEF Releasers
<1>3. x.failed = l.sdm.failed /\ SceneBelieved(x, l.sdm)
  BY <1>2, LineState, SdmFields, ReleaserFields, Zenon
  DEF Believes, SceneBelieved, Follows, Tells, SceneLogged, CamerasLogged
<1>4. x \in Releasers
  BY <1>1, LineState, SdmFields, ReleaserFields DEF Releasers, Follows, Tells, CamerasLogged, SceneLogged
<1> QED BY <1>2, <1>3, <1>4, HeardSame, Zenon DEF x

\* A camera recovered.
LEMMA HeardRecovered ==
  ASSUME NEW r \in Releasers, NEW p \in SdmStates, NEW l \in Lines, Believes(r, p), Follows(p, l),
         l.kind = "recovered"
  PROVE  Heard(r, p, l, After(r, l))
<1> DEFINE x == After(r, l)
<1>1. x = [r EXCEPT !.failed = @ \ {l.what}]
  BY Zenon DEF After, Scene
<1> HIDE DEF x
<1>2. /\ x.failed = r.failed \ {l.what} /\ x.forklift = r.forklift /\ x.persons = r.persons /\ x.violation = r.violation
      /\ x.latched = r.latched /\ x.causes = r.causes /\ x.unverified = r.unverified /\ x.confirm = r.confirm
  BY <1>1, Zenon DEF Releasers
<1>3. x.failed = l.sdm.failed /\ SceneBelieved(x, l.sdm)
  BY <1>2, LineState, SdmFields, ReleaserFields, Zenon
  DEF Believes, SceneBelieved, Follows, Tells, SceneLogged, CamerasLogged
<1>4. x \in Releasers
  BY <1>1, LineState, SdmFields, ReleaserFields, Zenon DEF Releasers, Follows, Tells, CamerasLogged, SceneLogged
<1> QED BY <1>2, <1>3, <1>4, HeardSame, Zenon DEF x

\* The persons were counted.
LEMMA HeardPersons ==
  ASSUME NEW r \in Releasers, NEW p \in SdmStates, NEW l \in Lines, Believes(r, p), Follows(p, l),
         l.kind = "persons"
  PROVE  Heard(r, p, l, After(r, l))
<1> DEFINE x == After(r, l)
<1>1. x = [r EXCEPT !.persons = l.what]
  BY Zenon DEF After, Scene
<1> HIDE DEF x
<1>2. /\ x.failed = r.failed /\ x.forklift = r.forklift /\ x.persons = l.what /\ x.violation = r.violation
      /\ x.latched = r.latched /\ x.causes = r.causes /\ x.unverified = r.unverified /\ x.confirm = r.confirm
  BY <1>1, Zenon DEF Releasers
<1>3. x.failed = l.sdm.failed /\ SceneBelieved(x, l.sdm)
  BY <1>2, LineState, SdmFields, ReleaserFields
  DEF Believes, SceneBelieved, Follows, Tells, SceneLogged, CamerasLogged
<1>4. x \in Releasers
  BY <1>1, LineState, SdmFields, ReleaserFields, ZenonT(40) DEF Releasers, Follows, Tells, CamerasLogged, SceneLogged
<1> QED BY <1>2, <1>3, <1>4, HeardSame, Zenon DEF x

\* The forklift crossed: no more doubt.
LEMMA HeardForklift ==
  ASSUME NEW r \in Releasers, NEW p \in SdmStates, NEW l \in Lines, Believes(r, p), Follows(p, l),
         l.kind = "forklift"
  PROVE  Heard(r, p, l, After(r, l))
<1> DEFINE x == After(r, l)
<1>1. x = [r EXCEPT !.forklift = Bit(l.what), !.unverified = FALSE]
  BY Zenon DEF After, Scene
<1> HIDE DEF x
<1>2. /\ x.failed = r.failed /\ x.forklift = Bit(l.what) /\ x.persons = r.persons /\ x.violation = r.violation
      /\ x.latched = r.latched /\ x.causes = r.causes /\ x.unverified = FALSE /\ x.confirm = r.confirm
  BY <1>1, Zenon DEF Releasers
<1>3. x.failed = l.sdm.failed /\ SceneBelieved(x, l.sdm)
  BY <1>2, LineState, SdmFields, ReleaserFields
  DEF Believes, SceneBelieved, Follows, Tells, SceneLogged, CamerasLogged, Bit
<1>4. x \in Releasers
  BY <1>1, LineState, SdmFields, ReleaserFields, ZenonT(40) DEF Releasers, Follows, Tells, CamerasLogged, SceneLogged, Bit
<1> QED BY <1>2, <1>3, <1>4, HeardSame, Zenon DEF x

\* The restricted area was entered or left.
LEMMA HeardViolation ==
  ASSUME NEW r \in Releasers, NEW p \in SdmStates, NEW l \in Lines, Believes(r, p), Follows(p, l),
         l.kind = "violation"
  PROVE  Heard(r, p, l, After(r, l))
<1> DEFINE x == After(r, l)
<1>1. x = [r EXCEPT !.violation = Bit(l.what)]
  BY Zenon DEF After, Scene
<1> HIDE DEF x
<1>2. /\ x.failed = r.failed /\ x.forklift = r.forklift /\ x.persons = r.persons /\ x.violation = Bit(l.what)
      /\ x.latched = r.latched /\ x.causes = r.causes /\ x.unverified = r.unverified /\ x.confirm = r.confirm
  BY <1>1, Zenon DEF Releasers
<1>3. x.failed = l.sdm.failed /\ SceneBelieved(x, l.sdm)
  BY <1>2, LineState, SdmFields, ReleaserFields
  DEF Believes, SceneBelieved, Follows, Tells, SceneLogged, CamerasLogged, Bit
<1>4. x \in Releasers
  BY <1>1, LineState, SdmFields, ReleaserFields DEF Releasers, Follows, Tells, CamerasLogged, SceneLogged, Bit
<1> QED BY <1>2, <1>3, <1>4, HeardSame, Zenon DEF x

\* The decision snapshot.
LEMMA HeardSnapshot ==
  ASSUME NEW r \in Releasers, NEW p \in SdmStates, NEW l \in Lines, Believes(r, p), Follows(p, l),
         l.kind = "snapshot"
  PROVE  Heard(r, p, l, After(r, l))
<1> DEFINE x == After(r, l)
<1>1. x = [r EXCEPT !.forklift = Bit(l.sdm.forklift), !.persons = l.sdm.persons,
                     !.violation = Bit(l.sdm.violation)]
  BY Zenon DEF After, Scene
<1> HIDE DEF x
<1>2. /\ x.failed = r.failed /\ x.forklift = Bit(l.sdm.forklift) /\ x.persons = l.sdm.persons /\ x.violation = Bit(l.sdm.violation)
      /\ x.latched = r.latched /\ x.causes = r.causes /\ x.unverified = r.unverified /\ x.confirm = r.confirm
  BY <1>1, Zenon DEF Releasers
<1>3. x.failed = l.sdm.failed /\ SceneBelieved(x, l.sdm)
  BY <1>2, LineState, SdmFields, ReleaserFields
  DEF Believes, SceneBelieved, Follows, Tells, SceneLogged, CamerasLogged, Bit
<1>4. Bit(l.sdm.forklift) \in {-1, 0, 1} /\ Bit(l.sdm.violation) \in {-1, 0, 1} /\ l.sdm.persons \in Nat
  BY LineState, SdmFields, Zenon DEF Bit
<1>5. x \in Releasers
  BY <1>1, <1>4, ReleaserFields, Zenon DEF Releasers
<1> QED BY <1>2, <1>3, <1>5, HeardSame, Zenon DEF x

\* A release without a latch: the manager changes nothing.
LEMMA HeardNoLatch ==
  ASSUME NEW r \in Releasers, NEW p \in SdmStates, NEW l \in Lines, Believes(r, p), Follows(p, l),
         l.kind = "noLatch"
  PROVE  Heard(r, p, l, After(r, l))
<1> DEFINE x == After(r, l)
<1>9. x = r
  BY Zenon DEF After, Scene
<1> HIDE DEF x
<1>1. /\ x.failed = r.failed /\ x.forklift = r.forklift /\ x.persons = r.persons /\ x.violation = r.violation
      /\ x.latched = r.latched /\ x.causes = r.causes /\ x.unverified = r.unverified /\ x.confirm = r.confirm
  BY <1>9, Zenon DEF Releasers
<1>2. x \in Releasers
  BY <1>9, Zenon
<1>4. CausesBelieved(x, l.sdm)
  <2>1. ~r.latched
    BY Zenon DEF Believes, DoubtBelieved, Follows, Tells, LatchLogged
  <2>2. \A c \in Causes : x.causes[c] = "none"
    BY <1>1, <2>1, Zenon DEF Believes, CausesBelieved
  <2>3. l.sdm.active = {} /\ l.sdm.had = {}
    BY Zenon DEF Follows, Tells, ManualsLogged
  <2> QED BY <2>2, <2>3, Zenon DEF CausesBelieved, Causes
<1>5. DoubtBelieved(x, l.sdm) /\ PressStands(r, p, l, x)
  BY <1>1, Zenon DEF Believes, DoubtBelieved, Follows, Tells, LatchLogged, CrossingLogged, ManualsLogged,
         PressStands
<1>6. x.failed = l.sdm.failed /\ SceneBelieved(x, l.sdm)
  BY <1>1, LineState, SdmFields, ReleaserFields
  DEF Believes, SceneBelieved, Follows, Tells, SceneLogged, CamerasLogged
<1> QED BY <1>1, <1>2, <1>4, <1>5, <1>6, Zenon DEF Heard, Believes, x

\* An accepted release ends the episode.
LEMMA HeardAccepted ==
  ASSUME NEW r \in Releasers, NEW p \in SdmStates, NEW l \in Lines, Believes(r, p), Follows(p, l),
         l.kind = "accepted"
  PROVE  Heard(r, p, l, After(r, l))
<1> DEFINE x == After(r, l)
<1>9. x = [live |-> r.live, failed |-> r.failed, forklift |-> 0, persons |-> 0,
            violation |-> 0, latched |-> FALSE, causes |-> [c \in Causes |-> "none"],
            backfilled |-> r.backfilled,
            unverified |-> FALSE, confirm |-> "none", gaveUp |-> FALSE, attempts |-> 0]
  BY Zenon DEF After, Scene, ReleaseAccepted, Episode, Releasers
<1> HIDE DEF x
<1>1. /\ x.failed = r.failed /\ x.forklift = 0 /\ x.persons = 0 /\ x.violation = 0
      /\ x.latched = FALSE /\ x.causes = [c \in Causes |-> "none"] /\ x.unverified = FALSE /\ x.confirm = "none"
  BY <1>9, Zenon DEF Releasers
<1>2. x \in Releasers
  BY <1>9, ReleaserFields, Zenon DEF Releasers, Phases
<1>4. CausesBelieved(x, l.sdm)
  <2>1. l.sdm.active = {} /\ l.sdm.had = {} /\ \A c \in Causes : x.causes[c] = "none"
    BY <1>1, Zenon DEF Follows, Tells, ManualsLogged
  <2> QED BY <2>1, Zenon DEF CausesBelieved, Causes
<1>5. DoubtBelieved(x, l.sdm)
  <2>1. l.sdm.latched = FALSE
    BY LineState, SdmFields, Zenon DEF Follows, Tells, LatchLogged
  <2> QED BY <1>1, <2>1, Zenon DEF DoubtBelieved
<1>6. x.failed = l.sdm.failed /\ SceneBelieved(x, l.sdm)
  BY <1>1, LineState, SdmFields, ReleaserFields
  DEF Believes, SceneBelieved, Follows, Tells, SceneLogged, CamerasLogged
<1> QED BY <1>1, <1>2, <1>4, <1>5, <1>6, Zenon DEF Heard, PressStands, Believes, x

\* An automatic cause ended.
LEMMA HeardRecovery ==
  ASSUME NEW r \in Releasers, NEW p \in SdmStates, NEW l \in Lines, Believes(r, p), Follows(p, l),
         l.kind = "recovery"
  PROVE  Heard(r, p, l, After(r, l))
<1> DEFINE x == After(r, l)
<1>9. x = [r EXCEPT !.causes[l.what] = IF @ = "pending" THEN "recovered" ELSE @]
  BY Zenon DEF After, Scene
<1> HIDE DEF x
<1>1. /\ x.failed = r.failed /\ x.forklift = r.forklift /\ x.persons = r.persons /\ x.violation = r.violation
      /\ x.latched = r.latched /\ x.causes = [r.causes EXCEPT ![l.what] = IF @ = "pending" THEN "recovered" ELSE @] /\ x.unverified = r.unverified /\ x.confirm = r.confirm
  BY <1>9, Zenon DEF Releasers
<1>2. x \in Releasers
  <2>1. x.causes \in [Causes -> Phases]
    <3>1. r.causes \in [Causes -> Phases] /\ {"pending", "recovered"} \subseteq Phases
      BY ReleaserFields, Zenon DEF Phases
    <3>2. l.what \in Causes
      BY Zenon DEF Follows, Tells, AutosLogged, Causes
    <3>3. r.causes[l.what] \in Phases
      BY <3>1, <3>2, Zenon
    <3> QED BY <1>1, <3>1, <3>2, <3>3, Zenon
  <2> QED BY <1>9, <1>1, <2>1, ReleaserFields, Zenon DEF Releasers
<1>4. CausesBelieved(x, l.sdm)
  <2>1. l.what \in Autos /\ l.what \notin ManualCauses /\ Autos \subseteq Causes /\ ManualCauses \subseteq Causes
    BY LatchAssumption, Zenon DEF Follows, Tells, AutosLogged, Autos, Causes
  <2>2. /\ \A c \in Causes \ {l.what} : x.causes[c] = r.causes[c]
        /\ x.causes[l.what] = IF r.causes[l.what] = "pending" THEN "recovered" ELSE r.causes[l.what]
    BY <1>1, <2>1, ReleaserFields, Zenon
  <2>3. /\ l.sdm.active \cap Autos = (p.active \cap Autos) \ {l.what}
        /\ l.sdm.active \cap ManualCauses \subseteq p.active
        /\ l.sdm.had \cap ManualCauses = p.had \cap ManualCauses
    BY Zenon DEF Follows, Tells, AutosLogged, ManualsLogged
  <2>4. \A c \in Autos : c \in l.sdm.active <=> x.causes[c] = "pending"
    BY <2>1, <2>2, <2>3 DEF Believes, CausesBelieved
  <2>5. \A c \in ManualCauses : (c \in l.sdm.active \cup l.sdm.had => x.causes[c] # "none")
                                 /\ (x.causes[c] = "pending" => c \in l.sdm.had)
    BY <2>1, <2>2, <2>3 DEF Believes, CausesBelieved
  <2>6. ~x.latched => \A c \in Causes : x.causes[c] = "none"
    BY <1>1, <2>2 DEF Believes, CausesBelieved
  <2> QED BY <2>4, <2>5, <2>6, Zenon DEF CausesBelieved
<1>5. DoubtBelieved(x, l.sdm) /\ PressStands(r, p, l, x)
  BY <1>1, Zenon DEF Believes, DoubtBelieved, Follows, Tells, LatchLogged, CrossingLogged, ManualsLogged,
         PressStands
<1>6. x.failed = l.sdm.failed /\ SceneBelieved(x, l.sdm)
  BY <1>1, LineState, SdmFields, ReleaserFields
  DEF Believes, SceneBelieved, Follows, Tells, SceneLogged, CamerasLogged
<1> QED BY <1>1, <1>2, <1>4, <1>5, <1>6, Zenon DEF Heard, Believes, x

\* A safe-hold line in a latch that is known.
LEMMA HeardHold ==
  ASSUME NEW r \in Releasers, NEW p \in SdmStates, NEW l \in Lines, Believes(r, p), Follows(p, l),
         l.kind = "latch" /\ r.latched
  PROVE  Heard(r, p, l, After(r, l))
<1> DEFINE x == After(r, l)
<1>9. x = r
  BY Zenon DEF After, Scene, NoteLatch
<1> HIDE DEF x
<1>1. /\ x.failed = r.failed /\ x.forklift = r.forklift /\ x.persons = r.persons /\ x.violation = r.violation
      /\ x.latched = r.latched /\ x.causes = r.causes /\ x.unverified = r.unverified /\ x.confirm = r.confirm
  BY <1>9, Zenon DEF Releasers
<1>2. x \in Releasers
  BY <1>9, Zenon
<1>4. CausesBelieved(x, l.sdm)
  BY <1>1 DEF Believes, CausesBelieved, Follows, Tells, AutosLogged, ManualsLogged
<1>5. DoubtBelieved(x, l.sdm) /\ PressStands(r, p, l, x)
  BY <1>1, Zenon DEF Believes, DoubtBelieved, Follows, Tells, LatchLogged, CrossingLogged, ManualsLogged,
         PressStands
<1>6. x.failed = l.sdm.failed /\ SceneBelieved(x, l.sdm)
  BY <1>1, LineState, SdmFields, ReleaserFields
  DEF Believes, SceneBelieved, Follows, Tells, SceneLogged, CamerasLogged
<1> QED BY <1>1, <1>2, <1>4, <1>5, <1>6, Zenon DEF Heard, Believes, x

\* The first line of a latch.
LEMMA HeardLatch ==
  ASSUME NEW r \in Releasers, NEW p \in SdmStates, NEW l \in Lines, Believes(r, p), Follows(p, l),
         l.kind = "latch" /\ ~r.latched
  PROVE  Heard(r, p, l, After(r, l))
<1> DEFINE x == After(r, l)
<1>9. x = [r EXCEPT !.latched = TRUE, !.unverified = TRUE, !.confirm = "none"]
  BY Zenon DEF After, Scene, NoteLatch, DoubtForklift, Releasers
<1> HIDE DEF x
<1>1. /\ x.failed = r.failed /\ x.forklift = r.forklift /\ x.persons = r.persons /\ x.violation = r.violation
      /\ x.latched = TRUE /\ x.causes = r.causes /\ x.unverified = TRUE /\ x.confirm = "none"
  BY <1>9, Zenon DEF Releasers
<1>2. x \in Releasers
  BY <1>9, ReleaserFields, Zenon DEF Releasers
<1>4. CausesBelieved(x, l.sdm)
  BY <1>1 DEF Believes, CausesBelieved, Follows, Tells, AutosLogged, ManualsLogged
<1>5. DoubtBelieved(x, l.sdm) /\ PressStands(r, p, l, x)
  BY <1>1, Zenon DEF Believes, DoubtBelieved, Follows, Tells, LatchLogged, CrossingLogged, ManualsLogged,
         PressStands
<1>6. x.failed = l.sdm.failed /\ SceneBelieved(x, l.sdm)
  BY <1>1, LineState, SdmFields, ReleaserFields
  DEF Believes, SceneBelieved, Follows, Tells, SceneLogged, CamerasLogged
<1> QED BY <1>1, <1>2, <1>4, <1>5, <1>6, Zenon DEF Heard, Believes, x

\* A cause that is pending for the manager begins again: a manual one, and no news.
LEMMA HeardAgain ==
  ASSUME NEW r \in Releasers, NEW p \in SdmStates, NEW l \in Lines, Believes(r, p), Follows(p, l), l.kind = "onset", r.causes[l.what] = "pending"
  PROVE  Heard(r, p, l, After(r, l))
<1>0. l.kind = "onset" /\ l.what \in Causes /\ l.what \notin Autos \cap p.active
  BY Zenon DEF Follows, Tells, AutosLogged
<1>1. r.latched
  BY <1>0, Zenon DEF Believes, CausesBelieved
<1>2. After(r, l) = r
  BY <1>1, Zenon DEF After, NoteCause, NoteLatch
<1>3. l.what \in ManualCauses \ Autos
  BY <1>0, LatchAssumption, Zenon DEF Believes, CausesBelieved, Causes, Autos
<1>4. l.what \in p.had
  BY <1>3, Zenon DEF Believes, CausesBelieved
<1>5. l.sdm.latched = TRUE /\ l.sdm.again = TRUE
  BY <1>0, <1>4, LineState, SdmFields, Zenon DEF Follows, Tells, LatchLogged, ManualsLogged
<1>6. r.failed = l.sdm.failed
  BY <1>0, Zenon DEF Believes, Follows, Tells, CamerasLogged
<1>7. CausesBelieved(r, l.sdm)
  <2>1. l.sdm.active \cap Autos = p.active \cap Autos
    BY <1>0, <1>3, Zenon DEF Follows, Tells, AutosLogged
  <2>2. /\ l.sdm.active \cap ManualCauses \subseteq p.active \cup {l.what}
        /\ l.sdm.had \cap ManualCauses = p.had \cap ManualCauses
    BY <1>0, <1>4, Zenon DEF Follows, Tells, ManualsLogged
  <2> QED BY <1>3, <1>4, <2>1, <2>2, Zenon DEF Believes, CausesBelieved
<1>8. DoubtBelieved(r, l.sdm)
  BY <1>1, <1>5, ReleaserFields, Zenon DEF Believes, DoubtBelieved
<1>9. SceneBelieved(r, l.sdm)
  BY <1>0, LineState, SdmFields, ReleaserFields DEF Believes, SceneBelieved, Follows, Tells, SceneLogged, SdmStates
<1> QED BY <1>2, <1>5, <1>6, <1>7, <1>8, <1>9, Zenon DEF Heard, PressStands, Believes

\* A new episode of a cause: the forklift is in doubt.
LEMMA HeardOnset ==
  ASSUME NEW r \in Releasers, NEW p \in SdmStates, NEW l \in Lines, Believes(r, p), Follows(p, l),
         l.kind = "onset" /\ r.causes[l.what] # "pending"
  PROVE  Heard(r, p, l, After(r, l))
<1> DEFINE x == After(r, l)
<1>9. x = [r EXCEPT !.unverified = TRUE, !.confirm = "none", !.latched = TRUE, !.causes[l.what] = "pending",
                  !.gaveUp = FALSE]
  BY Zenon DEF After, Scene, NoteCause, NoteLatch, DoubtForklift, Releasers
<1> HIDE DEF x
<1>1. /\ x.failed = r.failed /\ x.forklift = r.forklift /\ x.persons = r.persons /\ x.violation = r.violation
      /\ x.latched = TRUE /\ x.causes = [r.causes EXCEPT ![l.what] = "pending"] /\ x.unverified = TRUE /\ x.confirm = "none"
  BY <1>9, Zenon DEF Releasers
<1>2. x \in Releasers
  <2>1. x.causes \in [Causes -> Phases]
    <3>1. r.causes \in [Causes -> Phases] /\ "pending" \in Phases
      BY ReleaserFields, Zenon DEF Phases
    <3> QED BY <1>1, <3>1, Zenon
  <2> QED BY <1>9, <1>1, <2>1, ReleaserFields, Zenon DEF Releasers
<1>4. CausesBelieved(x, l.sdm)
  <2>1. /\ l.what \in Causes /\ Autos \subseteq Causes /\ ManualCauses \subseteq Causes
        /\ Autos \cap ManualCauses = {}
    BY LatchAssumption, Zenon DEF Follows, Tells, AutosLogged, Autos, Causes
  <2>2. /\ \A c \in Causes \ {l.what} : x.causes[c] = r.causes[c]
        /\ x.causes[l.what] = "pending"
    BY <1>1, <2>1, ReleaserFields
  <2>3. /\ l.sdm.active \cap Autos = (p.active \cup {l.what}) \cap Autos
        /\ l.sdm.active \cap ManualCauses \subseteq p.active \cup {l.what}
        /\ l.sdm.had \cap ManualCauses = (p.had \cup {l.what}) \cap ManualCauses
    BY Zenon DEF Follows, Tells, AutosLogged, ManualsLogged
  <2>4. \A c \in Autos : c \in l.sdm.active <=> x.causes[c] = "pending"
    BY <2>1, <2>2, <2>3 DEF Believes, CausesBelieved
  <2>5. \A c \in ManualCauses : (c \in l.sdm.active \cup l.sdm.had => x.causes[c] # "none")
                                 /\ (x.causes[c] = "pending" => c \in l.sdm.had)
    BY <2>1, <2>2, <2>3 DEF Believes, CausesBelieved
  <2> QED BY <1>1, <2>4, <2>5, Zenon DEF CausesBelieved
<1>5. DoubtBelieved(x, l.sdm) /\ PressStands(r, p, l, x)
  BY <1>1, Zenon DEF Believes, DoubtBelieved, Follows, Tells, LatchLogged, CrossingLogged, ManualsLogged,
         PressStands
<1>6. x.failed = l.sdm.failed /\ SceneBelieved(x, l.sdm)
  BY <1>1, LineState, SdmFields, ReleaserFields
  DEF Believes, SceneBelieved, Follows, Tells, SceneLogged, CamerasLogged
<1> QED BY <1>1, <1>2, <1>4, <1>5, <1>6, Zenon DEF Heard, Believes, x

\* Whatever the line, the belief follows it.
LEMMA HeardLine ==
  ASSUME NEW r \in Releasers, NEW p \in SdmStates, NEW l \in Lines, Believes(r, p), Follows(p, l)
  PROVE  Heard(r, p, l, After(r, l))
<1>1. l.kind \in Kinds
  BY LineState, Zenon
<1>2. CASE l.kind = "onset"
  BY <1>2, HeardAgain, HeardOnset, Zenon
<1>3. CASE l.kind = "latch"
  BY <1>3, HeardHold, HeardLatch, Zenon
<1> QED BY <1>1, <1>2, <1>3, HeardDenied, HeardNoLatch, HeardFailed, HeardRecovered, HeardPersons, HeardForklift, HeardViolation,
           HeardSnapshot, HeardAccepted, HeardRecovery, Zenon DEF Kinds

-----------------------------------------------------------------------------
(* The steps of the manager. *)

LEMMA ObserveKeeps ==
  ASSUME LogInv, BeliefInv, NEW old \in BOOLEAN, Observe(old)
  PROVE  LogInv' /\ BeliefInv'
<1> DEFINE l == Head(log)
           r == [m EXCEPT !.live = @ \/ ~old]
<1>1. /\ l \in Lines /\ Tail(log) \in Seq(Lines) /\ Follows(seen, l)
      /\ Chain(l.sdm, Tail(log)) /\ End(l.sdm, Tail(log)) = End(seen, log)
  BY ChainTail, Zenon DEF LogInv, Observe
<1>2. log' = Tail(log) /\ seen' = l.sdm /\ m' = After(r, l) /\ UNCHANGED <<sdmState, snap>>
  BY Zenon DEF Observe
<1>3. looked' = (looked /\ m'.confirm # "none" /\ (l.sdm.crossed \/ ~seen.crossed) /\ l.sdm.latched)
  BY Zenon DEF Observe
<1>4. l.sdm \in SdmStates
  BY <1>1, LineState, Zenon
<1>5. LogInv'
  <2> HIDE DEF l
  <2> QED BY <1>1, <1>2, <1>4, Zenon DEF LogInv
<1>6. r \in Releasers
  BY ReleaserFields, ZenonT(40) DEF BeliefInv, Releasers
<1>7. /\ r.failed = m.failed /\ r.forklift = m.forklift /\ r.persons = m.persons /\ r.violation = m.violation
      /\ r.latched = m.latched /\ r.causes = m.causes /\ r.unverified = m.unverified /\ r.confirm = m.confirm
  BY Zenon DEF BeliefInv, Releasers
<1> HIDE DEF l, r
<1>8. Believes(r, seen)
  BY <1>7 DEF BeliefInv, Believes, CausesBelieved, DoubtBelieved, SceneBelieved
<1>9. Heard(r, seen, l, m')
  BY <1>1, <1>2, <1>6, <1>8, HeardLine, Zenon DEF LogInv
<1>10. m' \in Releasers /\ looked' \in BOOLEAN /\ Believes(m', seen')
  BY <1>2, <1>3, <1>9, Zenon DEF Heard
<1>11. m'.confirm # "none" => looked' \/ seen'.again \/ seen'.crossed
  BY <1>2, <1>3, <1>7, <1>9, Zenon DEF Heard, PressStands, BeliefInv
<1> QED BY <1>5, <1>10, <1>11, Zenon DEF BeliefInv

\* A step of the manager that changes neither the log nor what it believes.
LEMMA Unheard ==
  ASSUME LogInv, BeliefInv, UNCHANGED <<sdmState, log, seen>>, snap' = snap \/ snap' = <<>>,
         m' \in Releasers, looked' \in BOOLEAN,
         m'.failed = m.failed, m'.latched = m.latched, m'.causes = m.causes, m'.unverified = m.unverified,
         SceneBelieved(m', seen),
         m'.confirm # "none" => m.latched /\ (looked' \/ seen.again \/ seen.crossed)
  PROVE  LogInv' /\ BeliefInv'
<1>1. LogInv'
  BY Zenon DEF LogInv
<1>2. CausesBelieved(m', seen')
  BY DEF BeliefInv, Believes, CausesBelieved
<1>3. DoubtBelieved(m', seen')
  BY Zenon DEF BeliefInv, Believes, DoubtBelieved
<1>4. m'.failed = seen'.failed /\ SceneBelieved(m', seen')
  BY Zenon DEF BeliefInv, Believes, SceneBelieved
<1> QED BY <1>1, <1>2, <1>3, <1>4, Zenon DEF BeliefInv, Believes

\* The steps that change only the bookkeeping of the releases.
LEMMA BooksKept ==
  ASSUME LogInv, BeliefInv, UNCHANGED <<sdmState, log, snap, seen>>, NEW g \in BOOLEAN, NEW n \in Nat,
         NEW f \in {"none", "fresh", "ripe"}, m' = [m EXCEPT !.gaveUp = g, !.attempts = n, !.confirm = f],
         looked' \in BOOLEAN, f # "none" => m.latched /\ (looked' \/ seen.again \/ seen.crossed)
  PROVE  LogInv' /\ BeliefInv'
<1>1. /\ m'.failed = m.failed /\ m'.forklift = m.forklift /\ m'.persons = m.persons /\ m'.violation = m.violation
      /\ m'.latched = m.latched /\ m'.causes = m.causes /\ m'.unverified = m.unverified /\ m'.confirm = f
  BY Zenon DEF BeliefInv, Releasers
<1>2. m' \in Releasers
  BY ReleaserFields, ZenonT(40) DEF BeliefInv, Releasers
<1>3. SceneBelieved(m', seen)
  BY <1>1, Zenon DEF BeliefInv, Believes, SceneBelieved
<1> QED BY <1>1, <1>2, <1>3, Unheard, Zenon

LEMMA SettleKeeps ==
  ASSUME LogInv, BeliefInv, Settle
  PROVE  LogInv' /\ BeliefInv'
<1>1. PICK c \in Causes : m.causes[c] = "recovered" /\ m' = [m EXCEPT !.causes[c] = "settled"]
  BY Zenon DEF Settle
<1>2. UNCHANGED <<sdmState, log, snap, seen, looked>>
  BY Zenon DEF Settle
<1>3. LogInv'
  BY <1>2, Zenon DEF LogInv
<1>4. /\ m'.failed = m.failed /\ m'.forklift = m.forklift /\ m'.persons = m.persons /\ m'.violation = m.violation
      /\ m'.latched = m.latched /\ m'.causes = [m.causes EXCEPT ![c] = "settled"]
      /\ m'.unverified = m.unverified /\ m'.confirm = m.confirm
  BY <1>1, Zenon DEF BeliefInv, Releasers
<1>5. m.causes \in [Causes -> Phases] /\ "settled" \in Phases
  BY ReleaserFields, Zenon DEF BeliefInv, Phases
<1>6. m'.causes \in [Causes -> Phases]
  BY <1>4, <1>5, Zenon
<1>7. m' \in Releasers
  BY <1>1, <1>4, <1>6, ReleaserFields, Zenon DEF BeliefInv, Releasers
<1>8. CausesBelieved(m', seen')
  <2>1. /\ \A d \in Causes \ {c} : m'.causes[d] = m.causes[d]
        /\ m'.causes[c] = "settled"
    BY <1>4, <1>5, Zenon
  <2>2. m.latched
    BY <1>1, Zenon DEF BeliefInv, Believes, CausesBelieved
  <2>3. \A d \in Autos : d \in seen.active <=> m'.causes[d] = "pending"
    BY <1>1, <2>1, Zenon DEF BeliefInv, Believes, CausesBelieved, Causes
  <2>4. \A d \in ManualCauses : (d \in seen.active \cup seen.had => m'.causes[d] # "none")
                                /\ (m'.causes[d] = "pending" => d \in seen.had)
    BY <1>1, <2>1 DEF BeliefInv, Believes, CausesBelieved, Causes
  <2> QED BY <1>2, <1>4, <2>2, <2>3, <2>4, Zenon DEF CausesBelieved
<1>9. DoubtBelieved(m', seen') /\ SceneBelieved(m', seen') /\ m'.failed = seen'.failed
  BY <1>2, <1>4, Zenon DEF BeliefInv, Believes, DoubtBelieved, SceneBelieved
<1> QED BY <1>2, <1>3, <1>4, <1>7, <1>8, <1>9, Zenon DEF BeliefInv, Believes

LEMMA BackfillKeeps ==
  ASSUME LogInv, BeliefInv, BackfillScene
  PROVE  LogInv' /\ BeliefInv'
<1>1. UNCHANGED <<sdmState, log, seen, looked>> /\ snap' = <<>>
  BY Zenon DEF BackfillScene
<1>0. m \in Releasers /\ SceneBelieved(m, seen) /\ seen \in SdmStates
  BY Zenon DEF LogInv, BeliefInv, Believes, SdmStates
<1>2. CASE snap = <<>>
  <2>1. m' = [m EXCEPT !.backfilled = TRUE]
    BY <1>2, Zenon DEF BackfillScene
  <2>2. /\ m'.failed = m.failed /\ m'.forklift = m.forklift /\ m'.persons = m.persons
        /\ m'.violation = m.violation /\ m'.latched = m.latched /\ m'.causes = m.causes
        /\ m'.unverified = m.unverified /\ m'.confirm = m.confirm
    BY <1>0, <2>1, Zenon DEF Releasers
  <2>3. m' \in Releasers
    BY <1>0, <2>1, ReleaserFields, Zenon DEF Releasers
  <2>4. SceneBelieved(m', seen)
    BY <1>0, <2>2, Zenon DEF SceneBelieved
  <2> QED BY <1>1, <2>2, <2>3, <2>4, Unheard, Zenon DEF BeliefInv, Believes, DoubtBelieved
<1>3. CASE snap # <<>>
  <2> DEFINE s == snap[1]
  <2>0. s \in SdmStates
    BY <1>3 DEF LogInv
  <2>1. m' = [m EXCEPT !.backfilled = TRUE, !.forklift = Fill(@, Bit(s.forklift)),
                       !.persons = Fill(@, s.persons), !.violation = Fill(@, Bit(s.violation))]
    BY <1>3, Zenon DEF BackfillScene
  <2> HIDE DEF s
  <2>2. /\ m'.failed = m.failed /\ m'.forklift = Fill(m.forklift, Bit(s.forklift))
        /\ m'.persons = Fill(m.persons, s.persons)
        /\ m'.violation = Fill(m.violation, Bit(s.violation)) /\ m'.latched = m.latched /\ m'.causes = m.causes
        /\ m'.unverified = m.unverified /\ m'.confirm = m.confirm
    BY <1>0, <2>1, Zenon DEF Releasers
  <2>3. /\ Fill(m.forklift, Bit(s.forklift)) \in {-1, 0, 1} /\ Fill(m.violation, Bit(s.violation)) \in {-1, 0, 1}
        /\ Fill(m.persons, s.persons) \in Nat \cup {-1}
    BY <1>0, <2>0, SdmFields, ReleaserFields, Zenon DEF Fill, Bit, Unknown
  <2>4. m' \in Releasers
    BY <1>0, <2>1, <2>3, ReleaserFields, Zenon DEF Releasers
  <2>5. SceneBelieved(m', seen)
    BY <1>0, <2>0, <2>2, SdmFields, ReleaserFields DEF SceneBelieved, Fill, Bit, Unknown
  <2> QED BY <1>1, <2>2, <2>4, <2>5, Unheard, Zenon DEF BeliefInv, Believes, DoubtBelieved
<1> QED BY <1>2, <1>3, Zenon

-----------------------------------------------------------------------------
(* The gates imply the grounds. *)

LEMMA AutoGrounded ==
  ASSUME LogInv, BeliefInv, SafeToRelease
  PROVE  AutoGround
<1>0. m \in Releasers /\ Believes(m, seen) /\ seen \in SdmStates
  BY Zenon DEF LogInv, BeliefInv, SdmStates
<1>1. \A c \in Causes : m.causes[c] # "none" => c \in Autos /\ m.causes[c] = "settled"
  BY Zenon DEF SafeToRelease, Known
<1>2. ManualCauses \cap Autos = {} /\ ManualCauses \subseteq Causes /\ Autos \subseteq Causes
  BY LatchAssumption, Zenon DEF Causes, Autos
<1>3. (seen.active \cup seen.had) \cap ManualCauses = {}
  BY <1>0, <1>1, <1>2, Zenon DEF Believes, CausesBelieved
<1>4. seen.active \cap Autos = {}
  BY <1>0, <1>1, <1>2, Zenon DEF Believes, CausesBelieved
<1>5. seen.active \subseteq {"unnamed"}
  BY <1>0, <1>3, <1>4, SdmFields, Zenon DEF Causes
<1>6. m.latched
  BY <1>0, Zenon DEF SafeToRelease, Known, Believes, CausesBelieved
<1>7. seen.crossed
  BY <1>0, <1>3, <1>6, Zenon DEF SafeToRelease, Believes, DoubtBelieved, SdmStates
<1>8. seen.failed = {}
  BY <1>0, Zenon DEF SafeToRelease, SensorsBlind, Believes
<1>9. ~seen.forklift /\ seen.persons = 0 /\ ~seen.violation
  BY <1>0, SdmFields, ReleaserFields DEF SafeToRelease, SceneKnown, Occupied, Unknown, Believes, SceneBelieved
<1> QED BY <1>5, <1>7, <1>8, <1>9, Zenon DEF AutoGround

LEMMA OperatorGrounded ==
  ASSUME LogInv, BeliefInv, CanOperatorRelease, NeedsConfirm => m.confirm = "ripe"
  PROVE  OperatorGround
<1>0. m \in Releasers /\ Believes(m, seen) /\ seen \in SdmStates
  BY Zenon DEF LogInv, BeliefInv, SdmStates
<1>1. seen.failed = {}
  BY <1>0, Zenon DEF CanOperatorRelease, SensorsBlind, Believes
<1>2. seen.persons = 0 /\ ~seen.violation
  BY <1>0, SdmFields, ReleaserFields DEF CanOperatorRelease, Occupied, Believes, SceneBelieved
<1>3. seen.crossed \/ looked \/ seen.again
  <2>1. CASE m.unverified
    BY <2>1, Zenon DEF NeedsConfirm, BeliefInv
  <2>2. CASE ~m.unverified
    BY <1>0, <2>2, Zenon DEF CanOperatorRelease, Believes, DoubtBelieved
  <2> QED BY <2>1, <2>2, Zenon
<1> QED BY <1>1, <1>2, <1>3, Zenon DEF OperatorGround

-----------------------------------------------------------------------------

LEMMA ManagerKeeps ==
  ASSUME LatchInv, ManagerNext
  PROVE  LatchInv'
<1> USE DEF LatchInv
<1>0. m \in Releasers /\ looked \in BOOLEAN /\ Believes(m, seen)
  BY Zenon DEF BeliefInv
<1>00. m.confirm # "none" => m.latched
  BY <1>0, Zenon DEF Believes, DoubtBelieved
<1>1. CASE \E old \in BOOLEAN : Observe(old)
  BY <1>1, ObserveKeeps, Zenon DEF Observe, ReleaseWarranted, AutoWarranted, OperatorWarranted
<1>2. CASE BackfillScene
  BY <1>2, BackfillKeeps, Zenon DEF BackfillScene, ReleaseWarranted, AutoWarranted, OperatorWarranted
<1>3. CASE Settle
  BY <1>3, SettleKeeps, Zenon DEF Settle, ReleaseWarranted, AutoWarranted, OperatorWarranted
<1>4. CASE Ripen
  <2>1. /\ UNCHANGED <<sdmState, log, snap, seen, faults, looked>> /\ m.confirm # "none"
        /\ m' = [m EXCEPT !.gaveUp = m.gaveUp, !.attempts = m.attempts, !.confirm = "ripe"]
    BY <1>0, <1>4, Zenon DEF Ripen, Releasers
  <2>2. LogInv' /\ BeliefInv'
    BY <1>0, <1>00, <2>1, BooksKept, ReleaserFields, Zenon DEF BeliefInv
  <2> QED BY <2>1, <2>2, Zenon DEF ReleaseWarranted, AutoWarranted, OperatorWarranted
<1>5. CASE Expire
  <2>1. /\ UNCHANGED <<sdmState, log, snap, seen, faults>> /\ looked' = FALSE
        /\ m' = [m EXCEPT !.gaveUp = m.gaveUp, !.attempts = m.attempts, !.confirm = "none"]
    BY <1>0, <1>5, Zenon DEF Expire, Releasers
  <2>2. LogInv' /\ BeliefInv'
    BY <1>0, <2>1, BooksKept, ReleaserFields, Zenon
  <2> QED BY <2>1, <2>2, Zenon DEF ReleaseWarranted, AutoWarranted, OperatorWarranted
<1>6. CASE TickHold
  <2>1. PICK g \in BOOLEAN :
          /\ UNCHANGED <<sdmState, log, snap, seen, faults, looked>>
          /\ m' = [m EXCEPT !.gaveUp = g, !.attempts = m.attempts, !.confirm = m.confirm]
    BY <1>0, <1>6, ZenonT(40) DEF TickHold, Releasers
  <2>2. LogInv' /\ BeliefInv'
    BY <1>0, <1>00, <2>1, BooksKept, ReleaserFields, Zenon DEF BeliefInv
  <2> QED BY <2>1, <2>2, ZenonT(40) DEF ReleaseWarranted, AutoWarranted, OperatorWarranted
<1>7. CASE TickGiveUp
  <2>1. /\ UNCHANGED <<sdmState, log, snap, seen, faults, looked>>
        /\ m' = [m EXCEPT !.gaveUp = TRUE, !.attempts = m.attempts, !.confirm = m.confirm]
    BY <1>0, <1>7, Zenon DEF TickGiveUp, Releasers
  <2>2. LogInv' /\ BeliefInv'
    BY <1>0, <1>00, <2>1, BooksKept, ReleaserFields, Zenon DEF BeliefInv
  <2> QED BY <2>1, <2>2, Zenon DEF ReleaseWarranted, AutoWarranted, OperatorWarranted
<1>8. CASE TickRelease
  <2>1. PICK n \in Nat :
          /\ UNCHANGED <<sdmState, log, snap, seen, looked>>
          /\ m' = [m EXCEPT !.gaveUp = m.gaveUp, !.attempts = n, !.confirm = m.confirm]
    <3>1. CASE m' = [m EXCEPT !.attempts = @ + 1]
      <4>1. m' = [m EXCEPT !.gaveUp = m.gaveUp, !.attempts = m.attempts + 1, !.confirm = m.confirm]
        BY <1>0, <3>1, Zenon DEF Releasers
      <4>2. m.attempts + 1 \in Nat
        BY <1>0, ReleaserFields
      <4> QED BY <1>8, <4>1, <4>2, Zenon DEF TickRelease
    <3>2. CASE m' = m
      <4>1. m' = [m EXCEPT !.gaveUp = m.gaveUp, !.attempts = m.attempts, !.confirm = m.confirm]
        BY <1>0, <3>2, Zenon DEF Releasers
      <4> QED BY <1>0, <1>8, <4>1, ReleaserFields, Zenon DEF TickRelease
    <3> QED BY <1>8, <3>1, <3>2, Zenon DEF TickRelease
  <2>2. LogInv' /\ BeliefInv'
    BY <1>0, <1>00, <2>1, BooksKept, ReleaserFields, Zenon DEF BeliefInv
  <2>3. AutoGround
    BY <1>8, AutoGrounded, Zenon DEF TickRelease
  <2>4. ReleaseWarranted'
    BY <1>8, <2>3, Zenon DEF TickRelease, Send, NotSent, ReleaseWarranted, AutoWarranted, OperatorWarranted
  <2> QED BY <2>2, <2>4, Zenon
<1>9. CASE Arm
  <2>1. /\ UNCHANGED <<sdmState, log, snap, seen, faults>> /\ looked' = TRUE /\ m.latched
        /\ m' = [m EXCEPT !.gaveUp = m.gaveUp, !.attempts = m.attempts, !.confirm = "fresh"]
    BY <1>0, <1>9, Zenon DEF Arm, CanOperatorRelease, Releasers
  <2>2. LogInv' /\ BeliefInv'
    BY <1>0, <2>1, BooksKept, ReleaserFields, Zenon
  <2> QED BY <2>1, <2>2, Zenon DEF ReleaseWarranted, AutoWarranted, OperatorWarranted
<1>10. CASE Press
  <2>1. UNCHANGED <<sdmState, log, snap, seen>> /\ looked' = FALSE
    BY <1>10, Zenon DEF Press
  <2>2. OperatorGround
    BY <1>10, OperatorGrounded, Zenon DEF Press
  <2>3. ReleaseWarranted'
    BY <1>10, <2>2, Zenon DEF Press, Send, NotSent, ReleaseWarranted, AutoWarranted, OperatorWarranted
  <2>4. CASE m' = [m EXCEPT !.attempts = IF @ < MaxAttempts THEN @ + 1 ELSE @, !.confirm = "none", !.gaveUp = FALSE]
    <3> DEFINE n == IF m.attempts < MaxAttempts THEN m.attempts + 1 ELSE m.attempts
    <3>1. m' = [m EXCEPT !.gaveUp = FALSE, !.attempts = n, !.confirm = "none"]
      BY <1>0, <2>4, Zenon DEF Releasers
    <3>2. n \in Nat
      BY <1>0, ReleaserFields
    <3> HIDE DEF n
    <3> QED BY <2>1, <2>3, <3>1, <3>2, BooksKept, Zenon
  <2>5. CASE m' = [m EXCEPT !.confirm = IF NeedsConfirm THEN "none" ELSE @]
    <3> DEFINE f == IF NeedsConfirm THEN "none" ELSE m.confirm
    <3>1. m' = [m EXCEPT !.gaveUp = m.gaveUp, !.attempts = m.attempts, !.confirm = f]
      BY <1>0, <2>5, Zenon DEF Releasers
    <3>2. f \in {"none", "fresh", "ripe"}
      BY <1>0, ReleaserFields, Zenon
    <3>3. f # "none" => m.latched /\ (seen.again \/ seen.crossed)
      BY <1>0, <1>10, Zenon DEF Press, CanOperatorRelease, NeedsConfirm, Believes, DoubtBelieved
    <3> HIDE DEF f
    <3> QED BY <1>0, <2>1, <2>3, <3>1, <3>2, <3>3, BooksKept, ReleaserFields, Zenon
  <2> QED BY <1>10, <2>4, <2>5, Zenon DEF Press
<1> QED BY <1>1, <1>2, <1>3, <1>4, <1>5, <1>6, <1>7, <1>8, <1>9, <1>10, Zenon DEF ManagerNext

LEMMA LatchInvInit == LatchInit => LatchInv
<1> SUFFICES ASSUME LatchInit PROVE LatchInv
  BY Zenon
<1>1. StartSdm \in SdmStates
  BY Zenon DEF StartSdm, SdmStates, SdmRecords
<1>2. LogInv
  <2>1. log = <<>> /\ seen = StartSdm /\ sdmState = StartSdm /\ snap = <<>> /\ StartSdm.active = {}
    BY Zenon DEF LatchInit, StartSdm
  <2>2. Chain(seen, log) /\ End(seen, log) = StartSdm
    BY <2>1 DEF Chain, End
  <2> QED BY <1>1, <2>1, <2>2 DEF Silent, LogInv
<1>3. /\ m.failed = {} /\ m.forklift = -1 /\ m.persons = -1 /\ m.violation = -1 /\ m.latched = FALSE
      /\ m.causes = [c \in Causes |-> "none"] /\ m.unverified = FALSE /\ m.confirm = "none"
  BY Zenon DEF LatchInit, NewReleaser, Episode, Unknown
<1>4. m \in Releasers
  BY Zenon DEF LatchInit, NewReleaser, Episode, Unknown, Releasers, Phases
<1>5. /\ seen.active = {} /\ seen.had = {} /\ seen.failed = {} /\ seen.latched = FALSE
      /\ seen.forklift = FALSE /\ seen.persons = 0 /\ seen.violation = FALSE
  BY Zenon DEF LatchInit, StartSdm
<1>6. CausesBelieved(m, seen)
  BY <1>3, <1>5, Zenon DEF CausesBelieved, Causes
<1>7. DoubtBelieved(m, seen) /\ SceneBelieved(m, seen)
  BY <1>3, <1>5, Zenon DEF DoubtBelieved, SceneBelieved
<1>8. BeliefInv
  BY <1>3, <1>4, <1>5, <1>6, <1>7, Zenon DEF BeliefInv, Believes, LatchInit
<1> QED BY <1>2, <1>8, Zenon DEF LatchInv, LatchInit, ReleaseWarranted, AutoWarranted, OperatorWarranted

LEMMA LatchInvNext == LatchInv /\ [LatchNext]_latchVars => LatchInv'
<1> SUFFICES ASSUME LatchInv, [LatchNext]_latchVars PROVE LatchInv'
  BY Zenon
<1>1. CASE SdmNext
  <2>1. LogInv' /\ UNCHANGED <<m, seen, faults, looked>>
    BY <1>1, SdmKeeps, Zenon DEF LatchInv
  <2> QED BY <2>1, Zenon DEF LatchInv, BeliefInv, ReleaseWarranted, AutoWarranted, OperatorWarranted
<1>2. CASE ManagerNext
  BY <1>2, ManagerKeeps, Zenon
<1>3. CASE UNCHANGED latchVars
  BY <1>3, Zenon DEF latchVars, LatchInv, LogInv, BeliefInv, ReleaseWarranted, AutoWarranted, OperatorWarranted
<1> QED BY <1>1, <1>2, <1>3, Zenon DEF LatchNext

\* With every line read, the belief is about the state the SDM is in.
LEMMA BeliefIsCurrent == LatchInv => BeliefCurrent
<1> SUFFICES ASSUME LatchInv, log = <<>> PROVE
      /\ m.failed = sdmState.failed
      /\ m.forklift = 0 => ~sdmState.forklift
      /\ m.persons = Unknown \/ m.persons >= sdmState.persons
      /\ m.violation = 0 => ~sdmState.violation
  BY Zenon DEF BeliefCurrent
<1>1. Silent(seen, sdmState) /\ Believes(m, seen) /\ m \in Releasers /\ seen \in SdmStates
  BY Zenon DEF LatchInv, LogInv, BeliefInv, End, SdmStates
<1> QED BY <1>1, ReleaserFields, SdmFields DEF Silent, Believes, SceneBelieved, Unknown

\* No release is sent without what warrants it, whatever the order of the SDM's events, its
\* log lines and the manager's threads: an automatic one only when, at the last line read, no
\* cause the log names stood, no camera had failed, the trailer was empty and the forklift had
\* crossed since (_safe_to_release); an operator's never on a failed camera or a person, and in
\* doubt only confirmed.  And once the log is read, the manager believes the trailer no emptier
\* than the SDM does.
THEOREM ReleasesAreWarranted == LatchSpec => [](ReleaseWarranted /\ BeliefCurrent)
<1>1. LatchInit => LatchInv
  BY LatchInvInit, Zenon
<1>2. LatchInv /\ [LatchNext]_latchVars => LatchInv'
  BY LatchInvNext, Zenon
<1>3. LatchInv => ReleaseWarranted /\ BeliefCurrent
  BY BeliefIsCurrent, Zenon DEF LatchInv
<1> QED BY <1>1, <1>2, <1>3, PTL DEF LatchSpec

-----------------------------------------------------------------------------
(* The gateway. *)

Clients == [peer : Peers \cup {NoPeer}, epoch : Nat, next : Nat, miss : Nat, owed : Nat, built : Nat]

(* The parts of the state admission rests on. *)
AdmissionType ==
    /\ table \in [Slots -> Clients]
    /\ open \subseteq Peers
    /\ conn \in [Sdms -> Nat]
    /\ gen \in Nat /\ seed \in Nat

(* No connection is known before the SDM has made it. *)
NoneFromTheFuture ==
    /\ \A p \in open : p[2] <= conn[p[1]]
    /\ \A c \in Slots : table[c].peer # NoPeer => table[c].peer[2] <= conn[table[c].peer[1]]

Admission == AdmissionType /\ NoneFromTheFuture /\ NoPeerLeaked /\ AdmittedOnce

-----------------------------------------------------------------------------

LEMMA NoPeerIsNone == NoPeer \notin Peers
  BY DEF NoPeer, Peers

(* A step that only touches what a slot holds of a peer it keeps. *)
LEMMA PeersKept ==
    ASSUME Admission, table' \in [Slots -> Clients], gen' \in Nat, seed' \in Nat,
           \A c \in Slots : table'[c].peer = table[c].peer,
           UNCHANGED <<pending, drops, open, conn>>
    PROVE  Admission'
<1>1. InUse' = InUse /\ Registered' = Registered
  BY Zenon DEF InUse, Registered
<1>2. AdmissionType'
  BY Zenon DEF Admission, AdmissionType
<1>3. NoneFromTheFuture'
  BY Zenon DEF Admission, NoneFromTheFuture
<1>4. NoPeerLeaked'
  BY <1>1, Zenon DEF Admission, NoPeerLeaked
<1>5. AdmittedOnce'
  <2>1. Registered' \cap pending' = {}
    BY <1>1, Zenon DEF Admission, AdmittedOnce
  <2>2. ASSUME NEW c \in InUse', NEW d \in InUse', table'[c].peer = table'[d].peer PROVE c = d
    BY <1>1, <2>2, Zenon DEF Admission, AdmittedOnce, InUse
  <2> QED BY <2>1, <2>2, Zenon DEF AdmittedOnce
<1> QED BY <1>2, <1>3, <1>4, <1>5, Zenon DEF Admission

LEMMA AllKept ==
    ASSUME Admission, UNCHANGED <<tableVars, open, conn, seed>>, gen' \in Nat
    PROVE  Admission'
  BY PeersKept, Zenon DEF Admission, AdmissionType, tableVars

LEMMA AdmissionInit == Init => Admission
<1> SUFFICES ASSUME Init PROVE Admission
  BY Zenon
<1>1. Empty \in Clients
  BY Zenon DEF Empty, Clients
<1>2. AdmissionType
  BY <1>1, Zenon DEF Init, AdmissionType
<1>3. InUse = {} /\ Registered = {}
  BY Zenon DEF Init, InUse, Registered, Empty
<1> QED
  BY <1>2, <1>3, Zenon DEF Init, Admission, NoneFromTheFuture, NoPeerLeaked, AdmittedOnce, Empty

(* sendToRelevantClients spends sequence numbers and moves nobody. *)
Spent(c) == [table[c] EXCEPT !.next = NextTxSeq(@), !.built = @ + 1]

LEMMA ClientUpdated ==
    ASSUME NEW r \in Clients, NEW n \in Nat, NEW b \in Nat
    PROVE  /\ [r EXCEPT !.next = n, !.built = b] \in Clients
           /\ [r EXCEPT !.next = n, !.built = b].peer = r.peer
  BY ZenonT(40) DEF Clients

LEMMA SpentType ==
    ASSUME AdmissionType, NEW c \in Slots
    PROVE  Spent(c) \in Clients /\ Spent(c).peer = table[c].peer
<1>1. table[c] \in Clients
  BY Zenon DEF AdmissionType
<1>2. NextTxSeq(table[c].next) \in Nat /\ table[c].built + 1 \in Nat
  BY <1>1 DEF Clients, NextTxSeq
<1> QED BY <1>1, <1>2, ClientUpdated, Zenon DEF Spent

LEMMA BuildKept ==
    ASSUME Admission, NEW chosen,
           table' = [c \in Slots |-> IF c \in chosen THEN Spent(c) ELSE table[c]],
           UNCHANGED <<pending, drops, open, conn, seed, gen>>
    PROVE  Admission'
<1>1. \A c \in Slots : table'[c] \in Clients /\ table'[c].peer = table[c].peer
  BY SpentType, Zenon DEF Admission, AdmissionType
<1>2. table' \in [Slots -> Clients]
  BY <1>1, Zenon
<1> QED
  BY <1>1, <1>2, PeersKept, Zenon DEF Admission, AdmissionType

LEMMA FanoutKept ==
    Admission /\ (PssDead \/ FaultFanout \/ RecoverFanout \/ Forward) => Admission'
<1> SUFFICES ASSUME Admission, PssDead \/ FaultFanout \/ RecoverFanout \/ Forward PROVE Admission'
  BY Zenon
<1>1. UNCHANGED <<pending, drops, open, conn, seed, gen>>
  BY Zenon DEF PssDead, FaultFanout, RecoverFanout, Forward, link, callback
<1>2. \E chosen : table' = [c \in Slots |-> IF c \in chosen THEN Spent(c) ELSE table[c]]
  BY Zenon DEF PssDead, FaultFanout, RecoverFanout, Forward, Build, Spent
<1> QED BY <1>1, <1>2, BuildKept, Zenon

(* The debt of a client may change, the client may not. *)
LEMMA DebtChanged ==
    ASSUME AdmissionType, NEW c \in Slots, NEW g \in Nat
    PROVE  /\ [table[c] EXCEPT !.owed = g] \in Clients
           /\ [table[c] EXCEPT !.owed = g].peer = table[c].peer
<1>1. table[c] \in Clients
  BY Zenon DEF AdmissionType
<1> QED BY <1>1, Zenon DEF Clients

LEMMA MissChanged ==
    ASSUME AdmissionType, NEW c \in Slots, NEW misses \in Nat
    PROVE  /\ [table[c] EXCEPT !.miss = misses] \in Clients
           /\ [table[c] EXCEPT !.miss = misses].peer = table[c].peer
<1>1. table[c] \in Clients
  BY Zenon DEF AdmissionType
<1> QED BY <1>1, Zenon DEF Clients

LEMMA DebtKept == Admission /\ (NoteFault \/ PayDebts) => Admission'
<1> SUFFICES ASSUME Admission, NoteFault \/ PayDebts PROVE Admission'
  BY Zenon
<1>1. UNCHANGED <<pending, drops, open, conn, seed>>
  BY Zenon DEF NoteFault, PayDebts, link
<1>2. gen' \in Nat /\ gen + 1 \in Nat /\ seed' \in Nat /\ AdmissionType
  BY <1>1 DEF NoteFault, PayDebts, Admission, AdmissionType
<1> DEFINE Marked(S, g) == [c \in Slots |-> IF c \in S THEN [table[c] EXCEPT !.owed = g] ELSE table[c]]
<1>3. \E S : \E g \in Nat : table' = Marked(S, g)
  <2>1. CASE NoteFault
    <3>1. table' = Marked(InUse, gen + 1)
      BY <2>1, Zenon DEF NoteFault
    <3> HIDE DEF Marked
    <3> QED BY <3>1, <1>2, Zenon
  <2>2. CASE PayDebts
    <3> DEFINE S == {c \in Slots : \E r \in paid : r.slot = c /\ r.peer = table[c].peer /\ r.owed = table[c].owed}
    <3>1. table' = Marked(S, 0)
      BY <2>2, Zenon DEF PayDebts
    <3> HIDE DEF Marked, S
    <3> QED BY <3>1, Zenon
  <2> QED BY <2>1, <2>2, Zenon
<1>4. \A c \in Slots : table'[c] \in Clients /\ table'[c].peer = table[c].peer
  BY <1>2, <1>3, DebtChanged DEF AdmissionType
<1>5. table' \in [Slots -> Clients]
  BY <1>3, <1>4, Zenon
<1> QED BY <1>1, <1>2, <1>4, <1>5, PeersKept, Zenon

LEMMA OthersKept ==
    ASSUME Admission,
           \/ \E id, kind : OnRequest(id, kind)
           \/ CheckOwed
           \/ \E t : SendItem(t)
           \/ \E s : SdmReceive(s) \/ SdmRegr(s)
           \/ UNCHANGED vars
    PROVE  Admission'
<1>1. UNCHANGED <<tableVars, open, conn, seed, gen>>
  BY Zenon DEF OnRequest, CheckOwed, SendItem, SendAccepted, SendRefused, SdmReceive, SdmRegr, vars,
         tableVars, link, callback
<1> QED BY <1>1, AllKept, Zenon DEF Admission, AdmissionType

(* A new connection is one nobody knows yet, and it is on the clock. *)
LEMMA AcceptedKept ==
    ASSUME Admission, NEW s \in Sdms, Accepted(s), UNCHANGED <<table, drops, gen, seed>>
    PROVE  Admission'
<1> DEFINE p == <<s, conn[s] + 1>>
<1>1. conn \in [Sdms -> Nat] /\ conn' \in [Sdms -> Nat] /\ p \in Peers
  BY DEF Admission, AdmissionType, Accepted, Peers
<1>2. open' = open \cup {p} /\ pending' = pending \cup {p}
  BY Zenon DEF Accepted
<1>3. \A t \in Sdms : conn'[t] >= conn[t] /\ conn'[t] \in Nat /\ conn[t] \in Nat
  BY <1>1 DEF Accepted
<1>4. AdmissionType'
  BY <1>1, <1>2, Zenon DEF Admission, AdmissionType
<1>5. NoneFromTheFuture'
  <2>1. ASSUME NEW q \in Peers, q[2] <= conn[q[1]] PROVE q[2] <= conn'[q[1]]
    BY <1>3, <2>1 DEF Peers
  <2>2. p[2] <= conn'[p[1]]
    BY <1>1 DEF Accepted
  <2>3. ASSUME NEW q \in open' PROVE q[2] <= conn'[q[1]]
    BY <1>2, <2>1, <2>2, Zenon DEF Admission, AdmissionType, NoneFromTheFuture
  <2>4. ASSUME NEW c \in Slots, table[c].peer # NoPeer PROVE table[c].peer[2] <= conn'[table[c].peer[1]]
    <3>1. table[c].peer \in Peers
      BY <2>4, Zenon DEF Admission, AdmissionType, Clients
    <3> QED BY <2>1, <2>4, <3>1, Zenon DEF Admission, NoneFromTheFuture
  <2> QED BY <2>3, <2>4, Zenon DEF NoneFromTheFuture
<1>6. InUse' = InUse /\ Registered' = Registered
  BY Zenon DEF InUse, Registered
<1>7. p \notin Registered
  <2> SUFFICES ASSUME NEW c \in Slots, table[c].peer # NoPeer, table[c].peer = p PROVE FALSE
    BY Zenon DEF Registered, InUse
  <2>1. p[2] <= conn[p[1]]
    BY Zenon DEF Admission, NoneFromTheFuture
  <2> QED BY <2>1, <1>1
<1> HIDE DEF p
<1>8. NoPeerLeaked'
  BY <1>2, <1>6, Zenon DEF Admission, NoPeerLeaked
<1>9. AdmittedOnce'
  BY <1>2, <1>6, <1>7, Zenon DEF Admission, AdmittedOnce
<1> QED BY <1>4, <1>5, <1>8, <1>9, Zenon DEF Admission

(* Slots are released and their connections are closed, or will be. *)
LEMMA ReleaseKept ==
    ASSUME Admission, NEW S \in SUBSET Slots,
           table' \in [Slots -> Clients],
           \A c \in Slots : table'[c].peer = IF c \in S THEN NoPeer ELSE table[c].peer,
           open' \subseteq open, pending' \subseteq pending,
           \A p \in open' : p \in Registered \cup pending \cup drops => p \in Registered' \cup pending' \cup drops',
           UNCHANGED <<conn, gen, seed>>
    PROVE  Admission'
<1>1. AdmissionType'
  BY Zenon DEF Admission, AdmissionType
<1>2. NoneFromTheFuture'
  BY Zenon DEF Admission, NoneFromTheFuture
<1>3. NoPeerLeaked'
  BY Zenon DEF Admission, NoPeerLeaked
<1>4. Registered' \subseteq Registered
  BY Zenon DEF Registered, InUse
<1>5. ASSUME NEW c \in InUse', NEW d \in InUse', table'[c].peer = table'[d].peer PROVE c = d
  BY <1>5, Zenon DEF Admission, AdmittedOnce, InUse
<1>6. AdmittedOnce'
  BY <1>4, <1>5, Zenon DEF Admission, AdmittedOnce
<1> QED BY <1>1, <1>2, <1>3, <1>6, Zenon DEF Admission

LEMMA DropKept ==
    ASSUME Admission, (\E p : Reap(p)) \/ Flush
    PROVE  Admission'
<1>1. table' = table /\ Registered' = Registered
  BY Zenon DEF Reap, Flush, Registered, InUse
<1>2. /\ open' \subseteq open /\ pending' \subseteq pending
      /\ \A q \in open' : q \in Registered \cup pending \cup drops => q \in Registered' \cup pending' \cup drops'
      /\ UNCHANGED <<conn, gen, seed>>
  BY <1>1, Zenon DEF Reap, Flush, callback
<1>3. table' \in [Slots -> Clients]
  BY <1>1, Zenon DEF Admission, AdmissionType
<1>4. \A c \in Slots : table'[c].peer = IF c \in {} THEN NoPeer ELSE table[c].peer
  BY <1>1, Zenon
<1>5. {} \in SUBSET Slots
  BY Zenon
<1> QED BY <1>2, <1>3, <1>4, <1>5, ReleaseKept, Zenon

LEMMA EmptyType == Empty \in Clients /\ Empty.peer = NoPeer
  BY Zenon DEF Empty, Clients

LEMMA PeerGoneKept ==
    ASSUME Admission, NEW p, NEW byPoll, PeerGone(p, byPoll)
    PROVE  Admission'
<1> DEFINE S == {c \in Slots : table[c].peer = p}
<1>1. table' = [c \in Slots |-> IF c \in S THEN Empty ELSE table[c]]
  BY Zenon DEF PeerGone, Released
<1>2. table' \in [Slots -> Clients]
  BY <1>1, EmptyType, Zenon DEF Admission, AdmissionType
<1>3. \A c \in Slots : table'[c].peer = IF c \in S THEN NoPeer ELSE table[c].peer
  BY <1>1, EmptyType, Zenon
<1>4. open' = open \ {p} /\ pending' = pending \ {p} /\ drops \subseteq drops' /\ UNCHANGED <<conn, gen, seed>>
  BY Zenon DEF PeerGone, callback
<1>5. ASSUME NEW q \in Registered, q # p PROVE q \in Registered'
  BY <1>3, <1>5, Zenon DEF Registered, InUse
<1>6. S \in SUBSET Slots
  BY Zenon
<1> HIDE DEF S
<1>7. \A q \in open' : q \in Registered \cup pending \cup drops => q \in Registered' \cup pending' \cup drops'
  BY <1>4, <1>5, Zenon
<1> QED BY <1>2, <1>3, <1>4, <1>6, <1>7, ReleaseKept, Zenon

LEMMA LadderKept ==
    ASSUME Admission, NEW late \in SUBSET InUse, Ladder(late)
    PROVE  Admission'
<1> DEFINE lost == {c \in late : table[c].miss + 1 >= MaxHbFailures}
<1>1. /\ table' = [c \in Slots |-> IF c \in late \ lost THEN [table[c] EXCEPT !.miss = @ + 1]
                                   ELSE Released(lost)[c]]
      /\ drops' = drops \cup {table[c].peer : c \in lost}
      /\ UNCHANGED <<pending, open, conn, gen, seed>>
  BY Zenon DEF Ladder, link, callback
<1>2. lost \in SUBSET Slots /\ late \subseteq Slots
  BY Zenon DEF InUse
<1> HIDE DEF lost
<1>3. ASSUME NEW c \in Slots
      PROVE  table'[c] \in Clients /\ table'[c].peer = IF c \in lost THEN NoPeer ELSE table[c].peer
  <2>1. table[c] \in Clients /\ table[c].miss + 1 \in Nat /\ AdmissionType
    BY DEF Admission, AdmissionType, Clients
  <2>2. CASE c \in late \ lost
    BY <1>1, <2>1, <2>2, MissChanged, Zenon
  <2>3. CASE c \notin late \ lost
    BY <1>1, <2>1, <2>3, EmptyType, Zenon DEF Released
  <2> QED BY <2>2, <2>3, Zenon
<1>4. table' \in [Slots -> Clients]
  BY <1>1, <1>3, Zenon
<1>5. ASSUME NEW q \in Registered PROVE q \in Registered' \cup drops'
  <2>1. PICK c \in InUse : q = table[c].peer
    BY Zenon DEF Registered
  <2>2. CASE c \in lost
    BY <1>1, <2>1, <2>2, Zenon
  <2>3. CASE c \notin lost
    BY <1>3, <2>1, <2>3, Zenon DEF Registered, InUse
  <2> QED BY <2>2, <2>3, Zenon
<1>6. \A q \in open' : q \in Registered \cup pending \cup drops => q \in Registered' \cup pending' \cup drops'
  BY <1>1, <1>5, Zenon
<1> QED BY <1>1, <1>2, <1>3, <1>4, <1>6, ReleaseKept, Zenon

(* A sender that is not registered goes on the clock. *)
LEMMA ClockStarted ==
    ASSUME Admission, table' \in [Slots -> Clients], gen' \in Nat, seed' \in Nat,
           \A c \in Slots : table'[c].peer = table[c].peer,
           NEW p, p \notin Registered, pending' = pending \cup {p},
           UNCHANGED <<drops, open, conn>>
    PROVE  Admission'
<1>1. InUse' = InUse /\ Registered' = Registered
  BY Zenon DEF InUse, Registered
<1>2. AdmissionType' /\ NoneFromTheFuture'
  BY Zenon DEF Admission, AdmissionType, NoneFromTheFuture
<1>3. NoPeerLeaked'
  BY <1>1, Zenon DEF Admission, NoPeerLeaked
<1>4. ASSUME NEW c \in InUse', NEW d \in InUse', table'[c].peer = table'[d].peer PROVE c = d
  BY <1>1, <1>4, Zenon DEF Admission, AdmittedOnce, InUse
<1>5. AdmittedOnce'
  BY <1>1, <1>4, Zenon DEF Admission, AdmittedOnce
<1> QED BY <1>2, <1>3, <1>5, Zenon DEF Admission

LEMMA HbAckKept == ASSUME Admission, NEW p, HbAck(p) PROVE Admission'
<1>1. /\ UNCHANGED <<drops, open, conn, gen, seed>>
      /\ table' = [c \in Slots |-> IF table[c].peer = p THEN [table[c] EXCEPT !.miss = 0] ELSE table[c]]
      /\ pending' = IF p \in Registered THEN pending ELSE pending \cup {p}
      /\ gen' \in Nat /\ seed' \in Nat /\ AdmissionType
  BY Zenon DEF HbAck, link, callback, Admission, AdmissionType
<1>2. \A c \in Slots : table'[c] \in Clients /\ table'[c].peer = table[c].peer
  BY <1>1, MissChanged, Zenon DEF AdmissionType
<1>3. table' \in [Slots -> Clients]
  BY <1>1, <1>2, Zenon
<1> QED BY <1>1, <1>2, <1>3, PeersKept, ClockStarted, Zenon

LEMMA FirstFreeIsFree == ASSUME InUse # Slots PROVE FirstFree \in Slots \ InUse
<1> DEFINE T == Slots \ InUse
<1>1. T \subseteq Nat /\ T # {}
  BY DEF Slots, InUse
<1> DEFINE R == {ss \in Nat \X Nat : ss[1] < ss[2]}
<1>2. IsWellFoundedOn(R, Nat)
  BY NatLessThanWellFounded, Zenon DEF OpToRel
<1>3. PICK x \in T : \A y \in T : ~ (<<y, x>> \in R)
  <2> HIDE DEF T, R
  <2> QED BY <1>1, <1>2, WFMin, Zenon
<1>4. \A a, b \in Nat : a < b => <<a, b>> \in R
  BY Zenon
<1>5. ASSUME NEW y \in T PROVE x <= y
  <2>1. x \in Nat /\ y \in Nat
    BY <1>1, Zenon
  <2> HIDE DEF T, R
  <2>2. ~ (y < x)
    BY <1>3, <1>4, <1>5, <2>1, Zenon
  <2> QED BY <2>1, <2>2
<1>6. \E c \in Slots \ InUse : \A d \in Slots \ InUse : c <= d
  BY <1>5, Zenon
<1>7. (CHOOSE c \in Slots \ InUse : \A d \in Slots \ InUse : c <= d) \in Slots \ InUse
  BY <1>6, Zenon
<1> QED BY <1>7, Zenon DEF FirstFree

(* A REGR: the peer keeps its slot, stays on the clock, or leaves the clock for *)
(* a free slot.                                                                 *)
LEMMA RegisterKept == ASSUME Admission, NEW p, Register(p) PROVE Admission'
<1> DEFINE c == SlotFor(p)
<1>1. AdmissionType /\ gen \in Nat /\ seed \in Nat /\ p \in Peers /\ p # NoPeer /\ p \in open
  BY NoPeerIsNone, Zenon DEF Admission, AdmissionType, Register
<1>2. UNCHANGED <<drops, open, conn, gen>> /\ seed' \in Nat
  BY <1>1 DEF Register, callback
<1>3. CASE p \in Registered
  <2>1. c \in InUse /\ c \in Slots /\ c # 0 /\ table[c].peer = p
    BY <1>3 DEF SlotFor, Registered, InUse, Slots
  <2> HIDE DEF c
  <2>2. table' = [table EXCEPT ![c] = [table[c] EXCEPT !.miss = 0]]
    BY <2>1, Zenon DEF Register, c
  <2>3. pending' = pending
    BY <2>1, <1>3, Zenon DEF Register, c, PendingAfter, Admission, AdmittedOnce
  <2>4. [table[c] EXCEPT !.miss = 0] \in Clients /\ [table[c] EXCEPT !.miss = 0].peer = table[c].peer
    BY <1>1, <2>1, MissChanged, Zenon
  <2>5. table' \in [Slots -> Clients] /\ \A d \in Slots : table'[d].peer = table[d].peer
    BY <1>1, <2>1, <2>2, <2>4, Zenon DEF AdmissionType
  <2> QED BY <1>1, <1>2, <2>3, <2>5, PeersKept, Zenon
<1>4. CASE p \notin Registered /\ InUse = Slots
  <2>1. c = 0
    BY <1>4, Zenon DEF SlotFor, FirstFree
  <2>2. table' = table /\ pending' = pending \cup {p}
    BY <2>1, Zenon DEF Register, PendingAfter
  <2> QED BY <1>1, <1>2, <1>4, <2>2, ClockStarted, Zenon DEF AdmissionType
<1>5. CASE p \notin Registered /\ InUse # Slots
  <2>1. c \in Slots \ InUse /\ c # 0
    BY <1>5, FirstFreeIsFree DEF SlotFor, Slots
  <2> HIDE DEF c
  <2>2. table[c].peer = NoPeer
    BY <2>1, Zenon DEF InUse
  <2>3. table' = [table EXCEPT ![c] = NewClient(p)] /\ pending' = pending \ {p}
    BY <1>1, <2>1, <2>2, Zenon DEF Register, PendingAfter, c
  <2>4. NewClient(p) \in Clients /\ NewClient(p).peer = p
    BY <1>1, EmptyType, Zenon DEF NewClient, Clients
  <2>5. AdmissionType'
    BY <1>1, <1>2, <2>3, <2>4, Zenon DEF AdmissionType
  <2>6. \A d \in Slots : table'[d].peer = IF d = c THEN p ELSE table[d].peer
    BY <1>1, <2>1, <2>3, <2>4, Zenon DEF AdmissionType
  <2>7. NoneFromTheFuture'
    BY <1>1, <1>2, <2>6, Zenon DEF Admission, NoneFromTheFuture
  <2>8. InUse' = InUse \cup {c} /\ Registered' = Registered \cup {p}
    <3>1. InUse' = InUse \cup {c}
      BY <1>1, <2>1, <2>6, Zenon DEF InUse
    <3>2. ASSUME NEW q PROVE q \in Registered' <=> q \in Registered \cup {p}
      BY <3>1, <2>1, <2>6 DEF Registered, InUse
    <3> QED BY <3>1, <3>2, Zenon
  <2>9. NoPeerLeaked'
    BY <1>2, <2>3, <2>8, Zenon DEF Admission, NoPeerLeaked
  <2>10. ASSUME NEW d \in InUse', NEW e \in InUse', table'[d].peer = table'[e].peer PROVE d = e
    <3>1. \A f \in InUse : f \in Slots /\ table[f].peer # p /\ table[f].peer \in Registered
      BY <1>5, Zenon DEF Registered, InUse
    <3>2. d \in InUse \cup {c} /\ e \in InUse \cup {c}
      BY <2>8, Zenon
    <3> QED BY <2>1, <2>6, <2>10, <3>1, <3>2, Zenon DEF Admission, AdmittedOnce
  <2>11. AdmittedOnce'
    BY <2>3, <2>8, <2>10, Zenon DEF Admission, AdmittedOnce
  <2> QED BY <2>5, <2>7, <2>9, <2>11, Zenon DEF Admission
<1> QED BY <1>3, <1>4, <1>5, Zenon

LEMMA AdmissionStep == Admission /\ [Next]_vars => Admission'
<1> SUFFICES ASSUME Admission, [Next]_vars PROVE Admission'
  BY Zenon
<1>1. CASE Callback
  BY <1>1, FanoutKept, DebtKept, OthersKept, Zenon DEF Callback
<1>2. ASSUME NEW s \in Sdms, SdmConnect(s) \/ SdmRestart(s) PROVE Admission'
  BY <1>2, AcceptedKept, Zenon DEF SdmConnect, SdmRestart, callback
<1>3. CASE Listener
  BY <1>2, <1>3, OthersKept, RegisterKept, PeerGoneKept, DropKept, Zenon DEF Listener
<1> QED
  BY <1>1, <1>3, FanoutKept, OthersKept, LadderKept, HbAckKept, Zenon DEF Next

(* Two-stage admission never loses a connection: whatever the SDMs and the       *)
(* transport do, a connection that holds a transport slot is registered, on the  *)
(* reaper's clock or about to be dropped.                                        *)
THEOREM NothingLeaks == Spec => []NoPeerLeaked
<1>1. Admission => NoPeerLeaked
  BY Zenon DEF Admission
<1> QED BY <1>1, AdmissionInit, AdmissionStep, PTL DEF Spec

(* A connection has one slot, and the reaper never closes a registered client.   *)
THEOREM OneSlotEach == Spec => []AdmittedOnce
<1>1. Admission => AdmittedOnce
  BY Zenon DEF Admission
<1> QED BY <1>1, AdmissionInit, AdmissionStep, PTL DEF Spec
=============================================================================
