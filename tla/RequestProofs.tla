----------------------------- MODULE RequestProofs -----------------------------
(***************************************************************************)
(* What the functions on a decision request return, for every request the  *)
(* gateway may forward.  All decision modules rest on these.               *)
(***************************************************************************)
EXTENDS SdmRequestState, WellFoundedInduction, TLAPS

\* A set of numbers that is not empty has a least element.
LEMMA LeastNat ==
    ASSUME NEW T, T \subseteq Nat, T # {}
    PROVE  \E x \in T : \A y \in T : x <= y
<1> DEFINE R == {ss \in Nat \X Nat : ss[1] < ss[2]}
<1>1. IsWellFoundedOn(R, Nat)
  BY NatLessThanWellFounded, Zenon DEF OpToRel
<1>2. PICK x \in T : \A y \in T : ~ (<<y, x>> \in R)
  <2> HIDE DEF R
  <2> QED BY <1>1, WFMin, Zenon
<1>3. ASSUME NEW y \in T PROVE x <= y
  <2>1. x \in Nat /\ y \in Nat
    BY Zenon
  <2>2. y < x => <<y, x>> \in R
    BY <2>1, Zenon
  <2> HIDE DEF R
  <2>3. ~ (y < x)
    BY <1>2, <2>2, Zenon
  <2> QED BY <2>1, <2>3
<1> QED BY <1>3, Zenon

\* The presence report of a request is one of its events.
LEMMA ReportFound ==
    ASSUME NEW r \in Requests, HasReport(r)
    PROVE  FindPresenceReport(r) \in Events(r) /\ IsReport(FindPresenceReport(r))
<1> DEFINE n == Len(r.evs)
           At(i) == IsReport(r.evs[i])
           T == {m \in 0..n : \E i \in 1..n : m = n - i /\ At(i)}
<1>1. n \in Nat
  BY RequestAssumption, Zenon
<1> HIDE DEF n, At
<1>2. \E i \in 1..n : At(i)
  BY Zenon DEF HasReport, Events, n, At
<1>3. PICK m \in T : \A y \in T : m <= y
  <2>1. PICK i \in 1..n : At(i)
    BY <1>2, Zenon
  <2>2. n - i \in T
    BY <1>1, <2>1
  <2>3. T # {} /\ T \subseteq Nat
    BY <1>1, <2>2
  <2> HIDE DEF T
  <2> QED BY <2>3, LeastNat, Zenon
<1>4. n - m \in 1..n /\ At(n - m) /\ \A j \in (n - m + 1)..n : ~At(j)
  <2>1. PICK i \in 1..n : m = n - i /\ At(i)
    BY <1>3, Zenon
  <2>2. i = n - m
    BY <1>1, <2>1
  <2>3. ASSUME NEW j \in (i + 1)..n, At(j) PROVE FALSE
    <3>1. n - j \in T /\ n - j < m
      BY <1>1, <2>1, <2>3
    <3> QED BY <1>1, <1>3, <3>1
  <2> QED BY <1>1, <2>1, <2>2, <2>3, Zenon
<1>5. \E i \in 1..n : At(i) /\ \A j \in (i + 1)..n : ~At(j)
  BY <1>4, Zenon
<1> DEFINE last == CHOOSE i \in 1..n : At(i) /\ \A j \in (i + 1)..n : ~At(j)
<1>6. last \in 1..n /\ At(last)
  BY <1>5, Zenon
<1>7. FindPresenceReport(r) = r.evs[last]
  BY Zenon DEF FindPresenceReport, n, At
<1> HIDE DEF last
<1> QED BY <1>6, <1>7, Zenon DEF Events, n, At

\* SdmSourcePresenceEvaluate: sources once seen stay seen, no group is both raised and
\* cleared, and a source this request leaves lost has its group raised or was lost before
\* and the request says nothing of it.
LEMMA PresenceFacts ==
    ASSUME NEW r \in Requests, NEW seen, NEW gone, seen \subseteq Sources, gone \subseteq seen
    PROVE  LET d == SourcePresenceEvaluate(seen, r)
           IN  /\ d.seen \subseteq Sources
               /\ d.raised \subseteq LostCauses /\ d.cleared \subseteq LostCauses
               /\ d.raised \cap d.cleared = {}
               /\ GoneAfter(gone, r) \subseteq d.seen
               /\ \A s \in GoneAfter(gone, r) : GroupOf[s] \in d.raised \/ (s \in gone /\ d.cleared = {})
<1> DEFINE fails == {ev \in SwFails(r) : ev.cause \in LostCauses}
           named == UNION {ev.names : ev \in fails}
           failedNow == {ev.cause : ev \in fails}
           rep == FindPresenceReport(r)
           known == seen \cup named \cup rep.expected
           missing == {g \in LostCauses : (known \cap Group(g)) \ rep.present # {}}
           cleared == IF r.mode = "ERROR" THEN {}
                      ELSE {g \in LostCauses \ (failedNow \cup missing) : Group(g) \cap rep.present # {}}
           d == SourcePresenceEvaluate(seen, r)
<1>1. \A ev \in fails : ev.names \subseteq Sources /\ \A s \in ev.names : GroupOf[s] = ev.cause
  BY RequestAssumption, Zenon DEF SwFails
<1>2. named \subseteq Sources /\ failedNow \subseteq LostCauses /\ \A s \in named : GroupOf[s] \in failedNow
  BY <1>1, Zenon
<1>3. GoneAfter(gone, r) = IF HasReport(r) THEN ((gone \cup rep.expected) \ rep.present) \cup named
                     ELSE gone \cup named
  BY Zenon DEF GoneAfter
<1>4. CASE ~HasReport(r)
  <2>1. d = [seen |-> seen \cup named, raised |-> failedNow, cleared |-> {}]
    BY <1>4, Zenon DEF SourcePresenceEvaluate
  <2> HIDE DEF d, named, failedNow
  <2> QED BY <1>2, <1>3, <1>4, <2>1 DEF d
<1>5. CASE HasReport(r)
  <2>1. d = [seen |-> known \cup rep.present, raised |-> failedNow \cup missing, cleared |-> cleared]
    BY <1>5, Zenon DEF SourcePresenceEvaluate
  <2>2. rep.present \subseteq Sources /\ rep.expected \subseteq Sources
    BY <1>5, ReportFound, RequestAssumption, Zenon
  <2> HIDE DEF d, named, failedNow, rep
  <2>3. \A s \in known \ rep.present : GroupOf[s] \in missing
    BY <1>2, <2>2, SourceAssumption, Zenon DEF Group
  <2>4. missing \subseteq LostCauses /\ cleared \subseteq LostCauses /\ cleared \cap (failedNow \cup missing) = {}
    BY Zenon
  <2>5. GoneAfter(gone, r) \subseteq (known \ rep.present) \cup named
    BY <1>3, <1>5, Zenon
  <2>6. \A s \in GoneAfter(gone, r) : GroupOf[s] \in failedNow \cup missing
    BY <1>2, <2>3, <2>5, Zenon
  <2>7. GoneAfter(gone, r) \subseteq known
    BY <2>5, Zenon
  <2> HIDE DEF missing, cleared
  <2> QED BY <1>2, <2>1, <2>2, <2>4, <2>6, <2>7 DEF d
<1> QED BY <1>4, <1>5, Zenon

\* SdmSourceInputStateEvaluate: the cause is raised exactly while it is held for a source.
LEMMA InputFacts ==
    ASSUME NEW r \in Requests, NEW held, held \subseteq Sources
    PROVE  LET d == SourceInputStateEvaluate(held, r)
           IN  /\ d.held \subseteq Sources
               /\ d.raised = IF d.held # {} THEN {"INPUT_UNUSABLE"} ELSE {}
               /\ d.cleared \subseteq {"INPUT_UNUSABLE"}
               /\ d.held # {} => d.cleared = {}
<1> DEFINE fromSwFail == UNION {ev.names : ev \in {e \in SwFails(r) : e.cause = "CLIENT_INPUT_UNUSABLE"}}
           rep == FindPresenceReport(r)
           after == IF ~HasReport(r) THEN held \cup fromSwFail
                    ELSE (held \cup fromSwFail \cup rep.unusable)
                         \ (IF r.mode = "ERROR" THEN {}
                            ELSE rep.confirmed \ (rep.unusable \cup fromSwFail))
           d == SourceInputStateEvaluate(held, r)
<1>1. fromSwFail \subseteq Sources
  BY RequestAssumption, Zenon DEF SwFails
<1>2. HasReport(r) => rep.unusable \subseteq Sources
  BY ReportFound, RequestAssumption, Zenon
<1>3. d = [held |-> after,
           raised |-> IF after # {} THEN {"INPUT_UNUSABLE"} ELSE {},
           cleared |-> IF after = {} /\ held # {} THEN {"INPUT_UNUSABLE"} ELSE {}]
  BY Zenon DEF SourceInputStateEvaluate
<1> HIDE DEF fromSwFail, rep
<1>4. after \subseteq Sources
  BY <1>1, <1>2, Zenon
<1> HIDE DEF after, d
<1> QED BY <1>3, <1>4 DEF d

\* SdmAiPipelineVerdictApply: the flag is up afterwards only if it was before or an
\* INVALID was seen, and an INVALID is an edge unless the flag was up.
LEMMA AiFacts ==
    ASSUME NEW r \in Requests, NEW b \in BOOLEAN
    PROVE  LET v == AiPipelineVerdictApply(b, r)
           IN  /\ v.active => b \/ v.saw
               /\ v.saw /\ ~v.entered => b
<1> DEFINE Invalids == {i \in AiVerdicts(r) : r.evs[i].type = "AI_PIPELINE_INVALID"}
           ActiveAt(n) ==
               \/ b /\ \A j \in AiVerdicts(r) : j >= n
               \/ \E i \in Invalids : i < n /\ \A j \in AiVerdicts(r) : j <= i \/ j >= n
           v == AiPipelineVerdictApply(b, r)
<1>1. v = [active |-> ActiveAt(Len(r.evs) + 1), saw |-> Invalids # {},
           entered |-> \E i \in Invalids : ~ActiveAt(i)]
  BY Zenon DEF AiPipelineVerdictApply
<1>2. v.active = ActiveAt(Len(r.evs) + 1) /\ v.saw = (Invalids # {})
      /\ v.entered = \E i \in Invalids : ~ActiveAt(i)
  BY <1>1
<1>3. Invalids \subseteq Nat
  BY RequestAssumption DEF AiVerdicts
<1>4. ASSUME Invalids # {}, ~b PROVE \E i \in Invalids : ~ActiveAt(i)
  <2>1. PICK i \in Invalids : \A j \in Invalids : i <= j
    <3> HIDE DEF Invalids
    <3> QED BY <1>3, <1>4, LeastNat, Zenon
  <2>2. ~ActiveAt(i)
    <3> HIDE DEF Invalids
    <3> QED BY <1>3, <1>4, <2>1
  <2> QED BY <2>2, Zenon
<1>5. ActiveAt(Len(r.evs) + 1) => b \/ Invalids # {}
  BY Zenon
<1> HIDE DEF v, ActiveAt, Invalids
<1> QED BY <1>2, <1>4, <1>5, Zenon DEF v

\* SdmSwFailSubCausesRaised
LEMMA SwFailFacts == ASSUME NEW r PROVE SwFailSubCausesRaised(r) \subseteq SubCauses
  BY Zenon DEF SwFailSubCausesRaised, SwFailSubCause, SubCauses
=============================================================================
