------------------------------ MODULE RpcProofs ------------------------------
(***************************************************************************)
(* Proofs about the RPC server and its clients: the masks of the status    *)
(* report are exact, a source that is missing has been announced, and a    *)
(* call that succeeds has been answered itself.                            *)
(***************************************************************************)
EXTENDS RpcClient, TLAPS

Pipes == {0} \cup {r.pipeline : r \in Reports}
Rows == [peer : Peers \cup {NoPeer}, id : Identities \cup {None}, quiet : 0..2, miss : Nat, latched : BOOLEAN,
         beaten : BOOLEAN, streak : Nat, raised : BOOLEAN, noted : BOOLEAN, pipeline : Pipes]
Messages == [kind : {"register", "heartbeat", "terminate"}, n : Nat]
            \cup [kind : {"report"}, n : Nat, report : Reports]
Answers == [n : Nat, ok : BOOLEAN]

WireTyped == requests \in [Peers -> Seq(Messages)] /\ responses \in [Peers -> Seq(Answers)]
ListTyped ==
    /\ gen \in [Slots -> Nat] /\ lag \in Nat
    /\ doomed \subseteq Slots /\ pending \subseteq Slots \X Nat
MaskTyped ==
    /\ everPresent \subseteq everRegistered /\ everRegistered \subseteq Tracked
    /\ raisedNever \subseteq Required /\ due \in BOOLEAN

(* What a slot says, given what has been registered and heard.              *)
RowOK(c, registered, present) ==
    /\ c.peer = NoPeer => c = NoClient
    /\ c.id # None => c.id = IdentityOf[c.peer[1]]
    /\ c.id \in Tracked => c.id \in registered
    /\ c.id \in Tracked /\ c.beaten => c.id \in present
    /\ c.raised => c.id # None
RowsOK == slot \in [Slots -> Rows] /\ \A s \in Slots : RowOK(slot[s], everRegistered, everPresent)

Alone == \A s, t \in Slots : slot[s].id \in Singletons /\ slot[s].id = slot[t].id => s = t
Monitored ==
    /\ \A s \in Slots : slot[s].id = "SM" =>
           smCache = [slot |-> s, miss |-> slot[s].miss, fault |-> slot[s].latched]
    /\ (\A s \in Slots : slot[s].id # "SM") => smCache = NoMonitor

Derived ==
    /\ presence = PresenceOf(slot) /\ unusable = UnusableOf(slot)
    /\ expected = ExpectedOf(everPresent, due)

(* What every step comes to, at whichever sites it recomputes a mask.       *)
Publish(sl) ==
    /\ slot' = sl
    /\ presence' = PresenceOf(sl)
    /\ unusable' = UnusableOf(sl)

PublishedInv == WireTyped /\ MaskTyped /\ RowsOK /\ Alone /\ Monitored /\ Derived

LEMMA NoPeerIsNone == NoPeer \notin Peers
  BY DEF NoPeer, Peers

LEMMA NoClientRow == NoClient \in Rows
  BY DEF NoClient, Rows, Pipes

LEMMA NoneIsNone == None \notin Identities /\ None \notin Singletons /\ None \notin Tracked /\ None # "SM"
  BY RpcAssumption, Zenon DEF None

LEMMA SlotFound ==
    ASSUME NEW p, HasSlot(p)
    PROVE  SlotOf(p) \in Slots /\ slot[SlotOf(p)].peer = p
  BY Zenon DEF HasSlot, SlotOf

LEMMA Exact ==
    ASSUME PublishedInv
    PROVE  PublishedExact /\ OneHolder
<1>1. presence \subseteq everPresent
  BY Zenon DEF PublishedInv, Derived, PresenceOf, RowsOK, RowOK
<1>2. presence \subseteq expected
  BY <1>1, Zenon DEF PublishedInv, Derived, ExpectedOf
<1>3. PublishedExact
  BY <1>2, Zenon DEF PublishedInv, Derived, Monitored, PublishedExact
<1>4. OneHolder
  BY Zenon DEF PublishedInv, Alone, OneHolder, Used
<1> QED BY <1>3, <1>4, Zenon

(* A set of clients is dropped.                                             *)
LEMMA Dropped ==
    ASSUME PublishedInv, WireTyped', NEW S \in SUBSET Slots,
           Publish([t \in Slots |-> IF t \in S THEN NoClient ELSE slot[t]]),
           smCache' = IF smCache.slot \in S /\ slot[smCache.slot].id = "SM" THEN NoMonitor ELSE smCache,
           UNCHANGED <<expected, everRegistered, everPresent, due, raisedNever>>
    PROVE  PublishedInv'
<1>1. slot' = [t \in Slots |-> IF t \in S THEN NoClient ELSE slot[t]] /\ presence' = PresenceOf(slot') /\ unusable' = UnusableOf(slot')
  BY Zenon DEF Publish
<1>2. MaskTyped'
  BY Zenon DEF PublishedInv, MaskTyped
<1>3. NoClient.id = None /\ RowOK(NoClient, everRegistered, everPresent)
  BY NoneIsNone, Zenon DEF NoClient, RowOK
<1>4. slot' \in [Slots -> Rows]
  BY <1>1, NoClientRow, Zenon DEF PublishedInv, RowsOK
<1>5. \A s \in Slots : slot'[s] = (IF s \in S THEN NoClient ELSE slot[s])
  BY <1>1, Zenon
<1>6. RowsOK'
  BY <1>3, <1>4, <1>5, Zenon DEF PublishedInv, RowsOK
<1>7. Alone'
  BY <1>3, <1>5, NoneIsNone, Zenon DEF PublishedInv, Alone
<1>8. Monitored'
  <2>1. ASSUME NEW s \in Slots, slot'[s].id = "SM"
        PROVE  smCache' = [slot |-> s, miss |-> slot'[s].miss, fault |-> slot'[s].latched]
    <3>1. s \notin S /\ slot'[s] = slot[s] /\ slot[s].id = "SM"
      BY <1>3, <1>5, <2>1, NoneIsNone, Zenon
    <3>2. smCache = [slot |-> s, miss |-> slot[s].miss, fault |-> slot[s].latched]
      BY <3>1, Zenon DEF PublishedInv, Monitored
    <3> QED BY <3>1, <3>2, Zenon
  <2>2. ASSUME \A s \in Slots : slot'[s].id # "SM" PROVE smCache' = NoMonitor
    <3>1. CASE \A s \in Slots : slot[s].id # "SM"
      BY <3>1, Zenon DEF PublishedInv, Monitored
    <3>2. CASE \E s \in Slots : slot[s].id = "SM"
      <4>1. PICK s \in Slots : slot[s].id = "SM"
        BY <3>2, Zenon
      <4>2. s \in S /\ smCache.slot = s
        BY <1>5, <2>2, <4>1 DEF PublishedInv, Monitored
      <4> QED BY <4>1, <4>2, Zenon
    <3> QED BY <3>1, <3>2, Zenon
  <2> QED BY <2>1, <2>2, Zenon DEF Monitored
<1>9. Derived'
  BY <1>1, Zenon DEF PublishedInv, Derived
<1> QED BY <1>2, <1>6, <1>7, <1>8, <1>9, Zenon DEF PublishedInv

LEMMA DropKeeps ==
    ASSUME PublishedInv, WireTyped', NEW s \in Slots, DropClient(s),
           UNCHANGED <<expected, everRegistered, everPresent, due, raisedNever>>
    PROVE  PublishedInv'
<1>1. Publish([t \in Slots |-> IF t \in {s} THEN NoClient ELSE slot[t]])
  <2>1. [slot EXCEPT ![s] = NoClient] = [t \in Slots |-> IF t \in {s} THEN NoClient ELSE slot[t]]
    BY Zenon DEF PublishedInv, RowsOK
  <2> QED BY <2>1, Zenon DEF DropClient, Clear, Publish
<1>2. smCache' = IF smCache.slot \in {s} /\ slot[smCache.slot].id = "SM" THEN NoMonitor ELSE smCache
  BY Zenon DEF DropClient, ClearCache
<1> QED BY <1>1, <1>2, Dropped, Zenon

(* What the handlers of a slot do to its row.                               *)
LEMMA BeatenRow ==
    ASSUME NEW c \in Rows
    PROVE  /\ Beaten(c) \in Rows /\ Beaten(c).id = c.id /\ Beaten(c).peer = c.peer /\ Beaten(c).latched = c.latched
           /\ c.latched => Beaten(c) = c
           /\ Beaten(c).raised = c.raised
           /\ ~c.latched => Beaten(c).miss = 0 /\ Beaten(c).quiet = 0 /\ Beaten(c).beaten
<1>1. CASE c.latched
  BY <1>1, Zenon DEF Beaten
<1>2. CASE ~c.latched
  <2>1. Beaten(c) = [c EXCEPT !.quiet = 0, !.miss = 0, !.beaten = TRUE]
    BY <1>2, Zenon DEF Beaten
  <2>2. 0 \in 0..2 /\ 0 \in Nat /\ TRUE \in BOOLEAN
    OBVIOUS
  <2> QED BY <1>2, <2>1, <2>2, Zenon DEF Rows
<1> QED BY <1>1, <1>2, Zenon

LEMMA RejectedRow ==
    ASSUME NEW c \in Rows
    PROVE  LET d == NoteReportRejected(c)
           IN  /\ d \in Rows /\ d.id = c.id /\ d.peer = c.peer /\ d.beaten = c.beaten
               /\ d.miss = c.miss /\ d.latched = c.latched /\ d.quiet = c.quiet
<1> DEFINE over == c.streak + 1 >= RejectThreshold
<1>1. PICK st \in Nat, ra \in BOOLEAN, no \in BOOLEAN :
        NoteReportRejected(c) = [c EXCEPT !.streak = st, !.raised = ra, !.noted = no]
  <2>1. (IF over THEN RejectThreshold ELSE c.streak + 1) \in Nat
    BY RpcAssumption DEF Rows
  <2>2. /\ (c.raised \/ (over /\ IsRequired(c))) \in BOOLEAN
        /\ (c.noted \/ (over /\ ~c.raised /\ c.pipeline # 0 /\ ~IsRequired(c))) \in BOOLEAN
    BY Zenon DEF IsRequired, Rows
  <2> QED BY <2>1, <2>2, Zenon DEF NoteReportRejected
<1> QED BY <1>1, Zenon DEF Rows

(* What the masks do not tell apart.                                        *)
LEMMA PresenceSame ==
    ASSUME NEW f, NEW g, \A s \in Slots : f[s].id = g[s].id,
           \A s \in Slots : f[s].id \in Tracked =>
               ((f[s].beaten /\ ~f[s].latched) <=> (g[s].beaten /\ ~g[s].latched))
    PROVE  PresenceOf(f) = PresenceOf(g)
  BY Zenon DEF PresenceOf

LEMMA UnusableSame ==
    ASSUME NEW f, NEW g, \A s \in Slots : f[s].raised <=> g[s].raised,
           \A s \in Slots : f[s].raised => InputIdentity(f[s].id) = InputIdentity(g[s].id)
    PROVE  UnusableOf(f) = UnusableOf(g)
  BY Zenon DEF UnusableOf

LEMMA RowMasks ==
    ASSUME PublishedInv, NEW s \in Slots, NEW row, row.id = slot[s].id
    PROVE  /\ (row.id \in Tracked => row.beaten = slot[s].beaten /\ row.latched = slot[s].latched)
                  => PresenceOf([slot EXCEPT ![s] = row]) = presence
           /\ row.raised = slot[s].raised => UnusableOf([slot EXCEPT ![s] = row]) = unusable
<1> DEFINE f == [slot EXCEPT ![s] = row]
<1>1. \A t \in Slots : f[t] = IF t = s THEN row ELSE slot[t]
  BY Zenon DEF PublishedInv, RowsOK
<1> HIDE DEF f
<1>2. ASSUME row.id \in Tracked => row.beaten = slot[s].beaten /\ row.latched = slot[s].latched
      PROVE  PresenceOf(f) = PresenceOf(slot)
  <2>1. \A t \in Slots : f[t].id = slot[t].id
    BY <1>1, Zenon
  <2>2. \A t \in Slots : f[t].id \in Tracked =>
               ((f[t].beaten /\ ~f[t].latched) <=> (slot[t].beaten /\ ~slot[t].latched))
    BY <1>1, <1>2, Zenon
  <2> QED BY <2>1, <2>2, PresenceSame, Zenon
<1>3. ASSUME row.raised = slot[s].raised PROVE UnusableOf(f) = UnusableOf(slot)
  <2>1. \A t \in Slots : f[t].raised <=> slot[t].raised
    BY <1>1, <1>3, Zenon
  <2>2. \A t \in Slots : f[t].raised => InputIdentity(f[t].id) = InputIdentity(slot[t].id)
    BY <1>1, Zenon
  <2> QED BY <2>1, <2>2, UnusableSame, Zenon
<1> QED BY <1>2, <1>3, Zenon DEF PublishedInv, Derived, f

(* One client's row changes, and keeps its name.                            *)
LEMMA RowChanged ==
    ASSUME PublishedInv, WireTyped', MaskTyped', NEW s \in Slots, NEW row \in Rows,
           Publish([slot EXCEPT ![s] = row]),
           everRegistered \subseteq everRegistered', everPresent \subseteq everPresent',
           expected' = ExpectedOf(everPresent', due'),
           row.id = slot[s].id, RowOK(row, everRegistered', everPresent'),
           smCache' = IF row.id = "SM" THEN [slot |-> s, miss |-> row.miss, fault |-> row.latched] ELSE smCache
    PROVE  PublishedInv'
<1>1. slot' = [slot EXCEPT ![s] = row] /\ presence' = PresenceOf(slot') /\ unusable' = UnusableOf(slot')
  BY Zenon DEF Publish
<1>2. slot \in [Slots -> Rows]
  BY Zenon DEF PublishedInv, RowsOK
<1>3. slot' \in [Slots -> Rows]
  BY <1>1, <1>2, Zenon
<1>4. \A t \in Slots : slot'[t] = (IF t = s THEN row ELSE slot[t])
  BY <1>1, <1>2, Zenon
<1>5. \A t \in Slots : RowOK(slot[t], everRegistered', everPresent')
  BY Zenon DEF PublishedInv, RowsOK, RowOK
<1>6. RowsOK'
  BY <1>3, <1>4, <1>5, Zenon DEF RowsOK
<1>7. \A t \in Slots : slot'[t].id = slot[t].id
  BY <1>4, Zenon
<1>8. Alone'
  BY <1>7, Zenon DEF PublishedInv, Alone
<1>9. Monitored'
  <2>1. CASE row.id = "SM"
    <3>1. \A t \in Slots : slot[t].id = "SM" => t = s
      BY <2>1, RpcAssumption, Zenon DEF PublishedInv, Alone
    <3> QED BY <1>4, <1>7, <2>1, <3>1, Zenon DEF Monitored
  <2>2. CASE row.id # "SM"
    <3>1. \A t \in Slots : slot'[t].id = "SM" => slot'[t] = slot[t]
      BY <1>4, <2>2, Zenon
    <3> QED BY <1>7, <2>2, <3>1, Zenon DEF PublishedInv, Monitored
  <2> QED BY <2>1, <2>2, Zenon
<1>10. Derived'
  BY <1>1, Zenon DEF Derived
<1> QED BY <1>6, <1>8, <1>9, <1>10, Zenon DEF PublishedInv

LEMMA TakeTyped ==
    ASSUME WireTyped, NEW p \in Peers, NEW kind, Take(p, kind)
    PROVE  /\ requests' \in [Peers -> Seq(Messages)] /\ Head(requests[p]) \in Messages
           /\ Head(requests[p]).n \in Nat /\ Head(requests[p]).kind = kind
<1>1. requests[p] \in Seq(Messages) /\ requests[p] # <<>>
  BY Zenon DEF WireTyped, Take
<1>2. Head(requests[p]) \in Messages /\ Tail(requests[p]) \in Seq(Messages)
  BY <1>1
<1>3. Head(requests[p]).n \in Nat
  BY <1>2, Zenon DEF Messages
<1>4. requests' \in [Peers -> Seq(Messages)]
  BY <1>2, Zenon DEF WireTyped, Take
<1> QED BY <1>2, <1>3, <1>4, Zenon DEF Take

LEMMA AnswerTyped ==
    ASSUME WireTyped, NEW p \in Peers, NEW r \in Answers, Answer(p, r)
    PROVE  responses' \in [Peers -> Seq(Answers)]
<1>1. Append(responses[p], r) \in Seq(Answers)
  BY DEF WireTyped
<1> QED BY <1>1, Zenon DEF WireTyped, Answer

LEMMA HeartbeatMasks ==
    ASSUME PublishedInv, NEW p \in Peers, Heartbeat(p)
    PROVE  /\ Publish([slot EXCEPT ![SlotOf(p)] = Beaten(slot[SlotOf(p)])])
           /\ told' = told \ PresenceOf(slot')
<1> DEFINE s == SlotOf(p)
           row == Beaten(slot[s])
           sl == [slot EXCEPT ![s] = row]
<1>1. s \in Slots /\ slot[s] \in Rows
  BY SlotFound, Zenon DEF Heartbeat, Take, PublishedInv, RowsOK
<1>2. /\ slot' = sl /\ unusable' = unusable /\ told' = told \ presence'
      /\ presence' = IF ~slot[s].latched /\ slot[s].id \in Tracked THEN PresenceOf(sl) ELSE presence
  BY Zenon DEF Heartbeat
<1>3. row.id = slot[s].id /\ row.raised = slot[s].raised /\ (slot[s].latched => row = slot[s])
  BY <1>1, BeatenRow, Zenon
<1> HIDE DEF s, row
<1>4. UnusableOf(sl) = unusable
  BY <1>1, <1>3, RowMasks, Zenon
<1>5. CASE ~slot[s].latched /\ slot[s].id \in Tracked
  BY <1>2, <1>4, <1>5, Zenon DEF Publish, s, row
<1>6. CASE ~(~slot[s].latched /\ slot[s].id \in Tracked)
  <2>1. row.id \in Tracked => row.beaten = slot[s].beaten /\ row.latched = slot[s].latched
    BY <1>3, <1>6, Zenon
  <2>2. PresenceOf(sl) = presence
    BY <1>1, <1>3, <2>1, RowMasks, Zenon
  <2>3. slot' = sl /\ presence' = PresenceOf(sl) /\ unusable' = UnusableOf(sl) /\ told' = told \ PresenceOf(slot')
    BY <1>2, <1>4, <1>6, <2>2, Zenon
  <2> QED BY <2>3, Zenon DEF Publish, s, row
<1> QED BY <1>5, <1>6, Zenon

LEMMA HeartbeatPublishes ==
    ASSUME PublishedInv, NEW p \in Peers, Heartbeat(p)
    PROVE  PublishedInv'
<1> DEFINE s == SlotOf(p)
           row == Beaten(slot[s])
<1>1. s \in Slots /\ slot[s].peer = p /\ slot[s] \in Rows
  BY SlotFound, Zenon DEF Heartbeat, Take, PublishedInv, RowsOK
<1>2. WireTyped'
  <2>1. WireTyped /\ Take(p, "heartbeat") /\ Answer(p, [n |-> Head(requests[p]).n, ok |-> TRUE])
    BY Zenon DEF Heartbeat, PublishedInv
  <2>2. [n |-> Head(requests[p]).n, ok |-> TRUE] \in Answers
    BY <2>1, TakeTyped, Zenon DEF Answers
  <2> QED BY <2>1, <2>2, TakeTyped, AnswerTyped, Zenon DEF WireTyped
<1>3. row \in Rows /\ row.id = slot[s].id /\ row.peer = slot[s].peer
  BY <1>1, BeatenRow, Zenon
<1>4. Publish([slot EXCEPT ![s] = row]) /\ UNCHANGED <<everRegistered, due, raisedNever>>
  BY HeartbeatMasks, Zenon DEF Heartbeat, never
<1>5. everPresent' = everPresent \cup (IF slot[s].latched THEN {} ELSE Loss(slot[s].id))
  BY Zenon DEF Heartbeat
<1>6. RowOK(slot[s], everRegistered, everPresent)
  BY <1>1, Zenon DEF PublishedInv, RowsOK
<1>7. MaskTyped'
  BY <1>4, <1>5, <1>6, Zenon DEF PublishedInv, MaskTyped, Loss, RowOK
<1>8. expected' = ExpectedOf(everPresent', due')
  BY <1>4, Zenon DEF Heartbeat, PublishedInv, Derived
<1>9. RowOK(row, everRegistered', everPresent')
  <2>1. row.peer # NoPeer
    BY <1>1, <1>3, NoPeerIsNone, Zenon
  <2>2. CASE slot[s].latched
    BY <1>4, <1>5, <1>6, <2>2, Zenon DEF Beaten, RowOK
  <2>3. CASE ~slot[s].latched
    <3>1. row.raised = slot[s].raised
      BY <1>1, BeatenRow, Zenon
    <3> QED BY <1>3, <1>4, <1>5, <1>6, <2>1, <2>3, <3>1, Zenon DEF RowOK, Loss
  <2> QED BY <2>2, <2>3, Zenon
<1>10. smCache' = IF row.id = "SM" THEN [slot |-> s, miss |-> row.miss, fault |-> row.latched] ELSE smCache
  <2>1. smCache' = IF slot[s].id = "SM" /\ ~slot[s].latched
                         THEN [slot |-> s, miss |-> 0, fault |-> smCache.fault] ELSE smCache
    BY Zenon DEF Heartbeat
  <2>2. CASE slot[s].id # "SM"
    BY <1>3, <2>1, <2>2, Zenon
  <2>3. CASE slot[s].id = "SM"
    <3>1. smCache = [slot |-> s, miss |-> slot[s].miss, fault |-> slot[s].latched]
      BY <1>1, <2>3, Zenon DEF PublishedInv, Monitored
    <3>2. CASE slot[s].latched
      BY <1>3, <2>1, <2>3, <3>1, <3>2, Zenon DEF Beaten
    <3>3. CASE ~slot[s].latched
      <4>1. row.miss = 0 /\ row.latched = slot[s].latched
        BY <1>1, <3>3, BeatenRow, Zenon
      <4>2. smCache.fault = slot[s].latched
        BY <3>1, Zenon
      <4> QED BY <1>3, <2>1, <2>3, <3>3, <4>1, <4>2, Zenon
    <3> QED BY <3>2, <3>3, Zenon
  <2> QED BY <2>2, <2>3, Zenon
<1>11. everRegistered \subseteq everRegistered' /\ everPresent \subseteq everPresent'
  BY <1>4, <1>5, Zenon
<1> HIDE DEF s, row
<1> QED BY <1>1, <1>2, <1>3, <1>4, <1>7, <1>8, <1>9, <1>10, <1>11, RowChanged, Zenon

(* A report of a registered client changes the row; the report of another   *)
(* ends the connection.                                                     *)
LEMMA ReportNamed ==
    ASSUME PublishedInv, NEW p \in Peers, Report(p)
    PROVE  LET s == SlotOf(p)
               r == Head(requests[p]).report
           IN  \E ok \in BOOLEAN :
                 /\ Answer(p, [n |-> Head(requests[p]).n, ok |-> ok])
                 /\ \/ slot[s].id = None /\ Publish([slot EXCEPT ![s] = NoClient])
                    \/ /\ slot[s].id # None
                       /\ Publish([slot EXCEPT ![s] = IF ok THEN NoteReportAccepted(slot[s], r)
                                                      ELSE NoteReportRejected(slot[s])])
<1> DEFINE s == SlotOf(p)
           c == slot[s]
           r == Head(requests[p]).report
<1>1. s \in Slots /\ c \in Rows /\ WireTyped /\ Take(p, "report")
  BY SlotFound, Zenon DEF Report, Take, PublishedInv, RowsOK
<1>2. PICK recent \in Recent(c) :
        LET ok == Status(c, r, recent) = "ACCEPTED"
            after == IF c.id = None THEN NoClient
                     ELSE IF ok THEN NoteReportAccepted(c, r) ELSE NoteReportRejected(c)
        IN  /\ slot' = [slot EXCEPT ![s] = after]
            /\ presence' = IF c.id = None THEN PresenceOf(slot') ELSE presence
            /\ unusable' = IF c.id = None \/ ok \/ (after.raised /\ ~c.raised) THEN UnusableOf(slot') ELSE unusable
            /\ Answer(p, [n |-> Head(requests[p]).n, ok |-> ok])
  BY Zenon DEF Report
<1> DEFINE ok == Status(c, r, recent) = "ACCEPTED"
           row == IF ok THEN NoteReportAccepted(c, r) ELSE NoteReportRejected(c)
<1>3. ok \in BOOLEAN /\ Answer(p, [n |-> Head(requests[p]).n, ok |-> ok])
  BY <1>2, Zenon
<1>4. CASE c.id = None
  <2>1. Publish([slot EXCEPT ![s] = NoClient])
    BY <1>2, <1>4, Zenon DEF Publish
  <2> HIDE DEF ok
  <2> QED BY <1>3, <1>4, <2>1, Zenon
<1>5. CASE c.id # None
  <2>1. /\ slot' = [slot EXCEPT ![s] = row] /\ presence' = presence
        /\ unusable' = IF ok \/ (row.raised /\ ~c.raised) THEN UnusableOf(slot') ELSE unusable
    BY <1>2, <1>5, Zenon
  <2>2. row.id = c.id /\ row.beaten = c.beaten /\ row.latched = c.latched
    <3>1. CASE ok
      <4> HIDE DEF r
      <4> QED BY <1>1, <3>1, Zenon DEF NoteReportAccepted, Rows
    <3>2. CASE ~ok
      BY <1>1, <3>2, RejectedRow, Zenon
    <3> QED BY <3>1, <3>2, Zenon
  <2>3. ~ok /\ ~(row.raised /\ ~c.raised) => row.raised = c.raised
    <3> SUFFICES ASSUME ~ok, ~(row.raised /\ ~c.raised) PROVE row.raised = c.raised
      BY Zenon
    <3>1. row = NoteReportRejected(c) /\ row.raised \in BOOLEAN /\ c.raised \in BOOLEAN
      BY <1>1, RejectedRow, Zenon DEF Rows
    <3>2. c.raised => row.raised
      BY <1>1, <3>1, Zenon DEF NoteReportRejected, Rows
    <3> HIDE DEF row
    <3> QED BY <3>1, <3>2, Zenon
  <2> HIDE DEF s, row, ok
  <2>4. PresenceOf([slot EXCEPT ![s] = row]) = presence
    BY <1>1, <2>2, RowMasks, Zenon
  <2>5. row.raised = c.raised => UnusableOf([slot EXCEPT ![s] = row]) = unusable
    BY <1>1, <2>2, RowMasks, Zenon
  <2>6. Publish([slot EXCEPT ![s] = row])
    BY <2>1, <2>3, <2>4, <2>5, Zenon DEF Publish
  <2>7. Publish([slot EXCEPT ![s] = IF ok THEN NoteReportAccepted(c, r) ELSE NoteReportRejected(c)])
    BY <2>6, Zenon DEF row
  <2> QED BY <1>3, <1>5, <2>7, Zenon DEF s
<1> QED BY <1>4, <1>5, Zenon

LEMMA ReportPublishes ==
    ASSUME PublishedInv, NEW p \in Peers, Report(p)
    PROVE  PublishedInv'
<1> DEFINE s == SlotOf(p)
           r == Head(requests[p]).report
<1>1. s \in Slots /\ slot[s].peer = p /\ slot[s] \in Rows
  BY SlotFound, Zenon DEF Report, Take, PublishedInv, RowsOK
<1>2. PICK ok \in BOOLEAN :
        /\ Answer(p, [n |-> Head(requests[p]).n, ok |-> ok])
        /\ \/ slot[s].id = None /\ Publish([slot EXCEPT ![s] = NoClient])
           \/ /\ slot[s].id # None
              /\ Publish([slot EXCEPT ![s] = IF ok THEN NoteReportAccepted(slot[s], r)
                                             ELSE NoteReportRejected(slot[s])])
  BY ReportNamed, Zenon
<1> DEFINE row == IF ok THEN NoteReportAccepted(slot[s], r) ELSE NoteReportRejected(slot[s])
<1>4. WireTyped /\ Take(p, "report") /\ UNCHANGED <<smCache, expected, everRegistered, everPresent, due, raisedNever>>
  BY Zenon DEF Report, PublishedInv, never
<1>5. r \in Reports
  BY <1>4, TakeTyped, Zenon DEF Messages
<1>6. WireTyped'
  <2>1. [n |-> Head(requests[p]).n, ok |-> ok] \in Answers
    BY <1>2, <1>4, TakeTyped, Zenon DEF Answers
  <2> QED BY <1>2, <1>4, <2>1, TakeTyped, AnswerTyped, Zenon DEF WireTyped
<1>7. /\ row \in Rows /\ row.id = slot[s].id /\ row.peer = slot[s].peer /\ row.beaten = slot[s].beaten
      /\ row.miss = slot[s].miss /\ row.latched = slot[s].latched
  <2>1. CASE ok
    <3>1. r.pipeline \in Pipes
      BY <1>5, Zenon DEF Pipes
    <3> HIDE DEF r
    <3> QED BY <1>1, <2>1, <3>1, Zenon DEF NoteReportAccepted, Rows
  <2>2. CASE ~ok
    BY <1>1, <2>2, RejectedRow, Zenon
  <2> QED BY <2>1, <2>2, Zenon
<1>8. MaskTyped' /\ expected' = ExpectedOf(everPresent', due')
  BY <1>4, Zenon DEF PublishedInv, MaskTyped, Derived
<1>3. CASE slot[s].id = None /\ Publish([slot EXCEPT ![s] = NoClient])
  <2>1. [slot EXCEPT ![s] = NoClient] = [t \in Slots |-> IF t \in {s} THEN NoClient ELSE slot[t]]
    BY Zenon DEF PublishedInv, RowsOK
  <2>2. smCache' = IF smCache.slot \in {s} /\ slot[smCache.slot].id = "SM" THEN NoMonitor ELSE smCache
    BY <1>3, <1>4, NoneIsNone, Zenon
  <2>3. {s} \in SUBSET Slots /\ Publish([t \in Slots |-> IF t \in {s} THEN NoClient ELSE slot[t]])
    BY <1>1, <1>3, <2>1, Zenon
  <2> HIDE DEF s
  <2> QED BY <1>4, <1>6, <2>2, <2>3, Dropped, Zenon
<1>11. CASE slot[s].id # None /\ Publish([slot EXCEPT ![s] = row])
  <2> HIDE DEF row
  <2>9. RowOK(row, everRegistered', everPresent')
    <3>1. RowOK(slot[s], everRegistered, everPresent) /\ row.peer # NoPeer
      BY <1>1, <1>7, NoPeerIsNone, Zenon DEF PublishedInv, RowsOK
    <3> QED BY <1>4, <1>7, <1>11, <3>1, Zenon DEF RowOK
  <2>10. smCache' = IF row.id = "SM" THEN [slot |-> s, miss |-> row.miss, fault |-> row.latched] ELSE smCache
    BY <1>1, <1>4, <1>7, Zenon DEF PublishedInv, Monitored
  <2> HIDE DEF s, r
  <2> QED BY <1>1, <1>11, <1>4, <1>6, <1>7, <1>8, <2>9, <2>10, RowChanged, Zenon
<1> QED BY <1>2, <1>3, <1>11, Zenon

LEMMA AdmitPublishes ==
    ASSUME PublishedInv, NEW p \in Peers, Admit(p)
    PROVE  PublishedInv'
<1>1. /\ WireTyped /\ MaskTyped /\ UNCHANGED <<expected, everRegistered, everPresent, due, raisedNever>>
      /\ UNCHANGED <<requests, responses>>
  BY Zenon DEF Admit, PublishedInv, never
<1>2. WireTyped' /\ MaskTyped' /\ expected' = ExpectedOf(everPresent', due')
  BY <1>1, Zenon DEF WireTyped, MaskTyped, PublishedInv, Derived
<1>3. CASE UNCHANGED <<slot, gen, smCache, presence, unusable>>
  BY <1>1, <1>2, <1>3, Zenon DEF PublishedInv, RowsOK, Alone, Monitored, Derived
<1>4. ASSUME NEW s \in Slots \ Used,
             Publish([slot EXCEPT ![s] = [NoClient EXCEPT !.peer = p]]), smCache' = ClearCache(s)
      PROVE  PublishedInv'
  <2>1. s \in Slots \ Used
    BY <1>4, Zenon
  <2>2. slot[s] = NoClient
    BY <2>1, Zenon DEF Used, PublishedInv, RowsOK, RowOK
  <2> DEFINE row == [NoClient EXCEPT !.peer = p]
  <2>3. row \in Rows /\ row.id = None /\ row.id = slot[s].id /\ row.peer = p
    BY <2>2, NoClientRow, Zenon DEF Rows, NoClient
  <2>4. RowOK(row, everRegistered', everPresent')
    <3>1. ~row.raised
      BY Zenon DEF NoClient
    <3> HIDE DEF row
    <3> QED BY <2>3, <3>1, NoPeerIsNone, NoneIsNone, Zenon DEF RowOK
  <2>5. smCache' = smCache /\ row.id # "SM"
    BY <1>4, <2>3, NoneIsNone, Zenon DEF ClearCache
  <2> HIDE DEF row
  <2> QED BY <1>1, <1>2, <1>4, <2>1, <2>3, <2>4, <2>5, RowChanged, Zenon DEF row
<1> QED BY <1>3, <1>4, Zenon DEF Admit, Clear, Publish

LEMMA DropPublishes ==
    ASSUME PublishedInv, NEW p \in Peers, PeerGone(p) \/ Terminate(p)
    PROVE  PublishedInv'
<1>1. HasSlot(p) /\ DropClient(SlotOf(p)) /\ UNCHANGED <<expected, everRegistered, everPresent, due, raisedNever>>
  BY Zenon DEF PeerGone, Terminate, Take, never
<1>2. SlotOf(p) \in Slots
  BY <1>1, SlotFound, Zenon
<1>3. WireTyped'
  <2>1. CASE PeerGone(p)
    <3>1. <<>> \in Seq(Messages)
      OBVIOUS
    <3> QED BY <2>1, <3>1, Zenon DEF PeerGone, PublishedInv, WireTyped
  <2>2. CASE Terminate(p)
    <3>1. WireTyped /\ Take(p, "terminate") /\ Answer(p, [n |-> Head(requests[p]).n, ok |-> TRUE])
      BY <2>2, Zenon DEF Terminate, PublishedInv
    <3>2. [n |-> Head(requests[p]).n, ok |-> TRUE] \in Answers
      BY <3>1, TakeTyped, Zenon DEF Answers
    <3> QED BY <3>1, <3>2, TakeTyped, AnswerTyped, Zenon DEF WireTyped
  <2> QED BY <2>1, <2>2, Zenon
<1> QED BY <1>1, <1>2, <1>3, DropKeeps, Zenon

(* Steps that leave what is published.                                      *)
LEMMA ServerStands ==
    ASSUME PublishedInv, WireTyped',
           UNCHANGED <<slot, smCache, masks, unusable, due, raisedNever>>
    PROVE  PublishedInv'
  BY Zenon DEF PublishedInv, MaskTyped, RowsOK, Alone, Monitored, Derived, masks

LEMMA PendingPublishes ==
    ASSUME PublishedInv, ProcessPendingDisconnects
    PROVE  PublishedInv'
<1> DEFINE gone == {s \in Used : <<s, gen[s]>> \in pending}
<1>1. gone \in SUBSET Slots
  BY Zenon DEF Used
<1>2. /\ \/ gone = {} /\ UNCHANGED <<slot, presence, unusable>>
         \/ Clear([s \in Slots |-> IF s \in gone THEN NoClient ELSE slot[s]])
      /\ smCache' = IF smCache.slot \in gone /\ slot[smCache.slot].id = "SM" THEN NoMonitor ELSE smCache
      /\ UNCHANGED <<expected, everRegistered, everPresent, due, raisedNever, requests, responses>>
  BY Zenon DEF ProcessPendingDisconnects
<1>3. WireTyped'
  BY <1>2, Zenon DEF PublishedInv, WireTyped
<1> HIDE DEF gone
<1>4. CASE gone = {} /\ UNCHANGED <<slot, presence, unusable>>
  BY <1>2, <1>3, <1>4, ServerStands, Zenon DEF masks
<1>5. CASE Clear([s \in Slots |-> IF s \in gone THEN NoClient ELSE slot[s]])
  BY <1>1, <1>2, <1>3, <1>5, Dropped, Zenon DEF Clear, Publish
<1> QED BY <1>2, <1>4, <1>5, Zenon

LEMMA RequiredPublishes ==
    ASSUME PublishedInv, TickRequired
    PROVE  PublishedInv'
<1>1. UNCHANGED <<slot, smCache, presence, unusable, everRegistered, everPresent, requests, responses>>
  BY Zenon DEF TickRequired, inputs, wire
<1>2. PICK over \in BOOLEAN :
         /\ due' = (due \/ over)
         /\ expected' = IF over THEN ExpectedOf(everPresent, TRUE) ELSE expected
         /\ raisedNever' = raisedNever \cup (IF over THEN (Required \ everRegistered) \ raisedNever ELSE {})
  BY Zenon DEF TickRequired
<1>3. MaskTyped'
  BY <1>1, <1>2, Zenon DEF PublishedInv, MaskTyped
<1>4. Derived'
  BY <1>1, <1>2, Zenon DEF PublishedInv, Derived, ExpectedOf
<1> QED BY <1>1, <1>3, <1>4, Zenon DEF PublishedInv, WireTyped, RowsOK, Alone, Monitored

(* What the heartbeat thread does to a row.                                 *)
LEMMA MissedRow ==
    ASSUME NEW c \in Rows
    PROVE  /\ Missed(c) \in Rows /\ Missed(c).id = c.id /\ Missed(c).peer = c.peer
           /\ Missed(c).beaten = c.beaten /\ Missed(c).quiet = c.quiet /\ Missed(c).raised = c.raised
           /\ c.id # None => Missed(c).miss = c.miss + 1 /\ Missed(c).latched = (c.miss + 1 >= MaxHbFailures)
           /\ c.id = None => Missed(c).miss = c.miss /\ Missed(c).latched
<1>1. c.miss + 1 \in Nat /\ (c.miss + 1 >= MaxHbFailures) \in BOOLEAN
  BY RpcAssumption DEF Rows
<1>2. CASE c.id = None
  BY <1>2, Zenon DEF Missed, Rows
<1>3. CASE c.id # None
  <2>1. Missed(c) = [c EXCEPT !.miss = @ + 1, !.latched = c.miss + 1 >= MaxHbFailures]
    BY <1>3, Zenon DEF Missed
  <2>2. Missed(c) \in Rows /\ Missed(c).id = c.id /\ Missed(c).peer = c.peer /\ Missed(c).beaten = c.beaten
        /\ Missed(c).quiet = c.quiet /\ Missed(c).raised = c.raised
    BY <1>1, <2>1, Zenon DEF Rows
  <2>3. Missed(c).miss = c.miss + 1 /\ Missed(c).latched = (c.miss + 1 >= MaxHbFailures)
    BY <2>1, Zenon DEF Rows
  <2> QED BY <1>3, <2>2, <2>3, Zenon
<1> QED BY <1>2, <1>3, Zenon

LEMMA QuieterRow ==
    ASSUME NEW c \in Rows
    PROVE  /\ Quieter(c) \in Rows /\ Quieter(c).id = c.id /\ Quieter(c).peer = c.peer
           /\ Quieter(c).beaten = c.beaten /\ Quieter(c).miss = c.miss /\ Quieter(c).latched = c.latched
           /\ Quieter(c).raised = c.raised
           /\ c.peer = NoPeer => Quieter(c) = c
<1>1. CASE c.peer = NoPeer \/ c.quiet = 2
  BY <1>1, Zenon DEF Quieter
<1>2. CASE ~(c.peer = NoPeer \/ c.quiet = 2)
  <2>1. Quieter(c) = [c EXCEPT !.quiet = @ + 1]
    BY <1>2, Zenon DEF Quieter
  <2>2. c.quiet + 1 \in 0..2
    BY <1>2 DEF Rows
  <2> QED BY <1>2, <2>1, <2>2, Zenon DEF Rows
<1> QED BY <1>1, <1>2, Zenon

(* A row that keeps its names keeps what is said of it.                     *)
LEMMA RowKept ==
    ASSUME NEW c, NEW d, NEW registered, NEW present, RowOK(c, registered, present),
           d.id = c.id, d.peer = c.peer, d.beaten => c.beaten, d.raised => c.raised, c.peer = NoPeer => d = c
    PROVE  RowOK(d, registered, present)
  BY Zenon DEF RowOK

(* All that the third lock section needs of the first: the stale slots.     *)
Scanned(stale) ==
    /\ stale \in SUBSET {s \in Slots : MayBeStale(s)} /\ {s \in Slots : MustBeStale(s)} \subseteq stale
    /\ slot' = [s \in Slots |-> Quieter(IF s \in stale THEN Missed(slot[s]) ELSE slot[s])]
    /\ unusable' = unusable
    /\ presence' = IF \E s \in stale : slot'[s].latched /\ slot[s].id \in Tracked THEN PresenceOf(slot') ELSE presence
    /\ doomed' = {s \in stale : slot'[s].latched}
    /\ \/ {s \in stale : slot[s].id = "SM"} = {} /\ smCache' = smCache
       \/ \E s \in stale : slot[s].id = "SM" /\ smCache' = [slot |-> s, miss |-> slot'[s].miss, fault |-> slot'[s].latched]

LEMMA ScanNamed == TickScan => \E stale : Scanned(stale)
<1> SUFFICES ASSUME TickScan PROVE \E stale : Scanned(stale)
  BY Zenon
<1>1. PICK stale \in SUBSET {s \in Slots : MayBeStale(s)} :
         /\ {s \in Slots : MustBeStale(s)} \subseteq stale
         /\ LET after == [s \in Slots |-> Quieter(IF s \in stale THEN Missed(slot[s]) ELSE slot[s])]
                monitors == {s \in stale : slot[s].id = "SM"}
            IN  /\ slot' = after /\ unusable' = unusable
                /\ presence' = IF \E s \in stale : after[s].latched /\ slot[s].id \in Tracked
                               THEN PresenceOf(after) ELSE presence
                /\ doomed' = {s \in stale : after[s].latched}
                /\ smCache' = IF monitors = {} THEN smCache
                              ELSE LET s == CHOOSE x \in monitors : TRUE
                                   IN  [slot |-> s, miss |-> after[s].miss, fault |-> after[s].latched]
  BY Zenon DEF TickScan
<1> DEFINE after == [s \in Slots |-> Quieter(IF s \in stale THEN Missed(slot[s]) ELSE slot[s])]
           monitors == {s \in stale : slot[s].id = "SM"}
<1>2. /\ slot' = after /\ unusable' = unusable
      /\ presence' = IF \E s \in stale : slot'[s].latched /\ slot[s].id \in Tracked THEN PresenceOf(slot') ELSE presence
  BY <1>1, Zenon
<1>3. doomed' = {s \in stale : slot'[s].latched}
  BY <1>1, <1>2, Zenon
<1>4. \/ monitors = {} /\ smCache' = smCache
      \/ \E s \in monitors : smCache' = [slot |-> s, miss |-> slot'[s].miss, fault |-> slot'[s].latched]
  <2>1. CASE monitors = {}
    BY <1>1, <2>1, Zenon
  <2>2. CASE monitors # {}
    <3> DEFINE m == CHOOSE x \in monitors : TRUE
    <3>1. m \in monitors
      BY <2>2, Zenon
    <3>2. smCache' = [slot |-> m, miss |-> after[m].miss, fault |-> after[m].latched]
      BY <1>1, <2>2, Zenon
    <3> HIDE DEF m, after, monitors
    <3> QED BY <1>2, <3>1, <3>2, Zenon
  <2> QED BY <2>1, <2>2, Zenon
<1>5. \/ {s \in stale : slot[s].id = "SM"} = {} /\ smCache' = smCache
      \/ \E s \in stale : slot[s].id = "SM" /\ smCache' = [slot |-> s, miss |-> slot'[s].miss, fault |-> slot'[s].latched]
  BY <1>4, Zenon
<1> HIDE DEF monitors
<1> QED BY <1>1, <1>2, <1>3, <1>5, Zenon DEF Scanned

LEMMA ScannedRows ==
    ASSUME PublishedInv, NEW stale, Scanned(stale), NEW s \in Slots
    PROVE  /\ slot[s] \in Rows /\ slot'[s] \in Rows /\ slot'[s].id = slot[s].id /\ slot'[s].peer = slot[s].peer
           /\ slot'[s].beaten = slot[s].beaten /\ slot'[s].raised = slot[s].raised
           /\ slot[s].peer = NoPeer => slot'[s] = slot[s]
           /\ s \notin stale => slot'[s] = Quieter(slot[s]) /\ slot'[s].miss = slot[s].miss /\ slot'[s].latched = slot[s].latched
           /\ s \in stale => slot'[s] = Quieter(Missed(slot[s])) /\ slot[s].peer # NoPeer /\ ~slot[s].latched
<1>1. slot[s] \in Rows /\ slot'[s] = Quieter(IF s \in stale THEN Missed(slot[s]) ELSE slot[s])
  BY Zenon DEF Scanned, PublishedInv, RowsOK
<1>2. s \in stale => slot[s].peer # NoPeer /\ ~slot[s].latched
  BY Zenon DEF Scanned, MayBeStale
<1>3. CASE s \in stale
  BY <1>1, <1>2, <1>3, MissedRow, QuieterRow
<1>4. CASE s \notin stale
  BY <1>1, <1>2, <1>4, QuieterRow
<1> QED BY <1>3, <1>4, Zenon

LEMMA ScanPublishes ==
    ASSUME PublishedInv, TickScan
    PROVE  PublishedInv'
<1>1. PICK stale : Scanned(stale)
  BY ScanNamed, Zenon
<1>2. UNCHANGED <<expected, everRegistered, everPresent, due, raisedNever, requests, responses>>
  BY Zenon DEF TickScan, never, wire
<1>3. WireTyped' /\ MaskTyped' /\ Derived'
  <2>1. \A s \in Slots : /\ slot'[s].id = slot[s].id /\ slot'[s].beaten = slot[s].beaten
                         /\ slot'[s].raised = slot[s].raised
                         /\ s \notin stale => slot'[s].latched = slot[s].latched
                         /\ s \in stale => ~slot[s].latched
    BY <1>1, ScannedRows, Zenon
  <2>2. UnusableOf(slot') = UnusableOf(slot)
    BY <2>1, UnusableSame, Zenon
  <2>3. presence' = PresenceOf(slot')
    <3>1. CASE \E s \in stale : slot'[s].latched /\ slot[s].id \in Tracked
      BY <1>1, <3>1, Zenon DEF Scanned
    <3>2. CASE ~\E s \in stale : slot'[s].latched /\ slot[s].id \in Tracked
      <4>1. \A s \in Slots : slot'[s].id \in Tracked =>
               ((slot'[s].beaten /\ ~slot'[s].latched) <=> (slot[s].beaten /\ ~slot[s].latched))
        BY <2>1, <3>2, Zenon
      <4>2. PresenceOf(slot') = PresenceOf(slot)
        BY <2>1, <4>1, PresenceSame, Zenon
      <4> QED BY <1>1, <3>2, <4>2, Zenon DEF Scanned, PublishedInv, Derived
    <3> QED BY <3>1, <3>2, Zenon
  <2>4. unusable' = UnusableOf(slot')
    BY <1>1, <2>2, Zenon DEF Scanned, PublishedInv, Derived
  <2> QED BY <1>2, <2>3, <2>4, Zenon DEF PublishedInv, WireTyped, MaskTyped, Derived
<1>4. \A s \in Slots : slot'[s] \in Rows /\ slot'[s].id = slot[s].id
  BY <1>1, ScannedRows, Zenon
<1>5. slot' \in [Slots -> Rows]
  BY <1>1, <1>4, Zenon DEF Scanned
<1>6. ASSUME NEW s \in Slots PROVE RowOK(slot'[s], everRegistered', everPresent')
  <2>1. RowOK(slot[s], everRegistered, everPresent)
    BY Zenon DEF PublishedInv, RowsOK
  <2>2. slot'[s].id = slot[s].id /\ slot'[s].peer = slot[s].peer /\ slot'[s].beaten = slot[s].beaten
        /\ slot'[s].raised = slot[s].raised /\ (slot[s].peer = NoPeer => slot'[s] = slot[s])
    BY <1>1, ScannedRows, Zenon
  <2> QED BY <1>2, <2>1, <2>2, RowKept, Zenon
<1>7. RowsOK' /\ Alone'
  BY <1>4, <1>5, <1>6, Zenon DEF RowsOK, Alone, PublishedInv
<1>8. Monitored'
  <2>1. CASE {s \in stale : slot[s].id = "SM"} = {} /\ smCache' = smCache
    <3>1. \A s \in Slots : slot[s].id = "SM" => slot'[s].miss = slot[s].miss /\ slot'[s].latched = slot[s].latched
      BY <1>1, <2>1, ScannedRows, Zenon
    <3> QED BY <1>4, <2>1, <3>1, Zenon DEF PublishedInv, Monitored
  <2>2. ASSUME NEW s \in stale, slot[s].id = "SM", smCache' = [slot |-> s, miss |-> slot'[s].miss, fault |-> slot'[s].latched]
        PROVE  Monitored'
    <3>1. s \in Slots
      BY <1>1, Zenon DEF Scanned
    <3>2. \A t \in Slots : slot[t].id = "SM" => t = s
      BY <2>2, <3>1, RpcAssumption, Zenon DEF PublishedInv, Alone
    <3> QED BY <1>4, <2>2, <3>1, <3>2, Zenon DEF Monitored
  <2> QED BY <1>1, <2>1, <2>2, Zenon DEF Scanned
<1> QED BY <1>3, <1>7, <1>8, Zenon DEF PublishedInv

(* What an accepted registration does to the slots.                         *)
Enrolled(s, id, evicted) ==
    /\ evicted = Rivals(s, id)
    /\ slot' = [t \in Slots |-> IF t = s THEN [slot[s] EXCEPT !.id = id, !.quiet = 0, !.miss = 0, !.latched = FALSE, !.beaten = FALSE]
                                ELSE IF t \in evicted THEN NoClient ELSE slot[t]]
    /\ presence' = PresenceOf(slot')
    /\ unusable' = IF evicted = {} THEN unusable
                   ELSE UnusableOf([t \in Slots |-> IF t \in evicted THEN NoClient ELSE slot[t]])
    /\ smCache' = IF id = "SM" THEN [slot |-> s, miss |-> 0, fault |-> FALSE] ELSE smCache
    /\ told' = told \cup UNION {Loss(id) : t \in evicted}
    /\ everRegistered' = everRegistered \cup Loss(id)

LEMMA RegisterNamed ==
    ASSUME PublishedInv, NEW p \in Peers, Register(p)
    PROVE  /\ SlotOf(p) \in Slots /\ slot[SlotOf(p)].peer = p
           /\ \/ Enrolled(SlotOf(p), IdentityOf[p[1]], Rivals(SlotOf(p), IdentityOf[p[1]]))
              \/ DropClient(SlotOf(p)) /\ UNCHANGED everRegistered
           /\ WireTyped'
           /\ UNCHANGED <<gen, expected, everPresent, confirmed, never, pending, tick, spc, lag, arriving, open>>
<1> DEFINE s == SlotOf(p)
           id == IdentityOf[p[1]]
           ok == AcceptRegistration(s, id)
           evicted == IF ok THEN {t \in Rivals(s, id) : slot[t].latched} ELSE {}
<1>1. s \in Slots /\ slot[s].peer = p
  BY SlotFound, Zenon DEF Register, Take
<1>2. ok => evicted = Rivals(s, id)
  BY Zenon DEF AcceptRegistration, Rivals
<1>3. ok => Enrolled(s, id, evicted)
  <2> SUFFICES ASSUME ok PROVE Enrolled(s, id, evicted)
    BY Zenon
  <2> DEFINE cleared == [t \in Slots |-> IF t \in evicted THEN NoClient ELSE slot[t]]
             row == [slot[s] EXCEPT !.id = id, !.quiet = 0, !.miss = 0, !.latched = FALSE, !.beaten = FALSE]
  <2>1. /\ slot' = [cleared EXCEPT ![s] = row] /\ presence' = PresenceOf(slot')
        /\ unusable' = IF evicted = {} THEN unusable ELSE UnusableOf(cleared)
        /\ smCache' = IF id = "SM" THEN [slot |-> s, miss |-> 0, fault |-> FALSE] ELSE smCache
        /\ told' = told \cup UNION {Loss(id) : t \in evicted}
        /\ everRegistered' = everRegistered \cup Loss(id)
    BY Zenon DEF Register
  <2> HIDE DEF evicted, ok, s, id, row
  <2>2. [cleared EXCEPT ![s] = row] = [t \in Slots |-> IF t = s THEN row ELSE IF t \in evicted THEN NoClient ELSE slot[t]]
    BY Zenon
  <2> QED BY <1>2, <2>1, <2>2, Zenon DEF Enrolled, row
<1>4. ~ok => DropClient(s) /\ UNCHANGED everRegistered
  BY Zenon DEF Register
<1>5. WireTyped /\ Take(p, "register") /\ Answer(p, [n |-> Head(requests[p]).n, ok |-> ok])
  BY Zenon DEF Register, PublishedInv
<1>6. [n |-> Head(requests[p]).n, ok |-> ok] \in Answers
  <2>1. ok \in BOOLEAN
    BY Zenon DEF AcceptRegistration
  <2> HIDE DEF ok
  <2> QED BY <1>5, <2>1, TakeTyped, Zenon DEF Answers
<1>7. WireTyped'
  <2> HIDE DEF ok
  <2> QED BY <1>5, <1>6, TakeTyped, AnswerTyped, Zenon DEF WireTyped
<1>8. UNCHANGED <<gen, expected, everPresent, confirmed, never, pending, tick, spc, lag, arriving, open>>
  BY Zenon DEF Register
<1> HIDE DEF evicted, ok
<1> QED BY <1>1, <1>2, <1>3, <1>4, <1>7, <1>8, Zenon

LEMMA EnrolledRows ==
    ASSUME PublishedInv, NEW s \in Slots, NEW id \in Identities, NEW evicted, Enrolled(s, id, evicted)
    PROVE  /\ slot'[s] \in Rows /\ slot'[s].id = id /\ slot'[s].peer = slot[s].peer /\ ~slot'[s].beaten
           /\ slot'[s].miss = 0 /\ slot'[s].quiet = 0 /\ ~slot'[s].latched /\ slot'[s].raised = slot[s].raised
           /\ evicted \subseteq Slots \ {s}
           /\ \A t \in evicted : slot'[t] = NoClient /\ slot[t].id = id
           /\ \A t \in Slots \ {s} : t \notin evicted => slot'[t] = slot[t] /\ (id \in Singletons => slot[t].id # id)
<1>1. slot'[s] = [slot[s] EXCEPT !.id = id, !.quiet = 0, !.miss = 0, !.latched = FALSE, !.beaten = FALSE] /\ slot[s] \in Rows
  BY Zenon DEF Enrolled, PublishedInv, RowsOK
<1>2. slot'[s] \in Rows /\ slot'[s].id = id /\ slot'[s].peer = slot[s].peer
  <2>1. 0 \in 0..2 /\ 0 \in Nat /\ FALSE \in BOOLEAN
    OBVIOUS
  <2> QED BY <1>1, <2>1, ZenonT(40) DEF Rows
<1>3. ~slot'[s].beaten /\ slot'[s].miss = 0 /\ slot'[s].quiet = 0 /\ ~slot'[s].latched /\ slot'[s].raised = slot[s].raised
  BY <1>1, Zenon DEF Rows
<1>4. evicted = {t \in Used \ {s} : id \in Singletons /\ slot[t].id = id}
  BY Zenon DEF Enrolled, Rivals
<1>5. evicted \subseteq Slots \ {s} /\ \A t \in evicted : slot[t].id = id
  BY <1>4, Zenon DEF Used
<1>6. \A t \in Slots \ {s} : slot'[t] = IF t \in evicted THEN NoClient ELSE slot[t]
  BY Zenon DEF Enrolled
<1>7. ASSUME NEW t \in Slots \ {s}, t \notin evicted, id \in Singletons PROVE slot[t].id # id
  <2>1. slot[t].id = id => slot[t].id # None
    BY NoneIsNone, Zenon
  <2>2. RowOK(slot[t], everRegistered, everPresent)
    BY Zenon DEF PublishedInv, RowsOK
  <2>3. slot[t].id # None => slot[t].peer # NoPeer
    BY <2>2 DEF RowOK, NoClient
  <2> QED BY <1>4, <1>7, <2>1, <2>3, Zenon DEF Used
<1> QED BY <1>2, <1>3, <1>5, <1>6, <1>7, Zenon

LEMMA RegisterPublishes ==
    ASSUME PublishedInv, NEW p \in Peers, Register(p)
    PROVE  PublishedInv'
<1> DEFINE s == SlotOf(p)
           id == IdentityOf[p[1]]
           evicted == Rivals(s, id)
<1>1. s \in Slots /\ slot[s].peer = p /\ WireTyped' /\ UNCHANGED <<expected, everPresent, due, raisedNever>>
  BY RegisterNamed, Zenon DEF never
<1>2. CASE DropClient(s) /\ UNCHANGED everRegistered
  BY <1>1, <1>2, DropKeeps, Zenon
<1>3. CASE Enrolled(s, id, evicted)
  <2>1. id \in Identities
    BY Zenon DEF Peers, Identities
  <2>2. RowOK(slot[s], everRegistered, everPresent) /\ slot[s].id \in {None, id}
    BY <1>1, Zenon DEF PublishedInv, RowsOK, RowOK
  <2> HIDE DEF s, id, evicted
  <2>3. /\ slot'[s] \in Rows /\ slot'[s].id = id /\ slot'[s].peer = slot[s].peer /\ ~slot'[s].beaten
        /\ slot'[s].miss = 0 /\ ~slot'[s].latched /\ slot'[s].raised = slot[s].raised /\ evicted \subseteq Slots \ {s}
    BY <1>1, <1>3, <2>1, EnrolledRows, Zenon
  <2>4. \A t \in evicted : slot'[t] = NoClient /\ slot[t].id = id
    BY <1>1, <1>3, <2>1, EnrolledRows
  <2>5. \A t \in Slots \ {s} : t \notin evicted => slot'[t] = slot[t] /\ (id \in Singletons => slot[t].id # id)
    BY <1>1, <1>3, <2>1, EnrolledRows
  <2>6. MaskTyped' /\ Derived'
    <3> DEFINE cleared == [t \in Slots |-> IF t \in evicted THEN NoClient ELSE slot[t]]
    <3>1. unusable' = UnusableOf(cleared)
      <4>1. CASE evicted = {}
        <5>1. cleared = slot
          BY <4>1, Zenon DEF PublishedInv, RowsOK
        <5> QED BY <1>3, <4>1, <5>1, Zenon DEF Enrolled, PublishedInv, Derived
      <4>2. CASE evicted # {}
        BY <1>3, <4>2, Zenon DEF Enrolled
      <4> QED BY <4>1, <4>2, Zenon
    <3>2. \A t \in Slots : cleared[t] = IF t \in evicted THEN NoClient ELSE slot[t]
      BY Zenon
    <3> HIDE DEF cleared
    <3>3. \A t \in Slots : t # s => slot'[t] = cleared[t]
      BY <2>4, <2>5, <3>2, Zenon
    <3>4. cleared[s] = slot[s]
      BY <1>1, <2>3, <3>2, Zenon
    <3>5. cleared[s].raised => cleared[s].id = slot'[s].id
      BY <2>2, <2>3, <3>4, Zenon DEF RowOK
    <3>6. \A t \in Slots : slot'[t].raised <=> cleared[t].raised
      BY <2>3, <3>3, <3>4, Zenon
    <3>7. \A t \in Slots : slot'[t].raised => InputIdentity(slot'[t].id) = InputIdentity(cleared[t].id)
      BY <3>3, <3>5, <3>6, Zenon
    <3>8. UnusableOf(slot') = UnusableOf(cleared)
      BY <3>6, <3>7, UnusableSame, Zenon
    <3> QED BY <1>1, <1>3, <3>1, <3>8, Zenon DEF PublishedInv, MaskTyped, Derived, Enrolled, Loss
  <2>7. slot' \in [Slots -> Rows]
    <3>1. \A t \in Slots : slot'[t] \in Rows
      BY <2>3, <2>4, <2>5, NoClientRow, Zenon DEF PublishedInv, RowsOK
    <3> QED BY <1>3, <3>1, Zenon DEF Enrolled
  <2>8. ASSUME NEW t \in Slots PROVE RowOK(slot'[t], everRegistered', everPresent')
    <3>1. everRegistered' = everRegistered \cup Loss(id) /\ everPresent' = everPresent
      BY <1>1, <1>3, Zenon DEF Enrolled
    <3>2. CASE t = s
      <4>1. slot'[t].peer # NoPeer /\ slot'[t].id = IdentityOf[slot'[t].peer[1]]
        BY <1>1, <2>3, <3>2, NoPeerIsNone, Zenon DEF id
      <4>2. id # None
        BY <2>1, NoneIsNone, Zenon
      <4> QED BY <2>3, <3>1, <3>2, <4>1, <4>2, Zenon DEF RowOK, Loss
    <3>3. CASE t \in evicted
      <4>1. slot'[t] = NoClient
        BY <2>4, <3>3, Zenon
      <4> QED BY <4>1, NoneIsNone DEF RowOK, NoClient
    <3>4. CASE t # s /\ t \notin evicted
      <4>1. slot'[t] = slot[t] /\ RowOK(slot[t], everRegistered, everPresent)
        BY <2>5, <3>4, Zenon DEF PublishedInv, RowsOK
      <4> QED BY <3>1, <4>1, Zenon DEF RowOK
    <3> QED BY <3>2, <3>3, <3>4, Zenon
  <2>9. NoClient.id = None
    BY Zenon DEF NoClient
  <2>10. Alone'
    <3> SUFFICES ASSUME NEW t \in Slots, NEW u \in Slots, slot'[t].id \in Singletons, slot'[t].id = slot'[u].id
                 PROVE  t = u
      BY Zenon DEF Alone
    <3>1. t \notin evicted /\ u \notin evicted
      BY <2>4, <2>9, NoneIsNone, Zenon
    <3>2. CASE t # s /\ u # s
      BY <2>5, <3>1, <3>2, Zenon DEF PublishedInv, Alone
    <3>3. CASE t = s
      BY <2>3, <2>5, <3>1, <3>3, Zenon
    <3>4. CASE u = s
      BY <2>3, <2>5, <3>1, <3>4, Zenon
    <3> QED BY <3>2, <3>3, <3>4, Zenon
  <2>11. Monitored'
    <3>1. CASE id = "SM"
      <4>1. smCache' = [slot |-> s, miss |-> 0, fault |-> FALSE]
        BY <1>3, <3>1, Zenon DEF Enrolled
      <4>2. \A t \in Slots : slot'[t].id = "SM" => t = s
        BY <2>3, <2>10, <1>1, <3>1, RpcAssumption, Zenon DEF Alone
      <4>3. slot'[s].latched = FALSE
        BY <2>3, Zenon DEF Rows
      <4> QED BY <1>1, <2>3, <3>1, <4>1, <4>2, <4>3, Zenon DEF Monitored
    <3>2. CASE id # "SM"
      <4>1. smCache' = smCache
        BY <1>3, <3>2, Zenon DEF Enrolled
      <4>2. \A t \in Slots : slot[t].id = "SM" => t # s /\ t \notin evicted /\ slot'[t] = slot[t]
        BY <2>2, <2>4, <2>5, <3>2, NoneIsNone, Zenon
      <4>3. \A t \in Slots : slot'[t].id = "SM" => slot'[t] = slot[t]
        BY <2>3, <2>4, <2>5, <2>9, <3>2, NoneIsNone, Zenon
      <4> QED BY <4>1, <4>2, <4>3, Zenon DEF PublishedInv, Monitored
    <3> QED BY <3>1, <3>2, Zenon
  <2>12. RowsOK'
    BY <2>7, <2>8, Zenon DEF RowsOK
  <2> QED BY <1>1, <2>6, <2>10, <2>11, <2>12, Zenon DEF PublishedInv
<1> QED BY <1>2, <1>3, RegisterNamed, Zenon

-----------------------------------------------------------------------------
(* The calls of the clients. *)

Kinds == {"register", "heartbeat", "report", "terminate", None}
Numbers == 0..(NumberSpan - 1)
Processes == [conn : 0..MaxConns, state : {"down", "idle", "waiting"}, kind : Kinds, n : Numbers, ahead : Nat, fails : Nat]
ClientTyped ==
    /\ client \in [Clients -> Processes]
    /\ \A c \in Clients : client[c].state # "down" => client[c].conn >= 1

(* A connection not made yet is empty, and that of a process that runs is   *)
(* open at its end.                                                         *)
Fresh ==
    \A c \in Clients : \A k \in 1..MaxConns : k > client[c].conn =>
        requests[<<c, k>>] = <<>> /\ responses[<<c, k>>] = <<>>
Opened == \A c \in Clients : client[c].state # "down" => Peer(c) \in open

(* The number k calls before number n.                                      *)
Back(n, k) == IF k <= n THEN n - k ELSE n - k + NumberSpan

(* What is under way of a process x, requests q after answers a: the calls  *)
(* up to its present one, one number after the other, fewer than there are  *)
(* numbers; the answer of the call it waits for is the last.                *)
Lined(q, a, x) ==
    /\ Len(q) + Len(a) <= Backlog
    /\ \A i \in 1..Len(q) : q[i].n = Back(x.n, Len(q) - i)
    /\ \A i \in 1..Len(a) : a[i].n = Back(x.n, Len(q) + Len(a) - i)
    /\ x.state = "waiting" => x.ahead = Len(q) + Len(a) - 1
    /\ x.state = "waiting" /\ x.kind = "register" => x.ahead = 0

(* A process whose connection has been cut fails before it reads.           *)
Live(c) == client[c].state = "waiting" \/ (client[c].state = "idle" /\ Peer(c) \notin cut)
Lines == \A c \in Clients : Live(c) => Lined(requests[Peer(c)], responses[Peer(c)], client[c])
CallInv == WireTyped /\ ClientTyped /\ Fresh /\ Opened /\ Lines

LEMMA BackNext ==
    ASSUME NEW n \in Numbers, NEW k \in Nat, k < Backlog
    PROVE  /\ Back(n, 0) = n
           /\ Back(IF n + 1 = NumberSpan THEN 0 ELSE n + 1, k + 1) = Back(n, k)
           /\ Back(n, k) = n => k = 0
  BY ClientAssumption DEF Numbers, Back

(* The server answers the first request.                                    *)
LEMMA LineServed ==
    ASSUME NEW q \in Seq(Messages), NEW a \in Seq(Answers), NEW x \in Processes, Lined(q, a, x), q # <<>>,
           NEW r \in Answers, r.n = Head(q).n
    PROVE  Lined(Tail(q), Append(a, r), x)
<1> DEFINE q1 == Tail(q)
           a1 == Append(a, r)
<1>1. /\ Len(q) \in Nat /\ Len(a) \in Nat /\ Len(q) >= 1 /\ Len(q1) = Len(q) - 1 /\ Len(a1) = Len(a) + 1
      /\ Head(q) = q[1] /\ \A i \in 1..Len(q1) : q1[i] = q[i + 1]
      /\ a1[Len(a) + 1] = r /\ \A i \in 1..Len(a) : a1[i] = a[i]
  OBVIOUS
<1>2. /\ Len(q) + Len(a) <= Backlog
      /\ \A i \in 1..Len(q) : q[i].n = Back(x.n, Len(q) - i)
      /\ \A i \in 1..Len(a) : a[i].n = Back(x.n, Len(q) + Len(a) - i)
  BY Zenon DEF Lined
<1> HIDE DEF q1, a1
<1>3. Len(q1) + Len(a1) = Len(q) + Len(a)
  BY <1>1
<1>4. ASSUME NEW i \in 1..Len(q1) PROVE q1[i].n = Back(x.n, Len(q1) - i)
  <2>1. i + 1 \in 1..Len(q) /\ q1[i] = q[i + 1] /\ Len(q1) - i = Len(q) - (i + 1)
    BY <1>1
  <2> QED BY <1>2, <2>1, Zenon
<1>5. ASSUME NEW i \in 1..Len(a1) PROVE a1[i].n = Back(x.n, Len(q1) + Len(a1) - i)
  <2>0. Len(q1) + Len(a1) - i = Len(q) + Len(a) - i
    BY <1>3
  <2>1. CASE i \in 1..Len(a)
    <3>1. a1[i] = a[i] /\ a[i].n = Back(x.n, Len(q) + Len(a) - i)
      BY <1>1, <1>2, <2>1
    <3> QED BY <2>0, <3>1, Zenon
  <2>2. CASE i \notin 1..Len(a)
    <3>1. i = Len(a) + 1
      BY <1>1, <2>2
    <3>2. 1 \in 1..Len(q) /\ Len(q) + Len(a) - i = Len(q) - 1
      BY <1>1, <3>1
    <3>3. a1[i] = r /\ r.n = q[1].n /\ q[1].n = Back(x.n, Len(q) - 1)
      BY <1>1, <1>2, <3>1, <3>2, Zenon
    <3> QED BY <2>0, <3>2, <3>3, Zenon
  <2> QED BY <2>1, <2>2, Zenon
<1>6. Len(q1) + Len(a1) <= Backlog /\ Len(q1) + Len(a1) - 1 = Len(q) + Len(a) - 1
  BY <1>2, <1>3
<1>7. /\ x.state = "waiting" => x.ahead = Len(q1) + Len(a1) - 1
      /\ x.state = "waiting" /\ x.kind = "register" => x.ahead = 0
  BY <1>6, Zenon DEF Lined
<1>8. Lined(q1, a1, x)
  BY <1>4, <1>5, <1>6, <1>7, Zenon DEF Lined
<1> QED BY <1>8, Zenon DEF q1, a1

(* A call is added.                                                         *)
LEMMA LineCalled ==
    ASSUME NEW q \in Seq(Messages), NEW a \in Seq(Answers), NEW x \in Processes, Lined(q, a, x),
           Len(q) + Len(a) < Backlog, NEW m \in Messages, NEW y,
           m.n = (IF x.n + 1 = NumberSpan THEN 0 ELSE x.n + 1), y.n = m.n, y.kind # "register",
           y.ahead = Len(q) + Len(a)
    PROVE  Lined(Append(q, m), a, y)
<1> DEFINE q1 == Append(q, m)
<1>1. /\ Len(q) \in Nat /\ Len(a) \in Nat /\ Len(q1) = Len(q) + 1
      /\ q1[Len(q) + 1] = m /\ \A i \in 1..Len(q) : q1[i] = q[i]
  OBVIOUS
<1>2. /\ \A i \in 1..Len(q) : q[i].n = Back(x.n, Len(q) - i)
      /\ \A i \in 1..Len(a) : a[i].n = Back(x.n, Len(q) + Len(a) - i)
  BY Zenon DEF Lined
<1>3. x.n \in Numbers /\ y.n \in Numbers
  <2>1. x.n \in Numbers
    BY Zenon DEF Processes
  <2> QED BY <2>1, ClientAssumption DEF Numbers
<1> HIDE DEF q1
<1>4. Len(q1) + Len(a) <= Backlog /\ Len(q1) + Len(a) - 1 = Len(q) + Len(a)
  BY <1>1, ClientAssumption
<1>5. ASSUME NEW k \in Nat, k < Backlog PROVE Back(y.n, k + 1) = Back(x.n, k)
  BY <1>3, <1>5, BackNext
<1>6. ASSUME NEW i \in 1..Len(q1) PROVE q1[i].n = Back(y.n, Len(q1) - i)
  <2>1. CASE i \in 1..Len(q)
    <3>1. Len(q) - i \in Nat /\ Len(q) - i < Backlog /\ Len(q1) - i = (Len(q) - i) + 1
      BY <1>1, <2>1, ClientAssumption
    <3>2. Back(y.n, Len(q1) - i) = Back(x.n, Len(q) - i)
      BY <1>5, <3>1
    <3> QED BY <1>1, <1>2, <2>1, <3>2, Zenon
  <2>2. CASE i \notin 1..Len(q)
    <3>1. i = Len(q) + 1 /\ Len(q1) - i = 0
      BY <1>1, <2>2
    <3>2. Back(y.n, 0) = y.n
      BY <1>3 DEF Numbers, Back
    <3> QED BY <1>1, <3>1, <3>2
  <2> QED BY <2>1, <2>2, Zenon
<1>7. ASSUME NEW i \in 1..Len(a) PROVE a[i].n = Back(y.n, Len(q1) + Len(a) - i)
  <2>1. Len(q) + Len(a) - i \in Nat /\ Len(q) + Len(a) - i < Backlog /\ Len(q1) + Len(a) - i = (Len(q) + Len(a) - i) + 1
    BY <1>1, ClientAssumption
  <2>2. Back(y.n, Len(q1) + Len(a) - i) = Back(x.n, Len(q) + Len(a) - i)
    BY <1>5, <2>1
  <2> QED BY <1>2, <2>2, Zenon
<1> QED BY <1>4, <1>6, <1>7, Zenon DEF Lined, q1

(* The process reads an answer, or stops waiting.                           *)
LEMMA LineRead ==
    ASSUME NEW q \in Seq(Messages), NEW a \in Seq(Answers), NEW x, Lined(q, a, x), NEW y, y.n = x.n, y.state # "waiting"
    PROVE  Lined(q, a, y) /\ (a # <<>> => Lined(q, Tail(a), y))
<1>1. Lined(q, a, y)
  BY Zenon DEF Lined
<1>2. ASSUME a # <<>> PROVE Lined(q, Tail(a), y)
  <2> DEFINE a1 == Tail(a)
  <2>1. /\ Len(q) \in Nat /\ Len(a) \in Nat /\ Len(a) >= 1 /\ Len(a1) = Len(a) - 1
        /\ \A i \in 1..Len(a1) : a1[i] = a[i + 1]
    BY <1>2
  <2>2. /\ Len(q) + Len(a) <= Backlog
        /\ \A i \in 1..Len(q) : q[i].n = Back(x.n, Len(q) - i)
        /\ \A i \in 1..Len(a) : a[i].n = Back(x.n, Len(q) + Len(a) - i)
    BY Zenon DEF Lined
  <2> HIDE DEF a1
  <2>3. Len(q) + Len(a1) <= Backlog
    BY <2>1, <2>2, ClientAssumption
  <2>4. ASSUME NEW i \in 1..Len(a1) PROVE a1[i].n = Back(x.n, Len(q) + Len(a1) - i)
    <3>1. i + 1 \in 1..Len(a) /\ a1[i] = a[i + 1] /\ Len(q) + Len(a1) - i = Len(q) + Len(a) - (i + 1)
      BY <2>1
    <3> QED BY <2>2, <3>1, Zenon
  <2> QED BY <2>2, <2>3, <2>4, Zenon DEF Lined, a1
<1> QED BY <1>1, <1>2, Zenon

(* The first answer is the call's own when it has the call's number.        *)
LEMMA OwnAnswer ==
    ASSUME NEW q \in Seq(Messages), NEW a \in Seq(Answers), NEW x \in Processes, Lined(q, a, x),
           x.state = "waiting", a # <<>>, x.kind = "register" \/ Head(a).n = x.n
    PROVE  x.ahead = 0
<1>1. x.n \in Numbers /\ x.ahead \in Nat
  BY Zenon DEF Processes
<1>2. Len(q) \in Nat /\ Len(a) \in Nat /\ 1 \in 1..Len(a) /\ Head(a) = a[1]
  OBVIOUS
<1>3. Head(a).n = Back(x.n, Len(q) + Len(a) - 1) /\ x.ahead = Len(q) + Len(a) - 1 /\ Len(q) + Len(a) <= Backlog
      /\ (x.kind = "register" => x.ahead = 0)
  BY <1>2, Zenon DEF Lined
<1>4. x.ahead < Backlog
  BY <1>1, <1>2, <1>3, ClientAssumption
<1>5. Back(x.n, x.ahead) = x.n => x.ahead = 0
  BY <1>1, <1>4, BackNext
<1>6. Head(a).n = Back(x.n, x.ahead)
  BY <1>3, Zenon
<1> QED BY <1>3, <1>5, <1>6, Zenon

LEMMA PeerKnown ==
    ASSUME ClientTyped, NEW c \in Clients, client[c].state # "down"
    PROVE  Peer(c) \in Peers
<1>1. client[c].conn \in 0..MaxConns /\ client[c].conn >= 1
  BY Zenon DEF ClientTyped, Processes
<1> QED BY <1>1, RpcAssumption DEF Peer, Peers

(* A step of the process c that keeps its connection.                       *)
LEMMA ProcessStep ==
    ASSUME CallInv, NEW c \in Clients, client[c].state # "down", NEW x \in Processes,
           client' = [client EXCEPT ![c] = x], x.conn = client[c].conn, WireTyped',
           \A p \in Peers : p # Peer(c) => /\ requests'[p] = requests[p] /\ responses'[p] = responses[p]
                                           /\ (p \in open => p \in open') /\ (p \notin cut' => p \notin cut),
           x.state # "down" => Peer(c) \in open',
           x.state = "waiting" \/ (x.state = "idle" /\ Peer(c) \notin cut') =>
               Lined(requests'[Peer(c)], responses'[Peer(c)], x)
    PROVE  CallInv'
<1>1. client' \in [Clients -> Processes] /\ client'[c] = x /\ \A d \in Clients : d # c => client'[d] = client[d]
  BY Zenon DEF CallInv, ClientTyped
<1>2. \A d \in Clients : client'[d].conn = client[d].conn /\ Peer(d)' = Peer(d)
  BY <1>1, Zenon DEF Peer
<1>3. ClientTyped'
  BY <1>1, <1>2, Zenon DEF CallInv, ClientTyped
<1>4. Fresh'
  <2> SUFFICES ASSUME NEW d \in Clients, NEW k \in 1..MaxConns, k > client'[d].conn
               PROVE  requests'[<<d, k>>] = <<>> /\ responses'[<<d, k>>] = <<>>
    BY Zenon DEF Fresh
  <2>1. client'[d].conn = client[d].conn /\ k > client[d].conn /\ <<d, k>> \in Peers
    BY <1>2, Zenon DEF Peers
  <2>2. <<d, k>> # Peer(c)
    <3>1. client[d].conn \in Nat /\ k \in Nat
      BY RpcAssumption DEF CallInv, ClientTyped, Processes
    <3> QED BY <2>1, <3>1 DEF Peer
  <2>3. requests[<<d, k>>] = <<>> /\ responses[<<d, k>>] = <<>>
    BY <2>1, Zenon DEF CallInv, Fresh
  <2> QED BY <2>1, <2>2, <2>3, Zenon
<1>5. \A d \in Clients : d # c => Peer(d) # Peer(c)
  BY Zenon DEF Peer
<1>6. Opened'
  <2> SUFFICES ASSUME NEW d \in Clients, client'[d].state # "down" PROVE Peer(d) \in open'
    BY <1>2, Zenon DEF Opened
  <2>1. CASE d = c
    BY <1>1, <2>1, Zenon
  <2>2. CASE d # c
    BY <1>1, <1>5, <2>2, PeerKnown, Zenon DEF CallInv, Opened
  <2> QED BY <2>1, <2>2, Zenon
<1>7. Lines'
  <2> SUFFICES ASSUME NEW d \in Clients, Live(d)' PROVE Lined(requests'[Peer(d)], responses'[Peer(d)], client'[d])
    BY <1>2, Zenon DEF Lines
  <2>1. client'[d].state = "waiting" \/ (client'[d].state = "idle" /\ Peer(d) \notin cut')
    BY <1>2, Zenon DEF Live
  <2>2. CASE d = c
    BY <1>1, <2>1, <2>2, Zenon
  <2>3. CASE d # c
    <3>1. Peer(d) \in Peers /\ Peer(d) # Peer(c) /\ client'[d] = client[d]
      BY <1>1, <1>5, <2>1, <2>3, PeerKnown, Zenon DEF CallInv
    <3> QED BY <2>1, <3>1, Zenon DEF CallInv, Lines, Live
  <2> QED BY <2>2, <2>3, Zenon
<1> QED BY <1>3, <1>4, <1>6, <1>7, Zenon DEF CallInv

LEMMA ClosedCalls ==
    ASSUME CallInv, NEW c \in Clients, client[c].state # "down", Close(c)
    PROVE  CallInv'
<1>1. Peer(c) \in Peers /\ client[c] \in Processes /\ client \in [Clients -> Processes]
  BY PeerKnown, Zenon DEF CallInv, ClientTyped
<1> DEFINE x == [client[c] EXCEPT !.state = "down", !.kind = None, !.n = 0, !.ahead = 0, !.fails = 0]
<1>2. x \in Processes /\ x.conn = client[c].conn /\ x.state = "down"
  <2>1. 0 \in Numbers
    BY ClientAssumption DEF Numbers
  <2> QED BY <1>1, <2>1, Zenon DEF Processes, Kinds, None
<1>3. client' = [client EXCEPT ![c] = x]
  BY <1>1, Zenon DEF Close, Processes
<1>4. WireTyped'
  <2>1. <<>> \in Seq(Messages) /\ <<>> \in Seq(Answers)
    OBVIOUS
  <2> QED BY <1>1, <2>1, Zenon DEF CallInv, WireTyped, Close
<1>5. \A p \in Peers : p # Peer(c) => /\ requests'[p] = requests[p] /\ responses'[p] = responses[p]
                                      /\ (p \in open => p \in open') /\ (p \notin cut' => p \notin cut)
  BY <1>1, Zenon DEF Close, CallInv, WireTyped
<1> HIDE DEF x
<1> QED BY <1>2, <1>3, <1>4, <1>5, ProcessStep, Zenon

LEMMA ReturnedCalls ==
    ASSUME CallInv, NEW c \in Clients, client[c].state # "down", NEW kind \in Kinds, NEW n \in Numbers, NEW good,
           NEW rest, rest \in Seq(Answers), Return(c, kind, n, good, rest),
           Peer(c) \notin cut => \A y : y.n = n /\ y.state # "waiting" => Lined(requests[Peer(c)], rest, y)
    PROVE  CallInv'
<1>1. Peer(c) \in Peers /\ client[c] \in Processes /\ client \in [Clients -> Processes] /\ Peer(c) \in open
  BY PeerKnown, Zenon DEF CallInv, ClientTyped, Opened
<1>2. CASE Close(c)
  BY <1>2, ClosedCalls, Zenon
<1>3. CASE ~(kind = "terminate" \/ (kind = "register" /\ ~good))
  <2> DEFINE x == [client[c] EXCEPT !.state = "idle", !.kind = None, !.n = n, !.ahead = 0,
                                    !.fails = IF kind # "heartbeat" THEN @ ELSE IF good THEN 0 ELSE @ + 1]
  <2>1. /\ client' = [client EXCEPT ![c].state = "idle", ![c].kind = None, ![c].n = n, ![c].ahead = 0,
                                     ![c].fails = IF kind # "heartbeat" THEN @ ELSE IF good THEN 0 ELSE @ + 1]
        /\ responses' = [responses EXCEPT ![Peer(c)] = rest]
        /\ UNCHANGED <<open, cut, requests>>
    BY <1>3, Zenon DEF Return
  <2>2. (IF kind # "heartbeat" THEN client[c].fails ELSE IF good THEN 0 ELSE client[c].fails + 1) \in Nat
    BY <1>1 DEF Processes
  <2>3. x \in Processes /\ x.conn = client[c].conn /\ x.state = "idle" /\ x.n = n
    BY <1>1, <2>2, ZenonT(40) DEF Processes, Kinds, None
  <2>4. client' = [client EXCEPT ![c] = x]
    BY <1>1, <2>1, Zenon DEF Processes
  <2>5. WireTyped' /\ \A p \in Peers : p # Peer(c) => requests'[p] = requests[p] /\ responses'[p] = responses[p]
    BY <1>1, <2>1, Zenon DEF CallInv, WireTyped
  <2>6. requests'[Peer(c)] = requests[Peer(c)] /\ responses'[Peer(c)] = rest
    BY <1>1, <2>1, Zenon DEF CallInv, WireTyped
  <2> HIDE DEF x
  <2>7. Peer(c) \notin cut' => Lined(requests'[Peer(c)], responses'[Peer(c)], x)
    BY <2>1, <2>3, <2>6, Zenon
  <2>8. \A p \in Peers : p # Peer(c) => /\ requests'[p] = requests[p] /\ responses'[p] = responses[p]
                                        /\ (p \in open => p \in open') /\ (p \notin cut' => p \notin cut)
    BY <2>1, <2>5, Zenon
  <2>9. Peer(c) \in open'
    BY <1>1, <2>1, Zenon
  <2>10. x.state = "waiting" \/ (x.state = "idle" /\ Peer(c) \notin cut') => Lined(requests'[Peer(c)], responses'[Peer(c)], x)
    BY <2>3, <2>7, Zenon
  <2> QED BY <2>3, <2>4, <2>5, <2>8, <2>9, <2>10, ProcessStep, Zenon
<1> QED BY <1>2, <1>3, Zenon DEF Return

LEMMA CallKeeps ==
    ASSUME CallInv, NEW c \in Clients, NEW m \in Messages, m.kind # "register", m.n = NextNumber(c), Call(c, m)
    PROVE  CallInv'
<1>1. client[c].state = "idle" /\ Len(requests[Peer(c)]) + Len(responses[Peer(c)]) < Backlog
  BY Zenon DEF Call
<1>2. Peer(c) \in Peers /\ client[c] \in Processes /\ client \in [Clients -> Processes] /\ Peer(c) \in open
  BY <1>1, PeerKnown, Zenon DEF CallInv, ClientTyped, Opened
<1>3. m.kind \in Kinds /\ m.n \in Numbers
  <2>1. client[c].n \in Numbers
    BY <1>2, Zenon DEF Processes
  <2>2. m.n \in Numbers
    BY <2>1, ClientAssumption DEF NextNumber, Numbers
  <2> QED BY <2>2, Zenon DEF Messages, Kinds
<1>4. /\ responses[Peer(c)] \in Seq(Answers) /\ requests[Peer(c)] \in Seq(Messages)
      /\ Append(requests[Peer(c)], m) \in Seq(Messages)
      /\ Len(requests[Peer(c)]) + Len(responses[Peer(c)]) \in Nat
  BY <1>2 DEF CallInv, WireTyped
<1>5. CASE Peer(c) \in cut /\ Return(c, m.kind, m.n, FALSE, responses[Peer(c)])
  BY <1>1, <1>3, <1>4, <1>5, ReturnedCalls, Zenon
<1>6. CASE Peer(c) \notin cut
  <2> DEFINE len == Len(requests[Peer(c)]) + Len(responses[Peer(c)])
             x == [client[c] EXCEPT !.state = "waiting", !.kind = m.kind, !.n = m.n, !.ahead = len]
  <2>1. /\ client' = [client EXCEPT ![c].state = "waiting", ![c].kind = m.kind, ![c].n = m.n, ![c].ahead = len]
        /\ requests' = [requests EXCEPT ![Peer(c)] = Append(@, m)] /\ UNCHANGED <<open, cut, responses>>
    BY <1>6, Zenon DEF Call
  <2> HIDE DEF len
  <2>2. /\ x \in Processes /\ x.conn = client[c].conn /\ x.kind = m.kind /\ x.n = m.n
        /\ x.ahead = len /\ x.state = "waiting"
    BY <1>2, <1>3, <1>4, ZenonT(40) DEF Processes, len
  <2>3. client' = [client EXCEPT ![c] = x]
    BY <1>2, <2>1, Zenon DEF Processes
  <2>4. WireTyped' /\ \A p \in Peers : p # Peer(c) => requests'[p] = requests[p] /\ responses'[p] = responses[p]
    BY <1>2, <1>4, <2>1, Zenon DEF CallInv, WireTyped
  <2>5. requests'[Peer(c)] = Append(requests[Peer(c)], m) /\ responses'[Peer(c)] = responses[Peer(c)]
    BY <1>2, <2>1, Zenon DEF CallInv, WireTyped
  <2> HIDE DEF x
  <2>6. Lined(requests[Peer(c)], responses[Peer(c)], client[c])
    BY <1>1, <1>6, Zenon DEF CallInv, Lines, Live
  <2>7. m.n = IF client[c].n + 1 = NumberSpan THEN 0 ELSE client[c].n + 1
    BY Zenon DEF NextNumber
  <2>8. Lined(requests'[Peer(c)], responses'[Peer(c)], x)
    BY <1>1, <1>2, <1>4, <2>2, <2>5, <2>6, <2>7, LineCalled, Zenon DEF len
  <2>9. \A p \in Peers : p # Peer(c) => /\ requests'[p] = requests[p] /\ responses'[p] = responses[p]
                                        /\ (p \in open => p \in open') /\ (p \notin cut' => p \notin cut)
    BY <2>1, <2>4, Zenon
  <2>10. Peer(c) \in open' /\ client[c].state # "down"
    BY <1>1, <1>2, <2>1, Zenon
  <2> QED BY <2>2, <2>3, <2>4, <2>8, <2>9, <2>10, ProcessStep, Zenon
<1> QED BY <1>5, <1>6, Zenon DEF Call

LEMMA ConnectKeeps ==
    ASSUME CallInv, NEW c \in Clients, Connect(c)
    PROVE  CallInv'
<1> DEFINE k0 == client[c].conn + 1
           x == [conn |-> k0, state |-> "waiting", kind |-> "register", n |-> 0, ahead |-> 0, fails |-> 0]
           m0 == [kind |-> "register", n |-> 0]
<1>1. /\ client[c].conn < MaxConns /\ UNCHANGED <<cut, responses>> /\ open' = open \cup {<<c, k0>>}
      /\ client' = [client EXCEPT ![c] = x] /\ requests' = [requests EXCEPT ![<<c, k0>>] = <<m0>>]
  BY Zenon DEF Connect
<1>2. client[c].conn \in Nat /\ k0 \in 1..MaxConns /\ <<c, k0>> \in Peers
  BY <1>1, RpcAssumption DEF CallInv, ClientTyped, Processes, Peers
<1>3. x \in Processes /\ x.conn = k0 /\ x.n = 0 /\ x.state = "waiting"
  BY <1>2, RpcAssumption, ClientAssumption DEF Processes, Kinds, Numbers
<1>4. m0 \in Messages /\ m0.n = 0
  BY Zenon DEF Messages
<1>5. Lined(<<m0>>, <<>>, x)
  BY <1>4, ClientAssumption DEF Lined, Back
<1>6. <<m0>> \in Seq(Messages)
  <2> HIDE DEF m0
  <2> QED BY <1>4
<1> HIDE DEF x, m0
<1>7. client' \in [Clients -> Processes] /\ client'[c] = x /\ \A d \in Clients : d # c => client'[d] = client[d]
  BY <1>1, <1>3, Zenon DEF CallInv, ClientTyped
<1>8. WireTyped'
  BY <1>1, <1>2, <1>6, Zenon DEF CallInv, WireTyped
<1>9. ClientTyped'
  BY <1>2, <1>3, <1>7 DEF CallInv, ClientTyped
<1>10. responses[<<c, k0>>] = <<>>
  BY <1>2 DEF CallInv, Fresh
<1>11. \A p \in Peers : requests'[p] = (IF p = <<c, k0>> THEN <<m0>> ELSE requests[p]) /\ responses'[p] = responses[p]
  BY <1>1, <1>2, Zenon DEF CallInv, WireTyped
<1>12. Fresh'
  <2> SUFFICES ASSUME NEW d \in Clients, NEW k \in 1..MaxConns, k > client'[d].conn
               PROVE  requests'[<<d, k>>] = <<>> /\ responses'[<<d, k>>] = <<>>
    BY Zenon DEF Fresh
  <2>1. <<d, k>> \in Peers
    BY Zenon DEF Peers
  <2>2. CASE d = c
    <3>1. k > k0 /\ k > client[c].conn
      BY <1>2, <1>3, <1>7, <2>2
    <3> QED BY <1>2, <1>11, <2>1, <2>2, <3>1 DEF CallInv, Fresh
  <2>3. CASE d # c
    <3>1. k > client[d].conn
      BY <1>7, <2>3, Zenon
    <3> QED BY <1>11, <2>1, <2>3, <3>1, Zenon DEF CallInv, Fresh
  <2> QED BY <2>2, <2>3, Zenon
<1>13. Peer(c)' = <<c, k0>> /\ \A d \in Clients : d # c => Peer(d)' = Peer(d) /\ Peer(d) # <<c, k0>>
  BY <1>3, <1>7, Zenon DEF Peer
<1>14. Opened'
  BY <1>1, <1>7, <1>13, Zenon DEF CallInv, Opened
<1>15. Lines'
  <2> SUFFICES ASSUME NEW d \in Clients, Live(d)' PROVE Lined(requests'[Peer(d)'], responses'[Peer(d)'], client'[d])
    BY Zenon DEF Lines
  <2>1. CASE d = c
    BY <1>2, <1>5, <1>7, <1>10, <1>11, <1>13, <2>1, Zenon
  <2>2. CASE d # c
    <3>1. Live(d) /\ client'[d] = client[d] /\ Peer(d)' = Peer(d) /\ Peer(d) # <<c, k0>>
      BY <1>1, <1>7, <1>13, <2>2, Zenon DEF Live
    <3>2. Peer(d) \in Peers
      BY <3>1, PeerKnown, Zenon DEF CallInv, Live
    <3> QED BY <1>11, <3>1, <3>2, Zenon DEF CallInv, Lines
  <2> QED BY <2>1, <2>2, Zenon
<1> QED BY <1>8, <1>9, <1>12, <1>14, <1>15, Zenon DEF CallInv

(* A step of the server leaves the two directions of a connection alone, or *)
(* takes a request and answers it, or forgets a connection that is gone.    *)
LEMMA ServerStep ==
    ASSUME CallInv, WireTyped', UNCHANGED <<client, open>>, cut \subseteq cut', NEW p \in Peers,
           \A x \in Peers : x # p => requests'[x] = requests[x] /\ responses'[x] = responses[x],
           requests[p] = <<>> /\ responses[p] = <<>> => requests'[p] = <<>> /\ responses'[p] = <<>>,
           \A x \in Processes : p \in open /\ Lined(requests[p], responses[p], x) => Lined(requests'[p], responses'[p], x)
    PROVE  CallInv'
<1>1. ClientTyped' /\ Opened'
  BY Zenon DEF CallInv, ClientTyped, Opened, Peer
<1>2. Fresh'
  <2> SUFFICES ASSUME NEW d \in Clients, NEW k \in 1..MaxConns, k > client[d].conn
               PROVE  requests'[<<d, k>>] = <<>> /\ responses'[<<d, k>>] = <<>>
    BY Zenon DEF Fresh
  <2>1. requests[<<d, k>>] = <<>> /\ responses[<<d, k>>] = <<>> /\ <<d, k>> \in Peers
    BY Zenon DEF CallInv, Fresh, Peers
  <2> QED BY <2>1, Zenon
<1>3. Lines'
  <2> SUFFICES ASSUME NEW d \in Clients, Live(d)
               PROVE  Lined(requests'[Peer(d)], responses'[Peer(d)], client[d])
    BY Zenon DEF Lines, Live, Peer
  <2>1. Peer(d) \in Peers /\ client[d] \in Processes /\ Peer(d) \in open
    BY PeerKnown, Zenon DEF CallInv, ClientTyped, Opened, Live
  <2>2. Lined(requests[Peer(d)], responses[Peer(d)], client[d])
    BY Zenon DEF CallInv, Lines
  <2> QED BY <2>1, <2>2, Zenon
<1> QED BY <1>1, <1>2, <1>3, Zenon DEF CallInv

LEMMA ServedKeeps ==
    ASSUME CallInv, NEW p \in Peers, NEW kind, Take(p, kind), NEW ok \in BOOLEAN,
           Answer(p, [n |-> Head(requests[p]).n, ok |-> ok]), UNCHANGED <<client, open>>, cut \subseteq cut'
    PROVE  CallInv'
<1> DEFINE a0 == [n |-> Head(requests[p]).n, ok |-> ok]
<1>1. a0 \in Answers /\ a0.n = Head(requests[p]).n
  BY TakeTyped, Zenon DEF Answers, CallInv
<1>2. Answer(p, a0)
  BY Zenon
<1> HIDE DEF a0
<1>3. WireTyped'
  BY <1>1, <1>2, TakeTyped, AnswerTyped, Zenon DEF CallInv, WireTyped
<1>4. \A x \in Peers : x # p => requests'[x] = requests[x] /\ responses'[x] = responses[x]
  BY <1>2, Zenon DEF CallInv, WireTyped, Take, Answer
<1>5. requests[p] # <<>> /\ requests'[p] = Tail(requests[p])
  BY Zenon DEF CallInv, WireTyped, Take
<1>6. p \in open => responses'[p] = Append(responses[p], a0)
  BY <1>2, Zenon DEF CallInv, WireTyped, Answer
<1>7. requests[p] \in Seq(Messages) /\ responses[p] \in Seq(Answers)
  BY Zenon DEF CallInv, WireTyped
<1>8. \A x \in Processes : p \in open /\ Lined(requests[p], responses[p], x) => Lined(requests'[p], responses'[p], x)
  BY <1>1, <1>5, <1>6, <1>7, LineServed, Zenon
<1> QED BY <1>3, <1>4, <1>5, <1>8, ServerStep, Zenon

LEMMA GoneKeeps ==
    ASSUME CallInv, NEW p \in Peers, PeerGone(p), UNCHANGED client
    PROVE  CallInv'
<1>1. \A x \in Peers : requests'[x] = (IF x = p THEN <<>> ELSE requests[x]) /\ responses'[x] = responses[x]
  BY Zenon DEF PeerGone, CallInv, WireTyped
<1>2. WireTyped'
  <2>1. <<>> \in Seq(Messages)
    OBVIOUS
  <2> QED BY <2>1, Zenon DEF PeerGone, CallInv, WireTyped
<1>3. p \notin open /\ UNCHANGED open /\ cut \subseteq cut'
  BY Zenon DEF PeerGone, DropClient
<1> QED BY <1>1, <1>2, <1>3, ServerStep, Zenon

LEMMA WireStands ==
    ASSUME CallInv, UNCHANGED <<requests, responses, client, open>>, cut \subseteq cut'
    PROVE  CallInv'
<1>1. WireTyped' /\ ClientTyped' /\ Opened' /\ Fresh'
  BY Zenon DEF CallInv, WireTyped, ClientTyped, Opened, Fresh, Peer
<1>2. Lines'
  BY Zenon DEF CallInv, Lines, Live, Peer
<1> QED BY <1>1, <1>2, Zenon DEF CallInv

-----------------------------------------------------------------------------
(* The announced losses. *)

(* A source that registered or was reported absent has been told lost, or   *)
(* is on the list of the absent, or holds a slot.                           *)
Named(i) == i \in told \cup pendingNever \/ \E s \in Slots : slot[s].id = i
Known == \A i \in everRegistered \cup raisedNever : Named(i)
DueCovered == due => Required \subseteq everRegistered \cup raisedNever

Silenced(c) == c.latched /\ c.id # None
Leaving == \A s \in Slots : Silenced(slot[s]) => LeavingSoon(s)

(* An entry of the list outlives its connection only for one turn of the    *)
(* server's loop, in which the slot's next client cannot be latched: it     *)
(* would have to miss more heartbeats than there are ticks in the turn.     *)
Young(c) == (c.miss = 0 /\ c.quiet = 0) \/ c.miss + 1 <= lag
Outlived == \A e \in pending : e[2] # gen[e[1]] => Young(slot[e[1]]) /\ ~Silenced(slot[e[1]])
Ticking == (tpc = "idle" => doomed = {}) /\ lag <= MaxTicksPerLoop
LossInv == ListTyped /\ Known /\ DueCovered /\ Leaving /\ Outlived /\ Ticking

LEMMA Announced ==
    ASSUME PublishedInv, LossInv
    PROVE  LossAnnounced
<1> SUFFICES ASSUME NEW i \in expected \ presence, i \notin told \cup pendingNever
             PROVE  \E s \in Slots : slot[s].id = i /\ (slot[s].latched => LeavingSoon(s))
  BY Zenon DEF LossAnnounced
<1>1. i \in everRegistered \cup raisedNever
  BY Zenon DEF PublishedInv, Derived, ExpectedOf, MaskTyped, LossInv, DueCovered
<1>2. PICK s \in Slots : slot[s].id = i
  BY <1>1, Zenon DEF LossInv, Known, Named
<1>3. i # None
  BY <1>1, NoneIsNone, RpcAssumption, Zenon DEF PublishedInv, MaskTyped
<1> QED BY <1>2, <1>3, Zenon DEF LossInv, Leaving, Silenced

(* A step of the server thread that deals with slots and not with the list. *)
LEMMA SlotsServed ==
    ASSUME PublishedInv, PublishedInv', LossInv, UNCHANGED <<pending, doomed, tpc, lag, due, raisedNever>>,
           gen' \in [Slots -> Nat], everRegistered \subseteq everRegistered',
           \A s \in Slots : Silenced(slot'[s]) => Silenced(slot[s]),
           \A s \in Slots : \/ slot'[s].miss = 0 /\ slot'[s].quiet = 0
                            \/ slot'[s].miss = slot[s].miss /\ slot'[s].quiet = slot[s].quiet,
           \A s \in Slots : gen'[s] # gen[s] => slot'[s].miss = 0 /\ slot'[s].quiet = 0 /\ ~Silenced(slot'[s]),
           \A i \in Tracked : Named(i) => Named(i)',
           \A i \in everRegistered' : i \notin everRegistered => Named(i)'
    PROVE  LossInv'
<1>1. ListTyped'
  BY Zenon DEF LossInv, ListTyped
<1>2. Known'
  <2>1. everRegistered \cup raisedNever \subseteq Tracked
    BY RpcAssumption, Zenon DEF PublishedInv, MaskTyped
  <2> QED BY <2>1, Zenon DEF LossInv, Known
<1>3. DueCovered'
  BY Zenon DEF LossInv, DueCovered
<1>4. Leaving'
  BY Zenon DEF LossInv, Leaving, LeavingSoon
<1>5. Outlived'
  <2> SUFFICES ASSUME NEW e \in pending, e[2] # gen'[e[1]]
               PROVE  Young(slot[e[1]])' /\ ~Silenced(slot'[e[1]])
    BY Zenon DEF Outlived
  <2>1. e[1] \in Slots
    BY Zenon DEF LossInv, ListTyped
  <2>2. CASE gen'[e[1]] # gen[e[1]]
    BY <2>1, <2>2, Zenon DEF Young
  <2>3. CASE gen'[e[1]] = gen[e[1]]
    <3>1. Young(slot[e[1]]) /\ ~Silenced(slot[e[1]])
      BY <2>3, Zenon DEF LossInv, Outlived
    <3> QED BY <2>1, <3>1, Zenon DEF Young
  <2> QED BY <2>2, <2>3, Zenon
<1>6. Ticking'
  BY Zenon DEF LossInv, Ticking
<1> QED BY <1>1, <1>2, <1>3, <1>4, <1>5, <1>6, Zenon DEF LossInv

(* The clients of a set are dropped with the announcement of their loss.    *)
LEMMA DropAnnounces ==
    ASSUME PublishedInv, PublishedInv', LossInv, NEW s \in Slots, DropClient(s),
           UNCHANGED <<gen, pending, pendingNever, doomed, tpc, lag, due, raisedNever, everRegistered>>
    PROVE  LossInv'
<1>1. slot' = [slot EXCEPT ![s] = NoClient] /\ told' = told \cup Loss(slot[s].id)
  BY Zenon DEF DropClient, Clear
<1>2. \A t \in Slots : slot'[t] = IF t = s THEN NoClient ELSE slot[t]
  BY <1>1, Zenon DEF PublishedInv, RowsOK
<1>3. NoClient.miss = 0 /\ NoClient.quiet = 0 /\ ~Silenced(NoClient)
  BY Zenon DEF NoClient, Silenced
<1>4. ASSUME NEW i \in Tracked, Named(i) PROVE Named(i)'
  BY <1>1, <1>2, <1>4, Zenon DEF Named, Loss
<1> QED BY <1>2, <1>3, <1>4, SlotsServed, Zenon DEF LossInv, ListTyped

LEMMA HeartbeatAnnounces ==
    ASSUME PublishedInv, PublishedInv', LossInv, NEW p \in Peers, Heartbeat(p)
    PROVE  LossInv'
<1> DEFINE s == SlotOf(p)
<1>1. s \in Slots /\ slot[s].peer = p /\ slot[s] \in Rows
  BY SlotFound, Zenon DEF Heartbeat, Take, PublishedInv, RowsOK
<1>2. /\ slot' = [slot EXCEPT ![s] = Beaten(slot[s])] /\ told' = told \ PresenceOf(slot')
      /\ UNCHANGED <<gen, pending, pendingNever, doomed, tpc, lag, due, raisedNever, everRegistered>>
  BY HeartbeatMasks, Zenon DEF Heartbeat, Publish, never, tick
<1>3. \A t \in Slots : slot'[t] = IF t = s THEN Beaten(slot[s]) ELSE slot[t]
  BY <1>2, Zenon DEF PublishedInv, RowsOK
<1> HIDE DEF s
<1>4. \A t \in Slots : slot'[t].id = slot[t].id /\ slot'[t].latched = slot[t].latched
  BY <1>1, <1>3, BeatenRow
<1>5. \A t \in Slots : \/ slot'[t].miss = 0 /\ slot'[t].quiet = 0
                       \/ slot'[t].miss = slot[t].miss /\ slot'[t].quiet = slot[t].quiet
  BY <1>1, <1>3, BeatenRow, Zenon
<1>6. ASSUME NEW i \in Tracked, Named(i) PROVE Named(i)'
  <2>1. CASE i \in PresenceOf(slot')
    BY <2>1, Zenon DEF Named, PresenceOf
  <2>2. CASE i \notin PresenceOf(slot')
    BY <1>2, <1>4, <1>6, <2>2, Zenon DEF Named
  <2> QED BY <2>1, <2>2, Zenon
<1>7. \A t \in Slots : Silenced(slot'[t]) => Silenced(slot[t])
  BY <1>4, Zenon DEF Silenced
<1> QED BY <1>2, <1>5, <1>6, <1>7, SlotsServed, Zenon DEF LossInv, ListTyped

LEMMA ReportAnnounces ==
    ASSUME PublishedInv, PublishedInv', LossInv, NEW p \in Peers, Report(p)
    PROVE  LossInv'
<1> DEFINE s == SlotOf(p)
           r == Head(requests[p]).report
<1>1. s \in Slots /\ slot[s] \in Rows
  BY SlotFound, Zenon DEF Report, Take, PublishedInv, RowsOK
<1>2. UNCHANGED <<gen, pending, pendingNever, doomed, tpc, lag, due, raisedNever, everRegistered, told>>
  BY Zenon DEF Report, never, tick
<1>3. \/ slot[s].id = None /\ slot' = [slot EXCEPT ![s] = NoClient]
      \/ slot' = [slot EXCEPT ![s] = NoteReportAccepted(slot[s], r)]
      \/ slot' = [slot EXCEPT ![s] = NoteReportRejected(slot[s])]
  BY Zenon DEF Report
<1>4. LET d == NoteReportAccepted(slot[s], r)
      IN  d.id = slot[s].id /\ d.miss = slot[s].miss /\ d.latched = slot[s].latched /\ d.quiet = slot[s].quiet
  <2> HIDE DEF r
  <2> QED BY <1>1, Zenon DEF NoteReportAccepted, Rows
<1>5. LET d == NoteReportRejected(slot[s])
      IN  d.id = slot[s].id /\ d.miss = slot[s].miss /\ d.latched = slot[s].latched /\ d.quiet = slot[s].quiet
  BY <1>1, RejectedRow, Zenon
<1> HIDE DEF s, r
<1>9. NoClient.id = None /\ NoClient.miss = 0 /\ NoClient.quiet = 0 /\ ~NoClient.latched
  BY Zenon DEF NoClient
<1>6. \A t \in Slots : /\ slot'[t].id = slot[t].id /\ (slot'[t].latched => slot[t].latched)
                       /\ \/ slot'[t].miss = 0 /\ slot'[t].quiet = 0
                          \/ slot'[t].miss = slot[t].miss /\ slot'[t].quiet = slot[t].quiet
  BY <1>1, <1>3, <1>4, <1>5, <1>9, Zenon DEF PublishedInv, RowsOK
<1>7. \A i \in Tracked : Named(i) => Named(i)'
  BY <1>2, <1>6, Zenon DEF Named
<1>8. \A t \in Slots : Silenced(slot'[t]) => Silenced(slot[t])
  BY <1>6, Zenon DEF Silenced
<1> QED BY <1>2, <1>6, <1>7, <1>8, SlotsServed, Zenon DEF LossInv, ListTyped

LEMMA RegisterAnnounces ==
    ASSUME PublishedInv, PublishedInv', LossInv, NEW p \in Peers, Register(p)
    PROVE  LossInv'
<1> DEFINE s == SlotOf(p)
           id == IdentityOf[p[1]]
           evicted == Rivals(s, id)
<1>1. s \in Slots /\ UNCHANGED <<gen, pending, pendingNever, doomed, tpc, lag, due, raisedNever>>
  BY RegisterNamed, Zenon DEF never, tick
<1>2. CASE DropClient(s) /\ UNCHANGED everRegistered
  BY <1>1, <1>2, DropAnnounces, Zenon
<1>3. CASE Enrolled(s, id, evicted)
  <2>1. id \in Identities
    BY Zenon DEF Peers, Identities
  <2>2. slot[s].id \in {None, id}
    BY RegisterNamed DEF PublishedInv, RowsOK, RowOK
  <2> HIDE DEF s, id, evicted
  <2>3. /\ slot'[s].id = id /\ slot'[s].miss = 0 /\ slot'[s].quiet = 0 /\ ~slot'[s].latched
        /\ evicted \subseteq Slots \ {s} /\ \A t \in evicted : slot'[t] = NoClient /\ slot[t].id = id
    BY <1>1, <1>3, <2>1, EnrolledRows
  <2>4. \A t \in Slots \ {s} : t \notin evicted => slot'[t] = slot[t]
    BY <1>1, <1>3, <2>1, EnrolledRows
  <2>5. NoClient.miss = 0 /\ NoClient.quiet = 0 /\ ~Silenced(NoClient)
    BY Zenon DEF NoClient, Silenced
  <2>6. \A t \in Slots : Silenced(slot'[t]) => Silenced(slot[t])
    BY <2>3, <2>4, <2>5, Zenon DEF Silenced
  <2>7. \A t \in Slots : \/ slot'[t].miss = 0 /\ slot'[t].quiet = 0
                         \/ slot'[t].miss = slot[t].miss /\ slot'[t].quiet = slot[t].quiet
    BY <2>3, <2>4, <2>5, Zenon
  <2>8. told \subseteq told' /\ everRegistered' = everRegistered \cup Loss(id)
    BY <1>3, Zenon DEF Enrolled
  <2>9. ASSUME NEW i \in Tracked, Named(i) PROVE Named(i)'
    <3>1. i # None
      BY NoneIsNone, Zenon
    <3> QED BY <1>1, <2>2, <2>3, <2>4, <2>8, <2>9, <3>1, Zenon DEF Named
  <2>10. \A i \in everRegistered' : i \notin everRegistered => Named(i)'
    BY <1>1, <2>3, <2>8, Zenon DEF Named, Loss
  <2> QED BY <1>1, <2>6, <2>7, <2>8, <2>9, <2>10, SlotsServed, Zenon DEF LossInv, ListTyped
<1> QED BY <1>2, <1>3, RegisterNamed, Zenon

LEMMA AdmitAnnounces ==
    ASSUME PublishedInv, PublishedInv', LossInv, NEW p \in Peers, Admit(p)
    PROVE  LossInv'
<1>1. UNCHANGED <<pending, pendingNever, doomed, tpc, lag, due, raisedNever, everRegistered, told>>
  BY Zenon DEF Admit, never, tick, loop
<1>2. CASE UNCHANGED <<slot, gen, smCache, presence, unusable>>
  BY <1>1, <1>2, SlotsServed, Zenon DEF LossInv, ListTyped, Named
<1>3. ASSUME NEW s \in Slots \ Used,
             slot' = [slot EXCEPT ![s] = [NoClient EXCEPT !.peer = p]], gen' = [gen EXCEPT ![s] = @ + 1]
      PROVE  LossInv'
  <2>1. s \in Slots \ Used
    BY <1>3, Zenon
  <2>2. slot[s] = NoClient
    BY <2>1, Zenon DEF Used, PublishedInv, RowsOK, RowOK
  <2> DEFINE row == [NoClient EXCEPT !.peer = p]
  <2>3. row.id = NoClient.id /\ row.miss = 0 /\ row.quiet = 0 /\ ~row.latched
    BY Zenon DEF NoClient
  <2>4. \A t \in Slots : slot'[t] = IF t = s THEN row ELSE slot[t]
    BY <1>3, Zenon DEF PublishedInv, RowsOK
  <2>5. gen' \in [Slots -> Nat] /\ \A t \in Slots : t # s => gen'[t] = gen[t]
    BY <1>3, <2>1 DEF LossInv, ListTyped
  <2> HIDE DEF row
  <2>6. \A t \in Slots : slot'[t].id = slot[t].id
    BY <2>2, <2>3, <2>4, Zenon
  <2>7. \A t \in Slots : Silenced(slot'[t]) => Silenced(slot[t])
    BY <2>3, <2>4, Zenon DEF Silenced
  <2>8. \A i \in Tracked : Named(i) => Named(i)'
    BY <1>1, <2>6, Zenon DEF Named
  <2>9. \A t \in Slots : \/ slot'[t].miss = 0 /\ slot'[t].quiet = 0
                         \/ slot'[t].miss = slot[t].miss /\ slot'[t].quiet = slot[t].quiet
    BY <2>3, <2>4, Zenon
  <2>10. \A t \in Slots : gen'[t] # gen[t] => slot'[t].miss = 0 /\ slot'[t].quiet = 0 /\ ~Silenced(slot'[t])
    BY <2>1, <2>3, <2>4, <2>5, Zenon DEF Silenced
  <2> QED BY <1>1, <2>5, <2>7, <2>8, <2>9, <2>10, SlotsServed, Zenon
<1> QED BY <1>2, <1>3, Zenon DEF Admit, Clear

LEMMA PendingAnnounces ==
    ASSUME PublishedInv, PublishedInv', LossInv, ProcessPendingDisconnects
    PROVE  LossInv'
<1> DEFINE gone == {s \in Used : <<s, gen[s]>> \in pending}
<1>1. /\ slot' = [s \in Slots |-> IF s \in gone THEN NoClient ELSE slot[s]]
      /\ told' = told \cup pendingNever \cup UNION {Loss(slot[s].id) : s \in gone}
      /\ pending' = {} /\ pendingNever' = {} /\ lag' = 0
      /\ UNCHANGED <<gen, everRegistered, due, raisedNever, doomed, tpc>>
  <2>1. gone = {} => slot = [s \in Slots |-> IF s \in gone THEN NoClient ELSE slot[s]]
    <3> HIDE DEF gone
    <3> QED BY Zenon DEF PublishedInv, RowsOK
  <2> QED BY <2>1, Zenon DEF ProcessPendingDisconnects, Clear, tick
<1>2. ListTyped' /\ DueCovered' /\ Outlived'
  BY <1>1, Zenon DEF LossInv, ListTyped, DueCovered, Outlived
<1>3. Ticking'
  BY <1>1, RpcAssumption DEF LossInv, Ticking
<1>4. Known'
  <2> SUFFICES ASSUME NEW i \in everRegistered \cup raisedNever
               PROVE  Named(i)'
    BY <1>1, Zenon DEF Known
  <2>1. i \in Tracked /\ Named(i)
    BY RpcAssumption, Zenon DEF PublishedInv, MaskTyped, LossInv, Known
  <2>2. CASE i \in told \cup pendingNever
    BY <1>1, <2>2, Zenon DEF Named
  <2>3. ASSUME NEW s \in Slots, slot[s].id = i PROVE Named(i)'
    <3>1. CASE s \in gone
      <4>1. i \in Loss(slot[s].id)
        BY <2>1, <2>3, Zenon DEF Loss
      <4> HIDE DEF gone
      <4> QED BY <1>1, <3>1, <4>1, Zenon DEF Named
    <3>2. CASE s \notin gone
      <4> HIDE DEF gone
      <4> QED BY <1>1, <2>3, <3>2, Zenon DEF Named
    <3> QED BY <3>1, <3>2, Zenon
  <2> QED BY <2>1, <2>2, <2>3, Zenon DEF Named
<1>5. Leaving'
  <2> SUFFICES ASSUME NEW s \in Slots, Silenced(slot'[s])
               PROVE  s \in doomed
    BY <1>1, Zenon DEF Leaving, LeavingSoon
  <2>1. ~Silenced(NoClient)
    BY Zenon DEF Silenced, NoClient
  <2>2. s \notin gone /\ slot'[s] = slot[s] /\ Silenced(slot[s])
    <3> HIDE DEF gone
    <3> QED BY <1>1, <2>1, Zenon
  <2>3. SUFFICES ASSUME s \notin doomed PROVE FALSE
    BY Zenon
  <2>4. PICK e \in pending : e[1] = s
    BY <2>2, <2>3, Zenon DEF LossInv, Leaving, LeavingSoon
  <2>5. e[2] = gen[s]
    BY <2>2, <2>4, Zenon DEF LossInv, Outlived
  <2>6. e = <<s, gen[s]>>
    <3>1. e \in Slots \X Nat
      BY <2>4, Zenon DEF LossInv, ListTyped
    <3> QED BY <2>4, <2>5, <3>1
  <2>7. s \in Used
    BY <2>2 DEF Used, Silenced, PublishedInv, RowsOK, RowOK, NoClient
  <2> QED BY <2>2, <2>4, <2>6, <2>7, Zenon
<1> QED BY <1>2, <1>3, <1>4, <1>5, Zenon DEF LossInv

LEMMA ScanAnnounces ==
    ASSUME PublishedInv, PublishedInv', LossInv, TickScan
    PROVE  LossInv'
<1>1. PICK stale : Scanned(stale)
  BY ScanNamed, Zenon
<1>2. /\ tpc = "idle" /\ lag < MaxTicksPerLoop /\ tpc' = "required" /\ lag' = lag + 1
      /\ UNCHANGED <<gen, everRegistered, due, raisedNever, pendingNever, pending, told>>
  BY Zenon DEF TickScan, never
<1>3. lag \in Nat /\ MaxTicksPerLoop \in Nat /\ MaxTicksPerLoop <= MaxHbFailures /\ MaxHbFailures \in Nat
  BY RpcAssumption, Zenon DEF LossInv, ListTyped
<1>4. stale \subseteq Slots /\ doomed' = {s \in stale : slot'[s].latched}
  BY <1>1, Zenon DEF Scanned
<1>5. ListTyped' /\ Ticking' /\ DueCovered'
  BY <1>2, <1>3, <1>4 DEF LossInv, ListTyped, Ticking, DueCovered
<1>6. \A s \in Slots : slot'[s].id = slot[s].id
  BY <1>1, ScannedRows, Zenon
<1>7. Known'
  BY <1>2, <1>6, Zenon DEF LossInv, Known, Named
<1>8. Leaving'
  <2> SUFFICES ASSUME NEW s \in Slots, Silenced(slot'[s]) PROVE LeavingSoon(s)'
    BY Zenon DEF Leaving
  <2>1. CASE s \in stale
    BY <1>4, <2>1, Zenon DEF Silenced, LeavingSoon
  <2>2. CASE s \notin stale
    <3>1. Silenced(slot[s])
      BY <1>1, <1>6, <2>2, ScannedRows, Zenon DEF Silenced
    <3>2. LeavingSoon(s) /\ doomed = {}
      BY <1>2, <3>1, Zenon DEF LossInv, Leaving, Ticking
    <3> QED BY <1>2, <3>2, Zenon DEF LeavingSoon
  <2> QED BY <2>1, <2>2, Zenon
<1>9. Outlived'
  <2> SUFFICES ASSUME NEW e \in pending, e[2] # gen[e[1]]
               PROVE  Young(slot[e[1]])' /\ ~Silenced(slot'[e[1]])
    BY <1>2, Zenon DEF Outlived
  <2> DEFINE s == e[1]
             c == slot[s]
  <2>1. s \in Slots /\ Young(c) /\ ~Silenced(c)
    BY Zenon DEF LossInv, ListTyped, Outlived
  <2>2. c \in Rows /\ c.miss \in Nat /\ slot'[s] \in Rows
    BY <1>1, <2>1, ScannedRows, Zenon DEF Rows
  <2> HIDE DEF s
  <2>3. CASE s \notin stale
    <3>1. slot'[s].miss = c.miss /\ slot'[s].latched = c.latched /\ slot'[s].id = c.id
      BY <1>1, <2>1, <2>3, ScannedRows, Zenon
    <3>2. c.miss + 1 <= lag + 1
      BY <1>3, <2>1, <2>2 DEF Young
    <3> QED BY <1>2, <2>1, <3>1, <3>2, Zenon DEF Young, Silenced, s
  <2>4. CASE s \in stale
    <3>1. slot'[s] = Quieter(Missed(c)) /\ c.quiet >= 1
      BY <1>1, <2>1, <2>4, ScannedRows, Zenon DEF Scanned, MayBeStale
    <3>2. c.miss + 1 <= lag
      BY <2>1, <3>1 DEF Young
    <3>3. Missed(c) \in Rows
      BY <2>2, MissedRow, Zenon
    <3>4. slot'[s].miss = Missed(c).miss /\ slot'[s].latched = Missed(c).latched /\ slot'[s].id = Missed(c).id
      BY <3>1, <3>3, QuieterRow
    <3>5. CASE c.id = None
      <4>1. slot'[s].miss = c.miss /\ slot'[s].id = None
        BY <2>2, <3>4, <3>5, MissedRow, Zenon
      <4>2. slot'[s].miss + 1 <= lag'
        BY <1>2, <1>3, <2>2, <3>2, <4>1
      <4> QED BY <4>1, <4>2, Zenon DEF Young, Silenced, s
    <3>6. CASE c.id # None
      <4>1. slot'[s].miss = c.miss + 1 /\ slot'[s].latched = (c.miss + 1 >= MaxHbFailures)
        BY <2>2, <3>4, <3>6, MissedRow, Zenon
      <4>2. slot'[s].miss + 1 <= lag' /\ ~(c.miss + 1 >= MaxHbFailures)
        BY <1>2, <1>3, <2>2, <3>2, <4>1
      <4> QED BY <4>1, <4>2, Zenon DEF Young, Silenced, s
    <3> QED BY <3>5, <3>6, Zenon
  <2> QED BY <2>3, <2>4, Zenon
<1> QED BY <1>5, <1>7, <1>8, <1>9, Zenon DEF LossInv

LEMMA TickAnnounces ==
    ASSUME PublishedInv, LossInv, TickRequired \/ TickEnqueue
    PROVE  LossInv'
<1>1. CASE TickRequired
  <2>1. /\ UNCHANGED <<slot, gen, everRegistered, pending, doomed, lag, told>>
        /\ tpc' = "enqueue"
    BY <1>1, Zenon DEF TickRequired, loop
  <2>2. PICK over \in BOOLEAN :
         /\ (Required # {} /\ due) => over
         /\ over => Required # {}
         /\ due' = (due \/ over)
         /\ raisedNever' = raisedNever \cup (IF over THEN (Required \ everRegistered) \ raisedNever ELSE {})
         /\ pendingNever' = pendingNever \cup (IF over THEN (Required \ everRegistered) \ raisedNever ELSE {})
    BY <1>1, Zenon DEF TickRequired
  <2>3. ListTyped' /\ Ticking' /\ Leaving' /\ Outlived'
    BY <2>1, Zenon DEF LossInv, ListTyped, Ticking, Leaving, LeavingSoon, Outlived, Young
  <2>4. DueCovered'
    BY <2>1, <2>2, Zenon DEF LossInv, DueCovered
  <2>5. Known'
    BY <2>1, <2>2, Zenon DEF LossInv, Known, Named
  <2> QED BY <2>3, <2>4, <2>5, Zenon DEF LossInv
<1>2. CASE TickEnqueue
  <2>1. /\ UNCHANGED <<slot, gen, everRegistered, raisedNever, pendingNever, due, lag, told>>
        /\ pending' = pending \cup {<<s, gen[s]>> : s \in {t \in doomed : \A e \in pending : e[1] # t}}
        /\ doomed' = {}
    BY <1>2, Zenon DEF TickEnqueue, loop, masks, never
  <2>2. ListTyped' /\ Ticking' /\ DueCovered' /\ Known'
    BY <2>1 DEF LossInv, ListTyped, Ticking, DueCovered, Known, Named
  <2>3. Leaving'
    <3> SUFFICES ASSUME NEW s \in Slots, Silenced(slot[s])
                 PROVE  \E e \in pending' : e[1] = s
      BY <2>1, Zenon DEF Leaving, LeavingSoon
    <3>1. CASE \E e \in pending : e[1] = s
      BY <2>1, <3>1, Zenon
    <3>2. CASE \A e \in pending : e[1] # s
      <4>1. s \in doomed
        BY <3>2, Zenon DEF LossInv, Leaving, LeavingSoon
      <4>2. <<s, gen[s]>> \in pending'
        BY <2>1, <3>2, <4>1, Zenon
      <4> QED BY <4>2, Zenon
    <3> QED BY <3>1, <3>2, Zenon
  <2>4. Outlived'
    <3> SUFFICES ASSUME NEW e \in pending', e[2] # gen[e[1]]
                 PROVE  Young(slot[e[1]]) /\ ~Silenced(slot[e[1]])
      BY <2>1, Zenon DEF Outlived, Young
    <3>1. e \in pending
      BY <2>1
    <3> QED BY <3>1, Zenon DEF LossInv, Outlived
  <2> QED BY <2>2, <2>3, <2>4, Zenon DEF LossInv
<1> QED BY <1>1, <1>2, Zenon

-----------------------------------------------------------------------------
(* Every step. *)

LEMMA LossStands ==
    ASSUME LossInv, UNCHANGED server
    PROVE  LossInv'
  BY Zenon DEF LossInv, server, masks, never, tick, loop, ListTyped, Known, Named, DueCovered, Leaving, LeavingSoon, Outlived, Young, Ticking

RpcInv == PublishedInv /\ CallInv /\ LossInv /\ SuccessGenuine

LEMMA RpcStarts == Init => RpcInv
<1> SUFFICES ASSUME Init PROVE RpcInv
  BY Zenon
<1>1. /\ slot = [s \in Slots |-> NoClient] /\ gen = [s \in Slots |-> 0] /\ smCache = NoMonitor
      /\ presence = {} /\ expected = {} /\ everRegistered = {} /\ everPresent = {}
      /\ unusable = {} /\ due = FALSE /\ raisedNever = {}
      /\ pending = {} /\ tpc = "idle" /\ doomed = {} /\ lag = 0
      /\ requests = [p \in Peers |-> <<>>] /\ responses = [p \in Peers |-> <<>>]
  BY Zenon DEF Init, RpcInit, RpcStart
<1>2. WireTyped /\ MaskTyped
  <2>1. <<>> \in Seq(Messages) /\ <<>> \in Seq(Answers)
    OBVIOUS
  <2> QED BY <1>1, <2>1, Zenon DEF WireTyped, MaskTyped
<1>3. \A s \in Slots : slot[s] = NoClient
  BY <1>1, Zenon
<1>4. /\ NoClient.id = None /\ ~NoClient.latched /\ ~NoClient.raised /\ NoClient.peer = NoPeer
      /\ NoClient.id \notin Tracked /\ NoClient.id \notin Singletons /\ NoClient.id # "SM"
  BY NoneIsNone, Zenon DEF NoClient
<1>5. RowsOK
  BY <1>1, <1>3, <1>4, NoClientRow, Zenon DEF RowsOK, RowOK
<1>6. Alone /\ Monitored
  BY <1>1, <1>3, <1>4, Zenon DEF Alone, Monitored
<1>7. Derived
  <2>1. PresenceOf(slot) = {} /\ UnusableOf(slot) = {}
    BY <1>3, <1>4, Zenon DEF PresenceOf, UnusableOf
  <2> QED BY <1>1, <2>1, Zenon DEF Derived, ExpectedOf
<1>8. PublishedInv
  BY <1>2, <1>5, <1>6, <1>7, Zenon DEF PublishedInv
<1>9. /\ client = [c \in Clients |-> [conn |-> 0, state |-> "down", kind |-> None, n |-> 0, ahead |-> 0, fails |-> 0]]
      /\ misled = FALSE
  BY Zenon DEF Init, ClientInit
<1>10. ClientTyped
  <2>1. [conn |-> 0, state |-> "down", kind |-> None, n |-> 0, ahead |-> 0, fails |-> 0] \in Processes
    BY RpcAssumption, ClientAssumption DEF Processes, Kinds, Numbers
  <2> QED BY <1>9, <2>1, Zenon DEF ClientTyped
<1>11. Fresh /\ Opened /\ Lines
  BY <1>1, <1>9, Zenon DEF Fresh, Opened, Lines, Live, Peers
<1>12. LossInv
  BY <1>1, <1>3, <1>4, RpcAssumption DEF LossInv, ListTyped, Known, DueCovered, Leaving, Silenced, Outlived, Ticking
<1> QED BY <1>2, <1>8, <1>9, <1>10, <1>11, <1>12, Zenon DEF RpcInv, CallInv, SuccessGenuine

LEMMA ClientKeeps ==
    ASSUME RpcInv, ClientNext
    PROVE  RpcInv'
<1>1. PICK c \in Clients : Connect(c) \/ SendHeartbeat(c) \/ ReportSafetyEvent(c) \/ TerminateClient(c)
                           \/ Receive(c) \/ GiveUp(c) \/ Crash(c)
  BY Zenon DEF ClientNext
<1>2. NextNumber(c) \in Nat
  BY ClientAssumption DEF RpcInv, CallInv, ClientTyped, Processes, Numbers, NextNumber
<1> USE DEF RpcInv
<1>3. CASE Connect(c)
  <2>1. CallInv' /\ WireTyped'
    BY <1>3, ConnectKeeps, Zenon DEF CallInv
  <2>2. UNCHANGED <<slot, gen, smCache, masks, inputs, never, pending, tick, loop, told, misled>>
    BY <1>3, Zenon DEF Connect
  <2>3. PublishedInv'
    BY <2>1, <2>2, ServerStands, Zenon DEF inputs, never
  <2>4. LossInv'
    BY <2>2, Zenon DEF LossInv, masks, never, tick, loop, ListTyped, Known, Named, DueCovered, Leaving, LeavingSoon, Outlived, Young, Ticking
  <2> QED BY <2>1, <2>2, <2>3, <2>4, Zenon DEF SuccessGenuine
<1>4. ASSUME UNCHANGED server, CallInv', SuccessGenuine' PROVE RpcInv'
  <2>1. UNCHANGED <<slot, smCache, masks, unusable, due, raisedNever>>
    BY <1>4, Zenon DEF server, inputs, never
  <2>2. PublishedInv'
    BY <1>4, <2>1, ServerStands, Zenon DEF CallInv
  <2> QED BY <1>4, <2>2, LossStands, Zenon
<1>5. ASSUME NEW m \in Messages, m.kind # "register", m.n = NextNumber(c), Call(c, m) PROVE RpcInv'
  <2>1. CallInv'
    BY <1>5, CallKeeps, Zenon
  <2> QED BY <1>4, <1>5, <2>1, Zenon DEF Call, SuccessGenuine
<1>6. CASE SendHeartbeat(c)
  <2>1. [kind |-> "heartbeat", n |-> NextNumber(c)] \in Messages
    BY <1>2, Zenon DEF Messages
  <2> QED BY <1>5, <1>6, <2>1, Zenon DEF SendHeartbeat
<1>7. CASE TerminateClient(c)
  <2>1. [kind |-> "terminate", n |-> NextNumber(c)] \in Messages
    BY <1>2, Zenon DEF Messages
  <2> QED BY <1>5, <1>7, <2>1, Zenon DEF TerminateClient
<1>8. CASE ReportSafetyEvent(c)
  <2>1. PICK r \in Reports : Call(c, [kind |-> "report", n |-> NextNumber(c), report |-> r])
    BY <1>8, Zenon DEF ReportSafetyEvent
  <2>2. [kind |-> "report", n |-> NextNumber(c), report |-> r] \in Messages
    BY <1>2, Zenon DEF Messages
  <2> QED BY <1>5, <2>1, <2>2, Zenon
<1>9. client[c] \in Processes /\ client[c].kind \in Kinds /\ client[c].n \in Numbers
  BY Zenon DEF CallInv, ClientTyped, Processes
<1>10. CASE Receive(c)
  <2> DEFINE r == Head(responses[Peer(c)])
             good == Matches(c, r) /\ r.ok
  <2>1. /\ client[c].state = "waiting" /\ responses[Peer(c)] # <<>> /\ UNCHANGED server
        /\ Return(c, client[c].kind, client[c].n, good, Tail(responses[Peer(c)]))
        /\ misled' = (misled \/ (good /\ client[c].ahead # 0))
    BY <1>10, Zenon DEF Receive
  <2>2. Peer(c) \in Peers
    BY <2>1, PeerKnown, Zenon DEF CallInv
  <2>3. responses[Peer(c)] \in Seq(Answers) /\ requests[Peer(c)] \in Seq(Messages)
    BY <2>2, Zenon DEF CallInv, WireTyped
  <2>4. Tail(responses[Peer(c)]) \in Seq(Answers)
    BY <2>1, <2>3
  <2>8. Lined(requests[Peer(c)], responses[Peer(c)], client[c])
    BY <2>1, Zenon DEF CallInv, Lines, Live
  <2>9. \A y : y.n = client[c].n /\ y.state # "waiting" => Lined(requests[Peer(c)], Tail(responses[Peer(c)]), y)
    BY <2>1, <2>3, <2>8, LineRead, Zenon
  <2>5. CallInv'
    <3> HIDE DEF good
    <3> QED BY <1>9, <2>1, <2>4, <2>9, ReturnedCalls, Zenon
  <2>6. good => client[c].ahead = 0
    <3>1. good => client[c].kind = "register" \/ r.n = client[c].n
      BY Zenon DEF Matches
    <3> HIDE DEF good
    <3> QED BY <1>9, <2>1, <2>3, <2>8, <3>1, OwnAnswer, Zenon
  <2>7. SuccessGenuine'
    <3> HIDE DEF good, r
    <3> QED BY <2>1, <2>6, Zenon DEF SuccessGenuine
  <2> QED BY <1>4, <2>1, <2>5, <2>7, Zenon
<1>11. CASE GiveUp(c)
  <2>1. client[c].state = "waiting" /\ Return(c, client[c].kind, client[c].n, FALSE, responses[Peer(c)]) /\ UNCHANGED <<server, misled>>
    BY <1>11, Zenon DEF GiveUp
  <2>2. Peer(c) \in Peers
    BY <2>1, PeerKnown, Zenon DEF CallInv
  <2>3. responses[Peer(c)] \in Seq(Answers) /\ requests[Peer(c)] \in Seq(Messages)
    BY <2>2, Zenon DEF CallInv, WireTyped
  <2>5. Lined(requests[Peer(c)], responses[Peer(c)], client[c])
    BY <2>1, Zenon DEF CallInv, Lines, Live
  <2>6. \A y : y.n = client[c].n /\ y.state # "waiting" => Lined(requests[Peer(c)], responses[Peer(c)], y)
    BY <2>3, <2>5, LineRead, Zenon
  <2>4. CallInv'
    BY <1>9, <2>1, <2>3, <2>6, ReturnedCalls, Zenon
  <2> QED BY <1>4, <2>1, <2>4, Zenon DEF SuccessGenuine
<1>12. CASE Crash(c)
  <2>1. CallInv'
    BY <1>12, ClosedCalls, Zenon DEF Crash
  <2> QED BY <1>4, <1>12, <2>1, Zenon DEF Crash, SuccessGenuine
<1> QED BY <1>1, <1>3, <1>6, <1>7, <1>8, <1>10, <1>11, <1>12, Zenon

LEMMA ServerKeeps ==
    ASSUME RpcInv, ServerNext \/ TickNext, UNCHANGED clientVars
    PROVE  RpcInv'
<1> USE DEF RpcInv
<1>1. UNCHANGED client /\ SuccessGenuine'
  BY Zenon DEF clientVars, SuccessGenuine
<1>2. ASSUME UNCHANGED <<requests, responses, open>>, cut \subseteq cut' PROVE CallInv'
  BY <1>1, <1>2, WireStands, Zenon
<1>3. CASE ProcessPendingDisconnects
  <2>1. PublishedInv' /\ LossInv'
    BY <1>3, PendingPublishes, PendingAnnounces, Zenon
  <2> QED BY <1>1, <1>2, <1>3, <2>1, Zenon DEF ProcessPendingDisconnects
<1>4. CASE LoopAgain
  <2>1. UNCHANGED <<requests, responses, open, cut, slot, gen, smCache, masks, unusable, never, pending, tick, lag, told>>
    BY <1>4, Zenon DEF LoopAgain, wire, inputs
  <2>2. CallInv' /\ WireTyped'
    BY <1>2, <2>1, Zenon DEF CallInv
  <2>3. PublishedInv'
    BY <2>1, <2>2, ServerStands, Zenon DEF never
  <2>4. LossInv'
    BY <2>1, Zenon DEF LossInv, masks, never, tick, ListTyped, Known, Named, DueCovered, Leaving, LeavingSoon, Outlived, Young, Ticking
  <2> QED BY <1>1, <2>2, <2>3, <2>4, Zenon
<1>5. CASE TickNext
  <2>1. UNCHANGED <<requests, responses, open, cut>>
    BY <1>5, Zenon DEF TickNext, TickScan, TickRequired, TickEnqueue, wire
  <2>2. CallInv' /\ WireTyped'
    BY <1>2, <2>1, Zenon DEF CallInv
  <2>3. CASE TickScan
    BY <1>1, <2>2, <2>3, ScanPublishes, ScanAnnounces, Zenon
  <2>4. CASE TickRequired
    BY <1>1, <2>2, <2>4, RequiredPublishes, TickAnnounces, Zenon
  <2>5. CASE TickEnqueue
    <3>1. UNCHANGED <<slot, smCache, masks, unusable, due, raisedNever>>
      BY <2>5, Zenon DEF TickEnqueue, inputs, never
    <3> QED BY <1>1, <2>2, <2>5, <3>1, ServerStands, TickAnnounces, Zenon
  <2> QED BY <1>5, <2>3, <2>4, <2>5, Zenon DEF TickNext
<1>6. ASSUME NEW p \in Peers, Admit(p) PROVE RpcInv'
  <2>1. CallInv'
    BY <1>2, <1>6, Zenon DEF Admit
  <2> QED BY <1>1, <1>6, <2>1, AdmitPublishes, AdmitAnnounces, Zenon
<1>7. ASSUME NEW p \in Peers, PeerGone(p) PROVE RpcInv'
  <2>1. CallInv' /\ PublishedInv'
    BY <1>1, <1>7, GoneKeeps, DropPublishes, Zenon
  <2>2. /\ HasSlot(p) /\ DropClient(SlotOf(p))
        /\ UNCHANGED <<gen, pending, pendingNever, doomed, tpc, lag, due, raisedNever, everRegistered>>
    BY <1>7, Zenon DEF PeerGone, never, tick, loop
  <2> QED BY <1>1, <2>1, <2>2, SlotFound, DropAnnounces, Zenon
<1>8. ASSUME NEW p \in Peers, Terminate(p) PROVE RpcInv'
  <2>1. /\ Take(p, "terminate") /\ Answer(p, [n |-> Head(requests[p]).n, ok |-> TRUE]) /\ DropClient(SlotOf(p))
        /\ UNCHANGED <<gen, pending, pendingNever, doomed, tpc, lag, due, raisedNever, everRegistered, open>>
        /\ cut \subseteq cut'
    BY <1>8, Zenon DEF Terminate, DropClient, never, tick
  <2>2. CallInv' /\ PublishedInv'
    BY <1>1, <1>8, <2>1, ServedKeeps, DropPublishes, Zenon
  <2>3. HasSlot(p)
    BY <2>1, Zenon DEF Take
  <2> QED BY <1>1, <2>1, <2>2, <2>3, SlotFound, DropAnnounces, Zenon
<1>9. ASSUME NEW p \in Peers, Heartbeat(p) PROVE RpcInv'
  <2>1. Take(p, "heartbeat") /\ Answer(p, [n |-> Head(requests[p]).n, ok |-> TRUE]) /\ UNCHANGED <<open, cut>>
    BY <1>9, Zenon DEF Heartbeat
  <2> QED BY <1>1, <1>9, <2>1, ServedKeeps, HeartbeatPublishes, HeartbeatAnnounces, Zenon
<1>10. ASSUME NEW p \in Peers, Register(p) PROVE RpcInv'
  <2>1. /\ Take(p, "register") /\ \E ok \in BOOLEAN : Answer(p, [n |-> Head(requests[p]).n, ok |-> ok])
        /\ UNCHANGED open
    BY <1>10, Zenon DEF Register, AcceptRegistration
  <2>2. cut \subseteq cut'
    BY <1>10, Zenon DEF Register, DropClient
  <2> QED BY <1>1, <1>10, <2>1, <2>2, ServedKeeps, RegisterPublishes, RegisterAnnounces, Zenon
<1>11. ASSUME NEW p \in Peers, Report(p) PROVE RpcInv'
  <2>1. /\ Take(p, "report") /\ \E ok \in BOOLEAN : Answer(p, [n |-> Head(requests[p]).n, ok |-> ok])
        /\ UNCHANGED open /\ cut \subseteq cut'
    BY <1>11, Zenon DEF Report
  <2> QED BY <1>1, <1>11, <2>1, ServedKeeps, ReportPublishes, ReportAnnounces, Zenon
<1> QED BY <1>3, <1>4, <1>5, <1>6, <1>7, <1>8, <1>9, <1>10, <1>11, Zenon DEF ServerNext

LEMMA RpcStands ==
    ASSUME RpcInv, UNCHANGED vars
    PROVE  RpcInv'
<1>1. UNCHANGED server /\ UNCHANGED <<requests, responses, open, cut, client, misled>>
  BY Zenon DEF vars, rpcVars, server, wire, clientVars
<1>2. LossInv'
  BY <1>1, LossStands, Zenon DEF RpcInv
<1>3. CallInv' /\ SuccessGenuine'
  BY <1>1, WireStands, Zenon DEF RpcInv, SuccessGenuine
<1>4. PublishedInv'
  BY <1>1, <1>3, ServerStands, Zenon DEF RpcInv, CallInv, server, inputs, never
<1> QED BY <1>2, <1>3, <1>4, Zenon DEF RpcInv

LEMMA RpcHolds == RpcSpec => []RpcInv
<1>1. RpcInv /\ [RpcNext]_vars => RpcInv'
  BY ClientKeeps, ServerKeeps, RpcStands, Zenon DEF RpcNext
<1> QED BY <1>1, RpcStarts, PTL DEF RpcSpec

(* The status report is exact: at every moment the presence mask, the       *)
(* expected mask, the unusable inputs and the Safety Monitor's misses are   *)
(* what the slots say (recomputePresenceMaskLocked and its callers), and    *)
(* no two connected clients hold one singleton identity, for any number of  *)
(* clients, slots and connections.                                          *)
THEOREM StatusIsExact == RpcSpec => [](PublishedExact /\ OneHolder)
<1>1. RpcInv => PublishedExact /\ OneHolder
  BY Exact, Zenon DEF RpcInv
<1> QED BY <1>1, RpcHolds, PTL

(* No silent absence: a source PSS expects and does not see has been        *)
(* announced lost, or is about to be (dropClient, processPendingDisconnects,*)
(* the required sources of the tick).                                       *)
THEOREM NoSilentAbsence == RpcSpec => []LossAnnounced
<1>1. RpcInv => LossAnnounced
  BY Announced, Zenon DEF RpcInv
<1> QED BY <1>1, RpcHolds, PTL

(* A call of the client library that returns success was answered itself: a *)
(* late answer to an earlier call is never taken for it, although msgCounter*)
(* wraps, as long as fewer calls are under way than it has values.          *)
THEOREM SuccessIsGenuine == RpcSpec => []SuccessGenuine
<1>1. RpcInv => SuccessGenuine
  BY Zenon DEF RpcInv
<1> QED BY <1>1, RpcHolds, PTL
=============================================================================
