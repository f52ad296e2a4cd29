----------------------------- MODULE DaemonProofs -----------------------------
(***************************************************************************)
(* Proofs about the PSS daemon, and about the numbered acknowledgments of  *)
(* the PLC, which rest on the same argument as its link to PSD.            *)
(*                                                                         *)
(* The trust verdicts: no verdict about a camera or the AI pipeline is     *)
(* lost between the report and the SDM, and none is withdrawn unearned.    *)
(* What stands in the two lanes, the dispatcher's queue and the RPC queue, *)
(* read in order, ends in the truth for every source (TrustInv).           *)
(*                                                                         *)
(* The fusion fault: FaultHeld and FaultReleased for any number of threads,*)
(* stages and thresholds.  FaultHeld is not inductive: the clear needs to  *)
(* know that a stage found healthy while edgeMutex_ was held is still not  *)
(* past its threshold, or is waiting for the mutex to raise.  Nor is       *)
(* FaultReleased: a fault that is up must be somebody's to clear, a        *)
(* failing stage's when it succeeds or a thread's that is on its way to    *)
(* the all-healthy loop.                                                   *)
(*                                                                         *)
(* The acknowledgments of the PLC: an acknowledgment is matched only with  *)
(* the command it answers, as long as fewer commands than sequence numbers *)
(* are on their way (AckInv).                                              *)
(*                                                                         *)
(* The link between PSS and PSD: an answer is taken only by the call       *)
(* that asked, because the numbers of the calls in the air differ and the  *)
(* answers of a lost connection are lost with it (LinkInv).                *)
(***************************************************************************)
EXTENDS TrustVerdicts, FusionHealth, PlcAcks, PsdLink, TLAPS

-----------------------------------------------------------------------------
(* Acknowledgments. *)

(* Two commands with one number are at least a round of the counter apart. *)
LEMMA SameNumber ==
    ASSUME NEW i \in Nat, NEW k \in Nat, i < k, NextCommandSeq(i) = NextCommandSeq(k)
    PROVE  k - i >= SeqMod
<1> DEFINE qi == i \div SeqMod
           qk == k \div SeqMod
           r == i % SeqMod
<1>1. SeqMod \in Nat \ {0}
  BY AckAssumption, Zenon
<1>2. qi \in Int /\ qk \in Int /\ r \in Int /\ i = SeqMod * qi + r /\ k = SeqMod * qk + (k % SeqMod)
  BY <1>1
<1>3. k = SeqMod * qk + r
  BY <1>2, Zenon DEF NextCommandSeq
<1> HIDE DEF qi, qk, r
<1>4. SeqMod * (qk - qi) = k - i
  BY <1>1, <1>2, <1>3
<1>5. qk - qi >= 1
  <2> SUFFICES ASSUME qk - qi <= 0 PROVE FALSE
    BY <1>2
  <2>1. SeqMod * (qk - qi) <= 0
    BY <1>1, <1>2
  <2> QED BY <1>4, <2>1
<1>6. SeqMod * (qk - qi) >= SeqMod
  BY <1>1, <1>2, <1>5
<1> QED BY <1>4, <1>6, Zenon

Entry(s) == pendingCommands[s] # NoCommandStatus

(* An entry is of a command that was sent under its number.  A packet under *)
(* way, or its acknowledgment, is at most a round of the counter old, and   *)
(* what stands under its number is not older than it.                       *)
AckInv ==
    /\ cmdSeqNo \in Nat
    /\ pendingCommands = [s \in 0..(SeqMod - 1) |-> pendingCommands[s]]
    /\ \A s \in 0..(SeqMod - 1) : Entry(s) =>
         /\ {"nth", "acked", "cmd"} \subseteq DOMAIN pendingCommands[s]
         /\ pendingCommands[s].nth \in Nat /\ pendingCommands[s].nth < cmdSeqNo
         /\ NextCommandSeq(pendingCommands[s].nth) = s
         /\ pendingCommands[s].acked => pendingCommands[s].nth \in arrived
    /\ \A p \in wire \cup answers :
         /\ p.nth \in Nat /\ p.nth < cmdSeqNo /\ cmdSeqNo - p.nth <= SeqMod
         /\ p.seq = NextCommandSeq(p.nth) /\ p.seq \in 0..(SeqMod - 1)
         /\ p.cmd # "HEARTBEAT" /\ Entry(p.seq) => p.nth <= pendingCommands[p.seq].nth
    /\ \A a \in answers : a.cmd # "HEARTBEAT" /\ a.nth \in arrived

LEMMA NumberRange == ASSUME NEW n \in Nat PROVE NextCommandSeq(n) \in 0..(SeqMod - 1)
  BY AckAssumption DEF NextCommandSeq

(* The entry under the number of an acknowledgment is that of its command. *)
LEMMA SameCommand ==
    ASSUME AckInv, NEW a \in answers, Entry(a.seq)
    PROVE  pendingCommands[a.seq].nth = a.nth
<1> DEFINE n == pendingCommands[a.seq].nth
<1>1. /\ n \in Nat /\ n < cmdSeqNo /\ NextCommandSeq(n) = NextCommandSeq(a.nth)
      /\ a.nth \in Nat /\ cmdSeqNo \in Nat /\ cmdSeqNo - a.nth <= SeqMod /\ a.nth <= n
  BY Zenon DEF AckInv
<1> HIDE DEF n
<1>2. a.nth < n => n - a.nth >= SeqMod
  BY <1>1, SameNumber, Zenon
<1>3. n = a.nth
  BY <1>1, <1>2, AckAssumption
<1> QED BY <1>3, Zenon DEF n

LEMMA SendKeeps ==
    ASSUME AckInv, NEW cmd, SendDecisionCommand(cmd)
    PROVE  AckInv'
<1> DEFINE seq == NextCommandSeq(cmdSeqNo)
           packet == [seq |-> seq, cmd |-> cmd, nth |-> cmdSeqNo]
           entry == [cmd |-> cmd, at |-> second, acked |-> FALSE, nth |-> cmdSeqNo]
<1>1. cmdSeqNo \in Nat /\ cmdSeqNo' = cmdSeqNo + 1 /\ arrived' = arrived /\ seq \in 0..(SeqMod - 1)
  BY NumberRange, Zenon DEF SendDecisionCommand, AckInv
<1>2. answers' \subseteq answers /\ wire' \subseteq wire \cup {packet}
  BY Zenon DEF SendDecisionCommand, Recent
<1>3. \A p \in wire' \cup answers' : p = packet \/ (p \in wire \cup answers /\ cmdSeqNo - p.nth < SeqMod)
  BY Zenon DEF SendDecisionCommand, Recent
<1>4. \/ pendingCommands' = pendingCommands /\ (packet \in wire' => cmd = "HEARTBEAT")
      \/ pendingCommands' = [pendingCommands EXCEPT ![seq] = entry]
      \/ pendingCommands' = [pendingCommands EXCEPT ![seq] = NoCommandStatus]
  <2>1. CASE cmd = "HEARTBEAT"
    BY <2>1, Zenon DEF SendDecisionCommand
  <2>2. CASE cmd # "HEARTBEAT"
    BY <2>2, Zenon DEF SendDecisionCommand
  <2> QED BY <2>1, <2>2, Zenon
<1>5. \A s \in 0..(SeqMod - 1) :
         \/ pendingCommands'[s] = pendingCommands[s] /\ (s = seq /\ packet \in wire' => cmd = "HEARTBEAT")
         \/ s = seq /\ pendingCommands'[s] \in {entry, NoCommandStatus}
  BY <1>1, <1>4, Zenon DEF AckInv
<1>6. pendingCommands' = [s \in 0..(SeqMod - 1) |-> pendingCommands'[s]]
  BY <1>4, Zenon DEF AckInv
<1>7. packet.seq = seq /\ packet.cmd = cmd /\ packet.nth = cmdSeqNo
  BY Zenon
<1>8. DOMAIN entry = {"cmd", "at", "acked", "nth"} /\ entry.nth = cmdSeqNo /\ ~entry.acked
  BY Zenon
<1>9. NextCommandSeq(cmdSeqNo) = seq
  BY Zenon
<1> HIDE DEF seq, packet, entry
<1>10. ASSUME NEW s \in 0..(SeqMod - 1), Entry(s)'
       PROVE /\ {"nth", "acked", "cmd"} \subseteq DOMAIN pendingCommands'[s]
             /\ pendingCommands'[s].nth \in Nat /\ pendingCommands'[s].nth < cmdSeqNo'
             /\ NextCommandSeq(pendingCommands'[s].nth) = s
             /\ pendingCommands'[s].acked => pendingCommands'[s].nth \in arrived'
  <2>1. CASE pendingCommands'[s] = pendingCommands[s]
    BY <1>1, <1>10, <2>1 DEF AckInv, Entry
  <2>2. CASE s = seq /\ pendingCommands'[s] = entry
    BY <1>1, <1>8, <1>9, <2>2
  <2> QED BY <1>5, <1>10, <2>1, <2>2, Zenon DEF Entry
<1>11. ASSUME NEW p \in wire' \cup answers'
       PROVE /\ p.nth \in Nat /\ p.nth < cmdSeqNo' /\ cmdSeqNo' - p.nth <= SeqMod
             /\ p.seq = NextCommandSeq(p.nth) /\ p.seq \in 0..(SeqMod - 1)
             /\ p.cmd # "HEARTBEAT" /\ Entry(p.seq)' => p.nth <= pendingCommands'[p.seq].nth
  <2>1. CASE p = packet /\ p \in wire'
    <3>1. p.nth = cmdSeqNo /\ p.seq = seq /\ p.cmd = cmd
      BY <1>7, <2>1, Zenon
    <3>2. p.cmd # "HEARTBEAT" /\ Entry(p.seq)' => p.nth <= pendingCommands'[p.seq].nth
      BY <1>1, <1>5, <1>8, <2>1, <3>1 DEF Entry
    <3> QED BY <1>1, <1>9, <3>1, <3>2, AckAssumption
  <2>2. CASE p \in wire \cup answers /\ cmdSeqNo - p.nth < SeqMod
    <3>1. /\ p.nth \in Nat /\ p.nth < cmdSeqNo /\ p.seq = NextCommandSeq(p.nth) /\ p.seq \in 0..(SeqMod - 1)
          /\ p.cmd # "HEARTBEAT" /\ Entry(p.seq) => p.nth <= pendingCommands[p.seq].nth
      BY <2>2, Zenon DEF AckInv
    <3>2. p.cmd # "HEARTBEAT" /\ Entry(p.seq)' => p.nth <= pendingCommands'[p.seq].nth
      BY <1>1, <1>5, <1>8, <3>1 DEF Entry
    <3> QED BY <1>1, <2>2, <3>1, <3>2, AckAssumption
  <2>3. \A q \in answers : q.nth \in Nat /\ q.nth < cmdSeqNo
    BY Zenon DEF AckInv
  <2>4. p = packet => p \in wire'
    BY <1>1, <1>2, <1>7, <2>3
  <2> QED BY <1>3, <2>1, <2>2, <2>4, Zenon
<1>12. \A a \in answers' : a.cmd # "HEARTBEAT" /\ a.nth \in arrived'
  BY <1>1, <1>2, Zenon DEF AckInv
<1> QED BY <1>1, <1>6, <1>10, <1>11, <1>12 DEF AckInv

LEMMA ArriveKeeps ==
    ASSUME AckInv, NEW p \in wire, Arrive(p)
    PROVE  AckInv'
<1>1. /\ UNCHANGED <<cmdSeqNo, pendingCommands>> /\ arrived' = arrived \cup {p.nth} /\ wire' \subseteq wire
      /\ answers' \subseteq answers \cup {p} /\ (p.cmd = "HEARTBEAT" => answers' = answers)
  BY Zenon DEF Arrive
<1> QED BY <1>1, Zenon DEF AckInv, Entry

LEMMA AckKeeps ==
    ASSUME AckInv, NEW a \in answers, AckHandler(a)
    PROVE  AckInv'
<1>1. UNCHANGED <<cmdSeqNo, wire, arrived>> /\ answers' \subseteq answers
  BY Zenon DEF AckHandler
<1>2. CASE pendingCommands' = pendingCommands
  BY <1>1, <1>2, Zenon DEF AckInv, Entry
<1>3. CASE Entry(a.seq) /\ pendingCommands' = [pendingCommands EXCEPT ![a.seq].acked = TRUE]
  <2>1. /\ a.seq \in 0..(SeqMod - 1) /\ a.nth \in arrived /\ pendingCommands[a.seq].nth = a.nth
        /\ {"nth", "acked", "cmd"} \subseteq DOMAIN pendingCommands[a.seq]
    BY <1>3, SameCommand, Zenon DEF AckInv
  <2> DEFINE e == pendingCommands'[a.seq]
  <2>2. e.nth = a.nth /\ {"nth", "acked", "cmd"} \subseteq DOMAIN e
    BY <1>3, <2>1, Zenon DEF AckInv
  <2>3. \A s \in 0..(SeqMod - 1) : s # a.seq => pendingCommands'[s] = pendingCommands[s]
    BY <1>3, Zenon DEF AckInv
  <2>4. pendingCommands' = [s \in 0..(SeqMod - 1) |-> pendingCommands'[s]]
    BY <1>3, Zenon DEF AckInv
  <2> HIDE DEF e
  <2>5. \A s \in 0..(SeqMod - 1) : Entry(s)' =>
          /\ Entry(s) /\ {"nth", "acked", "cmd"} \subseteq DOMAIN pendingCommands'[s]
          /\ pendingCommands'[s].nth = pendingCommands[s].nth
          /\ pendingCommands'[s].acked => pendingCommands'[s].nth \in arrived'
    BY <1>1, <1>3, <2>1, <2>2, <2>3, Zenon DEF AckInv, Entry, e
  <2> QED BY <1>1, <2>4, <2>5, Zenon DEF AckInv
<1> QED BY <1>2, <1>3, Zenon DEF AckHandler, Entry

LEMMA ScanKeeps ==
    ASSUME AckInv, TimeoutScan
    PROVE  AckInv'
<1>1. /\ UNCHANGED <<cmdSeqNo, wire, answers, arrived>>
      /\ pendingCommands' = [s \in DOMAIN pendingCommands |->
                               IF Expires(pendingCommands[s]) THEN NoCommandStatus ELSE pendingCommands[s]]
  BY Zenon DEF TimeoutScan
<1>2. \A s \in 0..(SeqMod - 1) : pendingCommands'[s] \in {NoCommandStatus, pendingCommands[s]}
  BY <1>1, Zenon DEF AckInv
<1>3. pendingCommands' = [s \in 0..(SeqMod - 1) |-> pendingCommands'[s]]
  BY <1>1, Zenon DEF AckInv
<1> QED BY <1>1, <1>2, <1>3, Zenon DEF AckInv, Entry

(* Whatever the width of the counter, the loss, the repetition and the      *)
(* delay of packets: no command counts as acknowledged that the receiver    *)
(* did not take (sendDecisionCommand, ackHandlerLoop).                      *)
THEOREM AcksAreGenuine == AckSpec => []AckGenuine
<1>1. AckInit => AckInv
  BY AckAssumption DEF AckInit, AckInv, Entry
<1>2. AckInv /\ [AckNext]_ackVars => AckInv'
  <2> SUFFICES ASSUME AckInv, [AckNext]_ackVars PROVE AckInv'
    BY Zenon
  <2>1. ASSUME NEW cmd, SendDecisionCommand(cmd) PROVE AckInv'
    BY <2>1, SendKeeps, Zenon
  <2>2. ASSUME NEW p \in wire, Arrive(p) PROVE AckInv'
    BY <2>2, ArriveKeeps, Zenon
  <2>3. CASE (\E a \in answers : AckHandler(a)) \/ TimeoutScan
    BY <2>3, AckKeeps, ScanKeeps, Zenon
  <2>4. CASE SecondPasses \/ UNCHANGED ackVars
    BY <2>4, Zenon DEF SecondPasses, ackVars, AckInv, Entry
  <2> QED BY <2>1, <2>2, <2>3, <2>4, Zenon
          DEF AckNext, AtlSend, CjsSend, ApxSend, AtlAckHandler, CjsAckHandler, ApxAckHandler, PxAckHandler
<1>3. AckInv => AckGenuine
  BY Zenon DEF AckInv, AckGenuine, Entry
<1> QED BY <1>1, <1>2, <1>3, PTL DEF AckSpec

-----------------------------------------------------------------------------
(* The trust verdicts. *)

AiReports == {"AI_PIPELINE_INVALID", "AI_PIPELINE_VALID"}
Events ==
    {e \in [type : TrustReports \cup {"EVENT"}, src : Sources, cause : {"none", "INIT", "FAULT"},
            named : {"right", "empty", "wrong"}, late : BOOLEAN] : e.type \in AiReports <=> e.src = AI}
Staged == [ev : Events, trust : [sensor : BOOLEAN, ai : BOOLEAN]]
EventsOf(s) == [i \in 1..Len(s) |-> s[i].ev]

(* An event that takes a source down for good, and one that brings it up.   *)
Downs(e, src) ==
    /\ e.src = src /\ e.type \in {"SENSOR_INVALID", "AI_PIPELINE_INVALID"} /\ e.cause # "INIT"
    /\ e.named = "right" /\ ~e.late
Ups(e, src) == e.src = src /\ e.type \in {"SENSOR_VALID", "AI_PIPELINE_VALID"}

(* Of what is read in the order of s: the last word on src, if any.         *)
EndsDown(s, src) == \E i \in 1..Len(s) : Downs(s[i], src) /\ \A j \in i..Len(s) : ~Ups(s[j], src)
NoUp(s, src) == \A i \in 1..Len(s) : ~Ups(s[i], src)

(* What is in s comes after what is in t, which comes after b.              *)
LastWord(s, t, b, src) == EndsDown(s, src) \/ (NoUp(s, src) /\ (EndsDown(t, src) \/ (NoUp(t, src) /\ b)))

LEMMA NotBoth == ASSUME NEW e, NEW src, Downs(e, src) PROVE ~Ups(e, src)
  BY Zenon DEF Downs, Ups

LEMMA AppendWord ==
    ASSUME NEW S, NEW s \in Seq(S), NEW e \in S, NEW src
    PROVE  /\ Downs(e, src) => EndsDown(Append(s, e), src)
           /\ ~Ups(e, src) /\ EndsDown(s, src) => EndsDown(Append(s, e), src)
           /\ ~Ups(e, src) /\ NoUp(s, src) => NoUp(Append(s, e), src)
<1> DEFINE n == Len(s)
           a == Append(s, e)
<1>1. n \in Nat /\ Len(a) = n + 1 /\ a[n + 1] = e /\ \A i \in 1..n : a[i] = s[i]
  OBVIOUS
<1> HIDE DEF n, a
<1>2. Len(s) = n
  BY Zenon DEF n
<1>3. ASSUME Downs(e, src) PROVE EndsDown(a, src)
  <2>1. ~Ups(e, src)
    BY <1>3, NotBoth, Zenon
  <2> QED BY <1>1, <1>3, <2>1 DEF EndsDown
<1>4. ASSUME ~Ups(e, src), EndsDown(s, src) PROVE EndsDown(a, src)
  <2>1. PICK i \in 1..n : Downs(s[i], src) /\ \A j \in i..n : ~Ups(s[j], src)
    BY <1>2, <1>4, Zenon DEF EndsDown
  <2>2. i \in 1..(n + 1) /\ Downs(a[i], src)
    BY <1>1, <2>1
  <2>3. ASSUME NEW j \in i..(n + 1) PROVE ~Ups(a[j], src)
    <3>1. CASE j = n + 1
      BY <1>1, <1>4, <3>1, Zenon
    <3>2. CASE j # n + 1
      BY <1>1, <2>1, <3>2
    <3> QED BY <3>1, <3>2, Zenon
  <2> QED BY <1>1, <2>2, <2>3, Zenon DEF EndsDown
<1>5. ASSUME ~Ups(e, src), NoUp(s, src) PROVE NoUp(a, src)
  BY <1>1, <1>2, <1>5 DEF NoUp
<1> QED BY <1>3, <1>4, <1>5, Zenon DEF a

LEMMA TailWord ==
    ASSUME NEW S, NEW s \in Seq(S), s # <<>>, NEW src
    PROVE  /\ EndsDown(s, src) => \/ EndsDown(Tail(s), src)
                                  \/ Downs(Head(s), src) /\ NoUp(Tail(s), src)
           /\ NoUp(s, src) => ~Ups(Head(s), src) /\ NoUp(Tail(s), src)
<1> DEFINE n == Len(s)
           t == Tail(s)
           h == Head(s)
<1>1. n \in Nat \ {0} /\ Len(t) = n - 1 /\ h = s[1] /\ \A i \in 1..(n - 1) : t[i] = s[i + 1]
  OBVIOUS
<1>2. Len(s) = n
  BY Zenon
<1> HIDE DEF n, t, h
<1>3. ASSUME EndsDown(s, src) PROVE EndsDown(t, src) \/ (Downs(h, src) /\ NoUp(t, src))
  <2>1. PICK i \in 1..n : Downs(s[i], src) /\ \A j \in i..n : ~Ups(s[j], src)
    BY <1>2, <1>3, Zenon DEF EndsDown
  <2>2. CASE i = 1
    BY <1>1, <2>1, <2>2 DEF NoUp
  <2>3. CASE i # 1
    <3>1. i - 1 \in 1..(n - 1) /\ Downs(t[i - 1], src)
      BY <1>1, <2>1, <2>3
    <3>2. \A j \in (i - 1)..(n - 1) : ~Ups(t[j], src)
      BY <1>1, <2>1, <2>3
    <3> QED BY <1>1, <3>1, <3>2, Zenon DEF EndsDown
  <2> QED BY <2>2, <2>3, Zenon
<1>4. ASSUME NoUp(s, src) PROVE ~Ups(h, src) /\ NoUp(t, src)
  BY <1>1, <1>2, <1>4 DEF NoUp
<1> QED BY <1>3, <1>4, Zenon DEF t, h

LEMMA ConcatWord ==
    ASSUME NEW S, NEW s \in Seq(S), NEW t \in Seq(S), NEW src, NoUp(t, src)
    PROVE  /\ EndsDown(s, src) => EndsDown(s \o t, src)
           /\ NoUp(s, src) => NoUp(s \o t, src)
           /\ (\E i \in 1..Len(t) : Downs(t[i], src)) => EndsDown(s \o t, src)
<1> DEFINE m == Len(s)
           n == Len(t)
           c == s \o t
<1>1. /\ m \in Nat /\ n \in Nat /\ Len(c) = m + n
      /\ \A i \in 1..m : c[i] = s[i]
      /\ \A i \in 1..n : c[m + i] = t[i]
  OBVIOUS
<1>2. Len(s) = m /\ Len(t) = n
  BY Zenon
<1> HIDE DEF m, n, c
<1>3. ASSUME NEW i \in (m + 1)..(m + n) PROVE ~Ups(c[i], src)
  <2>1. i - m \in 1..n /\ m + (i - m) = i
    BY <1>1
  <2>2. c[i] = t[i - m]
    BY <1>1, <2>1, Zenon
  <2> QED BY <1>2, <2>1, <2>2, Zenon DEF NoUp
<1>4. ASSUME EndsDown(s, src) PROVE EndsDown(c, src)
  <2>1. PICK i \in 1..m : Downs(s[i], src) /\ \A j \in i..m : ~Ups(s[j], src)
    BY <1>2, <1>4, Zenon DEF EndsDown
  <2>2. i \in 1..(m + n) /\ Downs(c[i], src)
    BY <1>1, <2>1
  <2>3. ASSUME NEW j \in i..(m + n) PROVE ~Ups(c[j], src)
    <3>1. CASE j \in i..m
      BY <1>1, <2>1, <3>1
    <3>2. CASE j \in (m + 1)..(m + n)
      BY <1>3, <3>2, Zenon
    <3> QED BY <1>1, <3>1, <3>2
  <2> QED BY <1>1, <2>2, <2>3, Zenon DEF EndsDown
<1>5. ASSUME NoUp(s, src) PROVE NoUp(c, src)
  <2>1. ASSUME NEW j \in 1..(m + n) PROVE ~Ups(c[j], src)
    <3>1. CASE j \in 1..m
      BY <1>1, <1>2, <1>5, <3>1, Zenon DEF NoUp
    <3>2. CASE j \in (m + 1)..(m + n)
      BY <1>3, <3>2, Zenon
    <3> QED BY <1>1, <3>1, <3>2
  <2> QED BY <1>1, <2>1, Zenon DEF NoUp
<1>6. ASSUME NEW i \in 1..n, Downs(t[i], src) PROVE EndsDown(c, src)
  <2>1. m + i \in 1..(m + n) /\ Downs(c[m + i], src)
    BY <1>1, <1>6
  <2>2. \A j \in (m + i)..(m + n) : ~Ups(c[j], src)
    BY <1>1, <1>3
  <2> QED BY <1>1, <2>1, <2>2, Zenon DEF EndsDown
<1> QED BY <1>2, <1>4, <1>5, <1>6, Zenon DEF c

(* Handing on the first event of s, or dropping it when it takes nothing    *)
(* down, keeps the last word.                                               *)
LEMMA Moved ==
    ASSUME NEW S, NEW s \in Seq(S), NEW t \in Seq(S), NEW u, NEW b, NEW src, s # <<>>,
           u = Append(t, Head(s)) \/ (u = t /\ ~Downs(Head(s), src)),
           LastWord(s, t, b, src)
    PROVE  LastWord(Tail(s), u, b, src)
<1>1. Head(s) \in S
  OBVIOUS
<1>2. /\ Downs(Head(s), src) => EndsDown(u, src)
      /\ ~Ups(Head(s), src) /\ EndsDown(t, src) => EndsDown(u, src)
      /\ ~Ups(Head(s), src) /\ NoUp(t, src) => NoUp(u, src)
  BY <1>1, AppendWord, Zenon
<1>3. /\ EndsDown(s, src) => EndsDown(Tail(s), src) \/ (Downs(Head(s), src) /\ NoUp(Tail(s), src))
      /\ NoUp(s, src) => ~Ups(Head(s), src) /\ NoUp(Tail(s), src)
  BY TailWord, Zenon
<1> QED BY <1>2, <1>3, Zenon DEF LastWord

-----------------------------------------------------------------------------
TrustTyped ==
    /\ members \in {{}, Cams} /\ invalid \in [Cams -> {"valid", "INIT", "FAULT"}]
    /\ aiInvalid \in BOOLEAN /\ emitted \in {"Trusted", "Untrusted"}
    /\ rpc \in Seq(Events) /\ queue \in Seq(Events) /\ snap \in Seq(Events)
    /\ lane \in [critical : Seq(Staged), operational : Seq(Staged)]
    /\ sdm \in [failed : SUBSET Sources, init : SUBSET Sources, ai : BOOLEAN]
    /\ owed \subseteq Sources
    /\ \A i \in 1..Len(lane.operational) : lane.operational[i].ev.type = "EVENT"

(* A re-assertion never brings a source up, and a report that does is       *)
(* queued while the table agrees.                                           *)
OneReport ==
    /\ NoUp(snap, Group) /\ NoUp(snap, AI)
    /\ aiInvalid => NoUp(rpc, AI)
    /\ emitted = "Untrusted" => NoUp(rpc, Group)

Heard(src) == IF src = AI THEN sdm.ai ELSE src \in sdm.failed
Critical == EventsOf(lane.critical)

(* The last word about src in the decision module, its lane, the queue and  *)
(* the RPC server's hand is that it is down.                                *)
Goes(r, s, t, b, src) == EndsDown(r, src) \/ (NoUp(r, src) /\ LastWord(s, t, b, src))
StaysDown(src) == Goes(rpc, queue, Critical, Heard(src), src)

GroupTold ==
    members # {} =>
        /\ EvaluateGroupVerdict(invalid) \in {"Pending", emitted}
        /\ emitted = "Untrusted" /\ Group \notin owed => StaysDown(Group)
(* Whatever the decision module holds, a report that would bring the group  *)
(* up has its loss behind it.                                               *)
LossCovered ==
    members # {} =>
        /\ emitted = "Trusted" => healthySeen
        /\ emitted = "Untrusted" => Goes(rpc, queue, Critical, TRUE, Group)
PipelineTold == aiInvalid /\ AI \notin owed => StaysDown(AI)

(* A camera's own failure, whatever the event calls the camera.             *)
Reports1(e, c) == e.src = c /\ e.type = "SENSOR_INVALID" /\ e.cause = "FAULT" /\ ~e.late
UnderWay(c) ==
    \/ \E i \in 1..Len(rpc) : Reports1(rpc[i], c)
    \/ \E i \in 1..Len(queue) : Reports1(queue[i], c)
    \/ \E i \in 1..Len(Critical) : Reports1(Critical[i], c)
CamerasTold ==
    members = {} => \A c \in Cams : invalid[c] = "FAULT" /\ c \notin owed => c \in sdm.failed \/ UnderWay(c)

TrustInv == TrustTyped /\ OneReport /\ GroupTold /\ LossCovered /\ PipelineTold /\ CamerasTold

LEMMA EmptySeq ==
    ASSUME NEW S
    PROVE  <<>> \in Seq(S)
  OBVIOUS

LEMMA ElementOfSeq ==
    ASSUME NEW S, NEW s \in Seq(S), NEW i \in 1..Len(s)
    PROVE  s[i] \in S
  OBVIOUS

LEMMA IsSeq ==
    ASSUME NEW S, NEW n \in Nat, NEW f \in [1..n -> S]
    PROVE  f \in Seq(S) /\ Len(f) = n
<1>1. f \in Seq(S)
  OBVIOUS
<1> QED BY <1>1

LEMMA OneElement ==
    ASSUME NEW S, NEW x \in S
    PROVE  <<x>> \in Seq(S) /\ Len(<<x>>) = 1 /\ <<x>>[1] = x
  OBVIOUS

LEMMA TwoElements ==
    ASSUME NEW S, NEW x \in S, NEW y \in S
    PROVE  <<x, y>> \in Seq(S) /\ Len(<<x, y>>) = 2 /\ <<x, y>>[1] = x /\ <<x, y>>[2] = y
  OBVIOUS

LEMMA EventsOfType ==
    ASSUME NEW s \in Seq(Staged)
    PROVE  /\ EventsOf(s) \in Seq(Events) /\ Len(EventsOf(s)) = Len(s)
           /\ \A x \in Staged : EventsOf(Append(s, x)) = Append(EventsOf(s), x.ev)
           /\ s # <<>> => /\ EventsOf(s) # <<>> /\ EventsOf(Tail(s)) = Tail(EventsOf(s))
                          /\ Head(EventsOf(s)) = s[1].ev
<1>1. EventsOf(s) \in Seq(Events) /\ Len(EventsOf(s)) = Len(s)
  <2>0. \A x \in Staged : x.ev \in Events
    BY Zenon DEF Staged
  <2>1. Len(s) \in Nat /\ \A i \in 1..Len(s) : s[i].ev \in Events
    BY <2>0, ElementOfSeq
  <2>2. EventsOf(s) \in [1..Len(s) -> Events]
    BY <2>1, Zenon DEF EventsOf
  <2> QED BY <2>1, <2>2, IsSeq, Zenon
<1>2. ASSUME NEW x \in Staged PROVE EventsOf(Append(s, x)) = Append(EventsOf(s), x.ev)
  <2> DEFINE a == EventsOf(Append(s, x))
             b == Append(EventsOf(s), x.ev)
  <2>1. a \in Seq(Events) /\ b \in Seq(Events) /\ Len(a) = Len(s) + 1 /\ Len(b) = Len(s) + 1
    BY <1>1 DEF EventsOf, Staged
  <2>2. \A i \in 1..(Len(s) + 1) : a[i] = b[i]
    BY <1>1 DEF EventsOf, Staged
  <2> HIDE DEF a, b
  <2>3. a = b
    BY <2>1, <2>2
  <2> QED BY <2>3, Zenon DEF a, b
<1>3. ASSUME s # <<>> PROVE /\ EventsOf(s) # <<>> /\ EventsOf(Tail(s)) = Tail(EventsOf(s))
                            /\ Head(EventsOf(s)) = s[1].ev
  <2> DEFINE a == EventsOf(Tail(s))
             b == Tail(EventsOf(s))
  <2>1. Len(s) \in Nat \ {0} /\ EventsOf(s) # <<>> /\ Head(EventsOf(s)) = s[1].ev
    BY <1>1, <1>3 DEF EventsOf
  <2>2. Len(a) = Len(s) - 1 /\ Len(b) = Len(s) - 1 /\ a = [i \in 1..Len(a) |-> a[i]] /\ b = [i \in 1..Len(b) |-> b[i]]
    BY <1>1, <1>3, <2>1 DEF EventsOf
  <2>3. \A i \in 1..(Len(s) - 1) : a[i] = b[i]
    BY <1>1, <1>3, <2>1 DEF EventsOf
  <2> HIDE DEF a, b
  <2>4. a = b
    BY <2>2, <2>3, Zenon
  <2> QED BY <2>1, <2>4, Zenon DEF a, b
<1> QED BY <1>1, <1>2, <1>3, Zenon

(* What stands is a sequence of events that bring nothing up.               *)
LEMMA StandingFacts ==
    ASSUME TrustTyped
    PROVE  /\ Standing \in Seq(Events)
           /\ \A i \in 1..Len(Standing) :
                LET e == Standing[i] IN
                /\ e.type \in {"SENSOR_INVALID", "AI_PIPELINE_INVALID"} /\ e.named = "right" /\ ~e.late
                /\ e.src \in Cams => members = {} /\ e.cause = invalid[e.src]
                /\ e.src = Group => members # {} /\ emitted = "Untrusted" /\ e.cause = "FAULT"
                /\ e.src = AI => aiInvalid /\ e.cause = "none"
<1> DEFINE Fits(e) ==
             /\ e \in Events
             /\ e.type \in {"SENSOR_INVALID", "AI_PIPELINE_INVALID"} /\ e.named = "right" /\ ~e.late
             /\ e.src \in Cams => members = {} /\ e.cause = invalid[e.src]
             /\ e.src = Group => members # {} /\ emitted = "Untrusted" /\ e.cause = "FAULT"
             /\ e.src = AI => aiInvalid /\ e.cause = "none"
           Good == {e \in Events : Fits(e)}
           rest == IF members = {} THEN StandingCameras
                   ELSE IF emitted = "Untrusted" THEN <<Ev("SENSOR_INVALID", Group, "FAULT", "right", FALSE)>>
                   ELSE <<>>
<1>1. StandingAi \in Seq(Good)
  <2>1. Ev("AI_PIPELINE_INVALID", AI, "none", "right", FALSE) \in Events
    BY Zenon DEF Ev, Events, TrustReports, Sources, AiReports
  <2>2. aiInvalid => Ev("AI_PIPELINE_INVALID", AI, "none", "right", FALSE) \in Good
    BY <2>1, TrustAssumption, Zenon DEF Ev
  <2> HIDE DEF Good
  <2> QED BY <2>2, OneElement, EmptySeq, Zenon DEF StandingAi
<1>2. ASSUME members = {} PROVE StandingCameras \in Seq(Good)
  <2> DEFINE down == {c \in Cams : invalid[c] # "valid"}
             n == Cardinality(down)
             f == CHOOSE g \in Bijection(1..n, down) : TRUE
  <2>1. down \in SUBSET Cams
    BY Zenon
  <2>2. n \in Nat /\ ExistsBijection(1..n, down)
    BY <2>1, TrustAssumption, Zenon
  <2>3. f \in Bijection(1..n, down)
    <3> HIDE DEF n, down
    <3> QED BY <2>2, Zenon DEF ExistsBijection
  <2>4. f \in [1..n -> down]
    <3> HIDE DEF n, down, f
    <3> QED BY <2>3, Zenon DEF Bijection, Injection
  <2> HIDE DEF f, n
  <2>5. ASSUME NEW i \in 1..n PROVE Ev("SENSOR_INVALID", f[i], invalid[f[i]], "right", FALSE) \in Good
    <3>1. f[i] \in Cams /\ invalid[f[i]] \in {"INIT", "FAULT"}
      BY <2>4, Zenon DEF TrustTyped
    <3>2. Ev("SENSOR_INVALID", f[i], invalid[f[i]], "right", FALSE) \in Events
      BY <3>1, TrustAssumption, Zenon DEF Ev, Events, TrustReports, Sources, AiReports
    <3> QED BY <1>2, <3>1, <3>2, TrustAssumption, Zenon DEF Ev
  <2>6. StandingCameras = [i \in 1..n |-> Ev("SENSOR_INVALID", f[i], invalid[f[i]], "right", FALSE)]
    BY Zenon DEF StandingCameras, n, f
  <2> HIDE DEF Good
  <2>7. StandingCameras \in [1..n -> Good]
    BY <2>5, <2>6, Zenon
  <2> QED BY <2>2, <2>7, IsSeq, Zenon
<1>3. ASSUME members # {}, emitted = "Untrusted"
      PROVE <<Ev("SENSOR_INVALID", Group, "FAULT", "right", FALSE)>> \in Seq(Good)
  <2>1. Ev("SENSOR_INVALID", Group, "FAULT", "right", FALSE) \in Events
    BY TrustAssumption, Zenon DEF Ev, Events, TrustReports, Sources, AiReports
  <2>2. Ev("SENSOR_INVALID", Group, "FAULT", "right", FALSE) \in Good
    BY <1>3, <2>1, TrustAssumption, Zenon DEF Ev
  <2> HIDE DEF Good
  <2> QED BY <2>2, OneElement, Zenon
<1>4. Standing = StandingAi \o rest
  BY Zenon DEF Standing
<1>5. rest \in Seq(Good)
  <2> HIDE DEF Good
  <2> QED BY <1>2, <1>3, EmptySeq, Zenon
<1> HIDE DEF rest
<1>6. Standing \in Seq(Good) /\ Good \subseteq Events
  <2> HIDE DEF Good
  <2>1. Standing \in Seq(Good)
    BY <1>1, <1>4, <1>5
  <2> QED BY <2>1, Zenon DEF Good
<1>7. ASSUME NEW i \in 1..Len(Standing) PROVE Standing[i] \in Good
  <2> HIDE DEF Good
  <2> QED BY <1>6
<1>8. Standing \in Seq(Events)
  <2> HIDE DEF Good
  <2> QED BY <1>6
<1> QED BY <1>7, <1>8, Zenon

-----------------------------------------------------------------------------
LEMMA LaneType ==
    ASSUME TrustTyped
    PROVE  /\ lane.critical \in Seq(Staged) /\ lane.operational \in Seq(Staged)
           /\ Critical \in Seq(Events) /\ Len(Critical) = Len(lane.critical)
  BY EventsOfType, Zenon DEF TrustTyped, Critical

-----------------------------------------------------------------------------
(* A monitor's report. *)
MonitorReports ==
    {e \in Events : /\ e.src \in Cams => \/ e.type = "SENSOR_INVALID" /\ e.cause \in {"INIT", "FAULT"}
                                         \/ e.type = "SENSOR_VALID"
                    /\ e.src \notin Cams => e.src = AI /\ e.cause = "none" /\ e.named = "right" /\ ~e.late}
Table(ev) ==
    CASE ev.type = "SENSOR_INVALID" -> [invalid EXCEPT ![ev.src] = ev.cause]
      [] ev.type = "SENSOR_VALID" -> [invalid EXCEPT ![ev.src] = "valid"]
      [] OTHER -> invalid
GroupDown == Ev("SENSOR_INVALID", Group, "FAULT", "right", FALSE)
GroupUp == Ev("SENSOR_VALID", Group, "none", "right", FALSE)

LEMMA GroupEvents ==
    /\ GroupDown \in Events /\ GroupUp \in Events
    /\ Downs(GroupDown, Group) /\ ~Ups(GroupDown, Group) /\ ~Ups(GroupDown, AI) /\ ~Ups(GroupUp, AI)
<1>1. GroupDown \in Events /\ GroupUp \in Events
  BY TrustAssumption, Zenon DEF GroupDown, GroupUp, Ev, Events, TrustReports, Sources, AiReports
<1> QED BY <1>1, TrustAssumption, Zenon DEF GroupDown, GroupUp, Ev, Downs, Ups

LEMMA ReportShape ==
    ASSUME TrustTyped, NEW ev \in MonitorReports, OnTrustReport(ev)
    PROVE  /\ invalid' = Table(ev) /\ invalid' \in [Cams -> {"valid", "INIT", "FAULT"}]
           /\ ev.src = AI => invalid' = invalid
           /\ ev.src \in Cams => /\ invalid' = [invalid EXCEPT ![ev.src] = invalid'[ev.src]]
                                 /\ invalid'[ev.src] = "FAULT" => ev.type = "SENSOR_INVALID" /\ ev.cause = "FAULT"
           /\ aiInvalid' = IF ev.src = AI THEN ev.type = "AI_PIPELINE_INVALID" ELSE aiInvalid
           /\ \/ /\ emitted' = emitted /\ rpc' = <<ev>>
                 /\ members # {} /\ ev.src \in Cams => EvaluateGroupVerdict(Table(ev)) \in {"Pending", emitted}
              \/ /\ members # {} /\ ev.src \in Cams /\ emitted' = EvaluateGroupVerdict(Table(ev))
                 /\ \/ emitted' = "Untrusted" /\ rpc' = <<GroupDown, ev>>
                    \/ emitted' = "Trusted" /\ rpc' = <<GroupUp, ev>>
<1>1. ev.src \in Cams \/ ev.src = AI
  BY Zenon DEF MonitorReports
<1>2. /\ ev.src \in Cams => \/ ev.type = "SENSOR_INVALID" /\ ev.cause \in {"INIT", "FAULT"}
                            \/ ev.type = "SENSOR_VALID"
      /\ ev.src = AI => ev.type \in AiReports
  BY TrustAssumption, Zenon DEF MonitorReports, Events
<1>3. Table(ev) \in [Cams -> {"valid", "INIT", "FAULT"}]
  BY <1>1, <1>2, TrustAssumption, Zenon DEF TrustTyped, Table, AiReports
<1>4. ev.src = AI => Table(ev) = invalid
  BY <1>2, Zenon DEF Table, AiReports
<1>5. ev.src \in Cams => /\ Table(ev) = [invalid EXCEPT ![ev.src] = Table(ev)[ev.src]]
                         /\ Table(ev)[ev.src] = "FAULT" => ev.type = "SENSOR_INVALID" /\ ev.cause = "FAULT"
  BY <1>2, Zenon DEF Table, TrustTyped
<1>6. EvaluateGroupVerdict(Table(ev)) \in {"Trusted", "Pending", "Untrusted"}
  BY Zenon DEF EvaluateGroupVerdict
<1>7. /\ invalid' = Table(ev)
      /\ aiInvalid' = IF ev.src = AI THEN ev.type = "AI_PIPELINE_INVALID" ELSE aiInvalid
  BY Zenon DEF OnTrustReport, Table
<1> DEFINE w == EvaluateGroupVerdict(Table(ev))
           news == Ev(IF w = "Untrusted" THEN "SENSOR_INVALID" ELSE "SENSOR_VALID",
                      Group, IF w = "Untrusted" THEN "FAULT" ELSE "none", "right", FALSE)
<1>8. \/ ~(ev.src \in Cams /\ Announces(w)) /\ emitted' = emitted /\ rpc' = <<ev>>
      \/ ev.src \in Cams /\ Announces(w) /\ emitted' = w /\ rpc' = <<news, ev>>
  BY Zenon DEF OnTrustReport, Table
<1>9. news = IF w = "Untrusted" THEN GroupDown ELSE GroupUp
  <2> HIDE DEF w
  <2> QED BY Zenon DEF GroupDown, GroupUp
<1>10. w = EvaluateGroupVerdict(Table(ev))
  BY Zenon
<1> HIDE DEF w, news
<1> QED BY <1>3, <1>4, <1>5, <1>6, <1>7, <1>8, <1>9, <1>10, Zenon DEF Announces

LEMMA ReportKeeps ==
    ASSUME TrustInv, NEW ev \in MonitorReports, Report(ev)
    PROVE  TrustInv'
<1> DEFINE table == Table(ev)
<1>1. /\ rpc = <<>> /\ OnTrustReport(ev) /\ UNCHANGED <<members, snap, queue, lane, sdm>>
      /\ owed' = (IF ev.late THEN owed \cup {ev.src} ELSE owed)
  BY Zenon DEF Report
<1>2. TrustTyped /\ ev \in Events
  BY Zenon DEF TrustInv, MonitorReports
<1>3. /\ ev.src \in Cams \/ (ev.src = AI /\ ev.cause = "none" /\ ev.named = "right" /\ ~ev.late)
      /\ ev.src # Group /\ ev.src \in Sources /\ (ev.src = AI <=> ev.type \in AiReports)
  <2>1. ev.src \in Sources /\ (ev.src = AI <=> ev.type \in AiReports)
    BY <1>2, Zenon DEF Events
  <2>2. ev.src \in Cams \/ (ev.src = AI /\ ev.cause = "none" /\ ev.named = "right" /\ ~ev.late)
    BY Zenon DEF MonitorReports
  <2> QED BY <2>1, <2>2, TrustAssumption, Zenon
<1> HIDE DEF table
<1>4. /\ rpc' \in Seq(Events) /\ emitted' \in {"Trusted", "Untrusted"}
      /\ \/ /\ emitted' = emitted /\ rpc' = <<ev>> /\ Len(rpc') = 1 /\ rpc'[1] = ev
         \/ /\ members # {} /\ ev.src \in Cams
            /\ \/ emitted' = "Untrusted" /\ rpc' = <<GroupDown, ev>> /\ Len(rpc') = 2 /\ rpc'[1] = GroupDown /\ rpc'[2] = ev
               \/ emitted' = "Trusted" /\ rpc' = <<GroupUp, ev>> /\ Len(rpc') = 2 /\ rpc'[1] = GroupUp /\ rpc'[2] = ev
  <2>1. \/ emitted' = emitted /\ rpc' = <<ev>>
        \/ members # {} /\ ev.src \in Cams /\ emitted' = "Untrusted" /\ rpc' = <<GroupDown, ev>>
        \/ members # {} /\ ev.src \in Cams /\ emitted' = "Trusted" /\ rpc' = <<GroupUp, ev>>
    BY <1>1, <1>2, ReportShape, Zenon
  <2>2. <<ev>> \in Seq(Events) /\ Len(<<ev>>) = 1 /\ <<ev>>[1] = ev
    BY <1>2, OneElement, Zenon
  <2>3. /\ <<GroupDown, ev>> \in Seq(Events) /\ Len(<<GroupDown, ev>>) = 2
        /\ <<GroupDown, ev>>[1] = GroupDown /\ <<GroupDown, ev>>[2] = ev
    BY <1>2, GroupEvents, TwoElements, Zenon
  <2>4. /\ <<GroupUp, ev>> \in Seq(Events) /\ Len(<<GroupUp, ev>>) = 2
        /\ <<GroupUp, ev>>[1] = GroupUp /\ <<GroupUp, ev>>[2] = ev
    BY <1>2, GroupEvents, TwoElements, Zenon
  <2>5. emitted \in {"Trusted", "Untrusted"}
    BY <1>2, Zenon DEF TrustTyped
  <2> QED BY <2>1, <2>2, <2>3, <2>4, <2>5, Zenon
<1>5. TrustTyped'
  <2>1. invalid' \in [Cams -> {"valid", "INIT", "FAULT"}] /\ aiInvalid' \in BOOLEAN /\ owed' \subseteq Sources
    BY <1>1, <1>2, <1>3, ReportShape, Zenon DEF TrustTyped
  <2> QED BY <1>1, <1>2, <1>4, <2>1, Zenon DEF TrustTyped
<1>6. ~Ups(ev, Group) /\ (Ups(ev, AI) => ev.src = AI /\ ~aiInvalid')
  <2>1. Ups(ev, AI) => ev.src = AI /\ ev.type # "AI_PIPELINE_INVALID"
    BY Zenon DEF Ups
  <2> QED BY <1>1, <1>2, <1>3, <2>1, ReportShape, Zenon DEF Ups
<1>7. aiInvalid' => NoUp(rpc', AI)
  BY <1>4, <1>6, GroupEvents DEF NoUp
<1>8. emitted' = "Untrusted" => NoUp(rpc', Group)
  BY <1>4, <1>6, GroupEvents DEF NoUp
<1>9. OneReport'
  BY <1>1, <1>7, <1>8, Zenon DEF TrustInv, OneReport
<1>10. UNCHANGED <<Critical, Heard(AI), Heard(Group)>>
  BY <1>1, Zenon DEF Critical, Heard
<1>11. \A src : ~EndsDown(rpc, src)
  BY <1>1 DEF EndsDown
<1>12. GroupTold'
  <2> SUFFICES ASSUME members # {}
               PROVE /\ EvaluateGroupVerdict(invalid)' \in {"Pending", emitted'}
                     /\ emitted' = "Untrusted" /\ Group \notin owed' => StaysDown(Group)'
    BY <1>1, Zenon DEF GroupTold
  <2>1. EvaluateGroupVerdict(invalid)' = EvaluateGroupVerdict(invalid')
    BY <1>1, Zenon DEF EvaluateGroupVerdict
  <2>2. EvaluateGroupVerdict(invalid') \in {"Pending", emitted'}
    <3>1. CASE ev.src \in Cams
      BY <1>1, <1>2, <3>1, ReportShape, Zenon
    <3>2. CASE ev.src = AI
      <4>1. invalid' = invalid /\ emitted' = emitted
        BY <1>1, <1>2, <3>2, ReportShape, TrustAssumption, Zenon
      <4> QED BY <4>1, Zenon DEF TrustInv, GroupTold
    <3> QED BY <1>3, <3>1, <3>2, Zenon
  <2>3. ASSUME emitted' = "Untrusted", Group \notin owed', emitted' = emitted PROVE StaysDown(Group)'
    <3>1. Group \notin owed
      BY <1>1, <2>3, Zenon
    <3>2. StaysDown(Group)
      BY <2>3, <3>1, Zenon DEF TrustInv, GroupTold
    <3> QED BY <1>1, <1>8, <1>10, <1>11, <2>3, <3>2, Zenon DEF StaysDown, Goes
  <2>4. ASSUME emitted' = "Untrusted", rpc' = <<GroupDown, ev>> PROVE StaysDown(Group)'
    <3>1. EndsDown(rpc', Group)
      <4>1. Len(rpc') = 2 /\ rpc'[1] = GroupDown /\ rpc'[2] = ev
        BY <1>2, <2>4, GroupEvents, TwoElements, Zenon
      <4> QED BY <1>6, <4>1, GroupEvents DEF EndsDown
    <3> QED BY <3>1, Zenon DEF StaysDown, Goes
  <2> QED BY <1>4, <2>1, <2>2, <2>3, <2>4, Zenon
<1>13. PipelineTold'
  <2> SUFFICES ASSUME aiInvalid', AI \notin owed' PROVE StaysDown(AI)'
    BY Zenon DEF PipelineTold
  <2>1. CASE ev.src = AI
    <3>1. ev.type = "AI_PIPELINE_INVALID" /\ rpc' = <<ev>>
      BY <1>1, <1>2, <2>1, ReportShape, TrustAssumption, Zenon
    <3>2. Downs(ev, AI) /\ ~Ups(ev, AI)
      BY <1>3, <2>1, <3>1, TrustAssumption, Zenon DEF Downs, Ups
    <3>3. Len(rpc') = 1 /\ rpc'[1] = ev
      BY <1>2, <3>1, OneElement, Zenon
    <3>4. EndsDown(rpc', AI)
      BY <3>2, <3>3 DEF EndsDown
    <3> QED BY <3>4, Zenon DEF StaysDown, Goes
  <2>2. CASE ev.src # AI
    <3>1. aiInvalid /\ AI \notin owed
      BY <1>1, <1>2, <2>2, ReportShape, Zenon
    <3>2. StaysDown(AI)
      BY <3>1, Zenon DEF TrustInv, PipelineTold
    <3> QED BY <1>1, <1>7, <1>10, <1>11, <3>2, Zenon DEF StaysDown, Goes
  <2> QED BY <2>1, <2>2, Zenon
<1>14. CamerasTold'
  <2> SUFFICES ASSUME members = {}, NEW c \in Cams, invalid'[c] = "FAULT", c \notin owed'
               PROVE  (c \in sdm.failed \/ UnderWay(c))'
    BY <1>1, Zenon DEF CamerasTold
  <2>1. rpc' = <<ev>> /\ Len(rpc') = 1 /\ rpc'[1] = ev
    BY <1>4, Zenon
  <2>2. CASE ev.src = c
    <3>1. ev.type = "SENSOR_INVALID" /\ ev.cause = "FAULT"
      BY <1>1, <1>2, <2>2, ReportShape, Zenon
    <3>2. ~ev.late
      BY <1>1, <2>2, Zenon
    <3> QED BY <2>1, <2>2, <3>1, <3>2 DEF UnderWay, Reports1
  <2>3. CASE ev.src # c
    <3>1. invalid[c] = "FAULT"
      BY <1>1, <1>2, <1>3, <2>3, ReportShape DEF TrustTyped
    <3>2. c \notin owed
      BY <1>1, Zenon
    <3>3. c \in sdm.failed \/ UnderWay(c)
      BY <3>1, <3>2, Zenon DEF TrustInv, CamerasTold
    <3> QED BY <1>1, <1>10, <3>3 DEF UnderWay
  <2> QED BY <2>2, <2>3, Zenon
<1>15. LossCovered'
  <2> SUFFICES ASSUME members # {}
               PROVE  /\ emitted' = "Trusted" => healthySeen'
                      /\ emitted' = "Untrusted" => Goes(rpc', queue', Critical', TRUE, Group)
    BY <1>1, Zenon DEF LossCovered
  <2>1. emitted' = "Trusted" => healthySeen'
    <3>1. /\ healthySeen' = ((\E m \in members : Table(ev)[m] = "valid")
                             \/ (healthySeen /\ ~(ev.src \in Cams /\ Announces(EvaluateGroupVerdict(Table(ev)))
                                                   /\ EvaluateGroupVerdict(Table(ev)) = "Untrusted")))
          /\ emitted' = IF ev.src \in Cams /\ Announces(EvaluateGroupVerdict(Table(ev)))
                        THEN EvaluateGroupVerdict(Table(ev)) ELSE emitted
      BY <1>1, Zenon DEF OnTrustReport, Table
    <3>2. EvaluateGroupVerdict(Table(ev)) = "Trusted" => \E m \in members : Table(ev)[m] = "valid"
      BY Zenon DEF EvaluateGroupVerdict
    <3> QED BY <3>1, <3>2, Zenon DEF TrustInv, LossCovered
  <2>2. ASSUME emitted' = "Untrusted", emitted' = emitted PROVE Goes(rpc', queue', Critical', TRUE, Group)
    <3>1. Goes(rpc, queue, Critical, TRUE, Group)
      BY <2>2, Zenon DEF TrustInv, LossCovered
    <3> QED BY <1>1, <1>8, <1>10, <1>11, <2>2, <3>1, Zenon DEF Goes
  <2>3. ASSUME emitted' = "Untrusted", rpc' = <<GroupDown, ev>> PROVE Goes(rpc', queue', Critical', TRUE, Group)
    <3>1. Len(rpc') = 2 /\ rpc'[1] = GroupDown /\ rpc'[2] = ev
      BY <1>2, <2>3, GroupEvents, TwoElements, Zenon
    <3>2. EndsDown(rpc', Group)
      BY <1>6, <3>1, GroupEvents DEF EndsDown
    <3> QED BY <3>2, Zenon DEF Goes
  <2> QED BY <1>4, <2>1, <2>2, <2>3, Zenon
<1> QED BY <1>5, <1>9, <1>12, <1>13, <1>14, <1>15, Zenon DEF TrustInv

-----------------------------------------------------------------------------
(* What comes after the report. *)

(* Nothing that the invariant is about changes but what is under way.       *)
LEMMA OnItsWay ==
    ASSUME TrustInv, TrustTyped', UNCHANGED <<trustVars, sdm, healthySeen>>, owed \subseteq owed',
           OneReport',
           \A src \in {Group, AI} : \A b : (src = Group => members # {}) /\ Goes(rpc, queue, Critical, b, src)
                                          => Goes(rpc', queue', Critical', b, src),
           \A c \in Cams : UnderWay(c) /\ members = {} /\ invalid[c] = "FAULT" => UnderWay(c)'
    PROVE  TrustInv'
<1>1. EvaluateGroupVerdict(invalid)' = EvaluateGroupVerdict(invalid)
  BY Zenon DEF EvaluateGroupVerdict, trustVars
<1>2. Group # AI /\ UNCHANGED <<Heard(Group), Heard(AI)>>
  BY TrustAssumption, Zenon DEF Heard
<1>3. GroupTold'
  BY <1>1, <1>2, Zenon DEF TrustInv, GroupTold, StaysDown, trustVars
<1>4. LossCovered'
  BY Zenon DEF TrustInv, LossCovered, trustVars
<1>5. PipelineTold'
  BY <1>2, Zenon DEF TrustInv, PipelineTold, StaysDown, trustVars
<1>6. CamerasTold'
  BY Zenon DEF TrustInv, CamerasTold, trustVars
<1> QED BY <1>3, <1>4, <1>5, <1>6, Zenon DEF TrustInv

LEMMA AppendIn ==
    ASSUME NEW s \in Seq(Events), NEW e \in Events
    PROVE  /\ Append(s, e) \in Seq(Events) /\ Len(Append(s, e)) = Len(s) + 1 /\ Append(s, e)[Len(s) + 1] = e
           /\ \A i \in 1..Len(s) : Append(s, e)[i] = s[i]
  OBVIOUS

(* A camera's failure moves on with the event that carries it.              *)
LEMMA FoundInTail ==
    ASSUME NEW s \in Seq(Events), s # <<>>, NEW c, \E i \in 1..Len(s) : Reports1(s[i], c)
    PROVE  Reports1(Head(s), c) \/ \E i \in 1..Len(Tail(s)) : Reports1(Tail(s)[i], c)
<1>1. PICK i \in 1..Len(s) : Reports1(s[i], c)
  BY Zenon
<1>2. Len(s) \in Nat \ {0} /\ Len(Tail(s)) = Len(s) - 1 /\ Head(s) = s[1] /\ \A k \in 1..(Len(s) - 1) : Tail(s)[k] = s[k + 1]
  OBVIOUS
<1>3. CASE i = 1
  BY <1>1, <1>2, <1>3, Zenon
<1>4. CASE i # 1
  <2>1. i - 1 \in 1..Len(Tail(s)) /\ Tail(s)[i - 1] = s[i]
    BY <1>2, <1>4
  <2> QED BY <1>1, <2>1, Zenon
<1> QED BY <1>3, <1>4, Zenon

LEMMA FoundInAppend ==
    ASSUME NEW s \in Seq(Events), NEW e \in Events, NEW c,
           Reports1(e, c) \/ \E i \in 1..Len(s) : Reports1(s[i], c)
    PROVE  \E i \in 1..Len(Append(s, e)) : Reports1(Append(s, e)[i], c)
<1>1. Len(s) \in Nat
  OBVIOUS
<1>2. CASE Reports1(e, c)
  BY <1>1, <1>2, AppendIn
<1>3. CASE \E i \in 1..Len(s) : Reports1(s[i], c)
  BY <1>1, <1>3, AppendIn
<1> QED BY <1>2, <1>3, Zenon

LEMMA Append1Keeps == ASSUME TrustInv, Append1 PROVE TrustInv'
<1>1. /\ rpc # <<>> /\ queue' = Append(queue, Head(rpc)) /\ rpc' = Tail(rpc)
      /\ UNCHANGED <<trustVars, snap, lane, sdm, owed, healthySeen>>
  BY Zenon DEF Append1
<1>2. rpc \in Seq(Events) /\ queue \in Seq(Events) /\ TrustTyped
  BY Zenon DEF TrustInv, TrustTyped
<1>3. Head(rpc) \in Events /\ rpc' \in Seq(Events) /\ queue' \in Seq(Events)
  BY <1>1, <1>2
<1>4. TrustTyped'
  BY <1>1, <1>2, <1>3, Zenon DEF TrustTyped, trustVars
<1>5. \A src : NoUp(rpc, src) => NoUp(rpc', src)
  BY <1>1, <1>2, TailWord, Zenon
<1>6. OneReport'
  BY <1>1, <1>5, Zenon DEF TrustInv, OneReport, trustVars
<1>7. UNCHANGED Critical
  BY <1>1, Zenon DEF Critical
<1>8. ASSUME NEW src \in {Group, AI}, NEW b, Goes(rpc, queue, Critical, b, src) PROVE Goes(rpc', queue', Critical', b, src)
  <2> DEFINE d == EndsDown(Critical, src) \/ (NoUp(Critical, src) /\ b)
  <2>1. LastWord(rpc, queue, d, src)
    BY <1>8, Zenon DEF Goes, LastWord
  <2> HIDE DEF d
  <2>2. LastWord(rpc', queue', d, src)
    BY <1>1, <1>2, <2>1, Moved, Zenon
  <2> QED BY <1>7, <2>2, Zenon DEF Goes, LastWord, d
<1>9. ASSUME NEW c \in Cams, UnderWay(c) PROVE UnderWay(c)'
  <2>1. CASE \E i \in 1..Len(rpc) : Reports1(rpc[i], c)
    <3>1. Reports1(Head(rpc), c) \/ \E i \in 1..Len(rpc') : Reports1(rpc'[i], c)
      BY <1>1, <1>2, <2>1, FoundInTail, Zenon
    <3>2. Reports1(Head(rpc), c) => \E i \in 1..Len(queue') : Reports1(queue'[i], c)
      BY <1>1, <1>2, <1>3, FoundInAppend, Zenon
    <3> QED BY <3>1, <3>2, Zenon DEF UnderWay
  <2>2. CASE \E i \in 1..Len(queue) : Reports1(queue[i], c)
    <3>1. \E i \in 1..Len(queue') : Reports1(queue'[i], c)
      BY <1>1, <1>2, <1>3, <2>2, FoundInAppend, Zenon
    <3> QED BY <3>1, Zenon DEF UnderWay
  <2>3. CASE \E i \in 1..Len(Critical) : Reports1(Critical[i], c)
    BY <1>7, <2>3, Zenon DEF UnderWay
  <2> QED BY <1>9, <2>1, <2>2, <2>3, Zenon DEF UnderWay
<1> QED BY <1>1, <1>4, <1>6, <1>8, <1>9, OnItsWay, Zenon

LEMMA DataKeeps ==
    ASSUME TrustInv, NEW src0 \in SensorConfig, NEW named \in {"right", "wrong"}, Data(src0, named)
    PROVE  TrustInv'
<1> DEFINE e == Ev("EVENT", src0, "none", named, FALSE)
<1>1. queue' = Append(queue, e) /\ UNCHANGED <<trustVars, rpc, snap, lane, sdm, owed, healthySeen>>
  BY Zenon DEF Data
<1>2. e \in Events /\ \A src : ~Ups(e, src)
  <2>1. src0 \in Sources /\ src0 # AI
    BY TrustAssumption, Zenon DEF SensorConfig, Sources
  <2> QED BY <2>1, TrustAssumption, Zenon DEF Ev, Events, Sources, TrustReports, AiReports, Ups
<1> HIDE DEF e
<1>3. rpc \in Seq(Events) /\ queue \in Seq(Events) /\ TrustTyped
  BY Zenon DEF TrustInv, TrustTyped
<1>4. TrustTyped'
  <2>1. Append(queue, e) \in Seq(Events)
    BY <1>2, <1>3
  <2> QED BY <1>1, <1>3, <2>1, Zenon DEF TrustTyped, trustVars
<1>5. OneReport'
  BY <1>1, Zenon DEF TrustInv, OneReport, trustVars
<1>6. UNCHANGED Critical
  BY <1>1, Zenon DEF Critical
<1>7. ASSUME NEW src \in {Group, AI}, NEW b, Goes(rpc, queue, Critical, b, src) PROVE Goes(rpc', queue', Critical', b, src)
  <2>1. (EndsDown(queue, src) => EndsDown(queue', src)) /\ (NoUp(queue, src) => NoUp(queue', src))
    BY <1>1, <1>2, <1>3, AppendWord, Zenon
  <2> QED BY <1>1, <1>6, <1>7, <2>1, Zenon DEF Goes, LastWord
<1>8. ASSUME NEW c \in Cams, UnderWay(c) PROVE UnderWay(c)'
  <2>1. (\E i \in 1..Len(queue) : Reports1(queue[i], c)) => \E i \in 1..Len(queue') : Reports1(queue'[i], c)
    BY <1>1, <1>2, <1>3, FoundInAppend, Zenon
  <2> QED BY <1>1, <1>6, <1>8, <2>1, Zenon DEF UnderWay
<1> QED BY <1>1, <1>4, <1>5, <1>7, <1>8, OnItsWay, Zenon

LEMMA SnapshotKeeps == ASSUME TrustInv, Snapshot PROVE TrustInv'
<1>1. snap' = Standing /\ UNCHANGED <<trustVars, rpc, queue, lane, sdm, owed, healthySeen>>
  BY Zenon DEF Snapshot
<1>2. TrustTyped /\ Standing \in Seq(Events)
  BY StandingFacts, Zenon DEF TrustInv
<1>3. TrustTyped'
  BY <1>1, <1>2, Zenon DEF TrustTyped, trustVars
<1>4. \A src : NoUp(Standing, src)
  BY <1>2, StandingFacts, Zenon DEF NoUp, Ups
<1>5. OneReport'
  BY <1>1, <1>4, Zenon DEF TrustInv, OneReport, trustVars
<1>6. UNCHANGED Critical
  BY <1>1, Zenon DEF Critical
<1>7. ASSUME NEW src \in {Group, AI}, NEW b, Goes(rpc, queue, Critical, b, src) PROVE Goes(rpc', queue', Critical', b, src)
  BY <1>1, <1>6, <1>7, Zenon
<1>8. ASSUME NEW c \in Cams, UnderWay(c) PROVE UnderWay(c)'
  BY <1>1, <1>6, <1>8, Zenon DEF UnderWay
<1> QED BY <1>1, <1>3, <1>5, <1>7, <1>8, OnItsWay, Zenon

LEMMA PushKeeps == ASSUME TrustInv, PushSnapshot PROVE TrustInv'
<1>1. /\ queue' = queue \o snap /\ snap' = <<>> /\ UNCHANGED <<trustVars, rpc, lane, sdm, healthySeen>>
      /\ owed' = owed \ {e.src : e \in Range(snap) \cap Range(Standing)}
  BY Zenon DEF PushSnapshot
<1>2. rpc \in Seq(Events) /\ queue \in Seq(Events) /\ snap \in Seq(Events) /\ TrustTyped /\ Standing \in Seq(Events)
  BY StandingFacts, Zenon DEF TrustInv, TrustTyped
<1>3. queue' \in Seq(Events) /\ snap' \in Seq(Events) /\ owed' \subseteq Sources
  BY <1>1, <1>2 DEF TrustTyped
<1>4. TrustTyped'
  BY <1>1, <1>2, <1>3, Zenon DEF TrustTyped, trustVars
<1>5. OneReport'
  BY <1>1 DEF TrustInv, OneReport, trustVars, NoUp
<1>6. UNCHANGED <<Critical, Heard(AI), Heard(Group)>>
  BY <1>1, Zenon DEF Critical, Heard
<1>7. ASSUME NEW src \in owed \ owed'
      PROVE  \E i \in 1..Len(snap), k \in 1..Len(Standing) : snap[i].src = src /\ snap[i] = Standing[k]
  <2>1. PICK e \in Range(snap) \cap Range(Standing) : e.src = src
    BY <1>1, Zenon
  <2>2. DOMAIN snap = 1..Len(snap) /\ DOMAIN Standing = 1..Len(Standing)
    BY <1>2
  <2> QED BY <2>1, <2>2, Zenon DEF Range
<1>8. ASSUME NEW src \in {Group, AI}, NEW b, Goes(rpc, queue, Critical, b, src) PROVE Goes(rpc', queue', Critical', b, src)
  <2>1. NoUp(snap, src)
    BY Zenon DEF TrustInv, OneReport
  <2>2. (EndsDown(queue, src) => EndsDown(queue', src)) /\ (NoUp(queue, src) => NoUp(queue', src))
    BY <1>1, <1>2, <2>1, ConcatWord, Zenon
  <2> QED BY <1>1, <1>6, <1>8, <2>2, Zenon DEF Goes, LastWord
<1>9. ASSUME NEW src \in {Group, AI}, src \in owed \ owed' PROVE StaysDown(src)'
  <2>1. PICK i \in 1..Len(snap), k \in 1..Len(Standing) : snap[i].src = src /\ snap[i] = Standing[k]
    BY <1>7, <1>9, Zenon
  <2>2. Downs(snap[i], src) /\ (src = Group => emitted = "Untrusted") /\ (src = AI => aiInvalid)
    BY <1>2, <1>9, <2>1, StandingFacts, Zenon DEF Downs
  <2>3. NoUp(snap, src) /\ NoUp(rpc, src)
    BY <1>9, <2>2, Zenon DEF TrustInv, OneReport
  <2>4. EndsDown(queue', src)
    BY <1>1, <1>2, <2>2, <2>3, ConcatWord, Zenon
  <2> QED BY <1>1, <2>3, <2>4, Zenon DEF StaysDown, Goes, LastWord
<1>10. EvaluateGroupVerdict(invalid)' = EvaluateGroupVerdict(invalid)
  BY <1>1, Zenon DEF EvaluateGroupVerdict, trustVars
<1>11. GroupTold' /\ LossCovered'
  <2>1. StaysDown(Group) => StaysDown(Group)'
    BY <1>6, <1>8, Zenon DEF StaysDown
  <2>2. GroupTold'
    BY <1>1, <1>9, <1>10, <2>1, Zenon DEF TrustInv, GroupTold, trustVars
  <2>3. LossCovered'
    BY <1>1, <1>8, Zenon DEF TrustInv, LossCovered, trustVars
  <2> QED BY <2>2, <2>3, Zenon
<1>12. PipelineTold'
  <2>1. StaysDown(AI) => StaysDown(AI)'
    BY <1>6, <1>8, Zenon DEF StaysDown
  <2> QED BY <1>1, <1>9, <2>1, Zenon DEF TrustInv, PipelineTold, trustVars
<1>13. /\ Len(snap) \in Nat /\ Len(queue) \in Nat /\ Len(queue') = Len(queue) + Len(snap)
       /\ \A i \in 1..Len(queue) : queue'[i] = queue[i]
       /\ \A i \in 1..Len(snap) : queue'[Len(queue) + i] = snap[i]
  BY <1>1, <1>2
<1>14. CamerasTold'
  <2> SUFFICES ASSUME members = {}, NEW c \in Cams, invalid[c] = "FAULT", c \notin owed'
               PROVE  (c \in sdm.failed \/ UnderWay(c))'
    BY <1>1, Zenon DEF CamerasTold, trustVars
  <2>1. CASE c \in owed
    <3>1. PICK i \in 1..Len(snap), k \in 1..Len(Standing) : snap[i].src = c /\ snap[i] = Standing[k]
      BY <1>7, <2>1
    <3>2. snap[i].type \in {"SENSOR_INVALID", "AI_PIPELINE_INVALID"} /\ ~snap[i].late /\ snap[i].cause = invalid[c]
      BY <1>2, <3>1, StandingFacts, Zenon
    <3>3. snap[i] \in Events /\ c # AI
      BY <1>2, ElementOfSeq, TrustAssumption, Zenon
    <3>4. snap[i].type = "SENSOR_INVALID"
      BY <3>1, <3>2, <3>3, Zenon DEF Events, AiReports
    <3>5. Reports1(snap[i], c)
      BY <3>1, <3>2, <3>4, Zenon DEF Reports1
    <3>6. Len(queue) + i \in 1..Len(queue') /\ Reports1(queue'[Len(queue) + i], c)
      BY <1>13, <3>5
    <3>7. \E j \in 1..Len(queue') : Reports1(queue'[j], c)
      BY <3>6, Zenon
    <3> QED BY <3>7, Zenon DEF UnderWay
  <2>2. CASE c \notin owed
    <3>1. c \in sdm.failed \/ UnderWay(c)
      BY <2>2, Zenon DEF TrustInv, CamerasTold
    <3>2. (\E i \in 1..Len(queue) : Reports1(queue[i], c)) => \E i \in 1..Len(queue') : Reports1(queue'[i], c)
      BY <1>13
    <3> QED BY <1>1, <1>6, <3>1, <3>2, Zenon DEF UnderWay
  <2> QED BY <2>1, <2>2, Zenon
<1> QED BY <1>4, <1>5, <1>11, <1>12, <1>14, Zenon DEF TrustInv

(* A source's trust is a pair of flags.                                     *)
LEMMA TrustPair ==
    ASSUME TrustTyped, NEW src
    PROVE  /\ QueryTrustState(src) \in [sensor : BOOLEAN, ai : BOOLEAN]
           /\ QueryTrustState(src).ai = ~aiInvalid
           /\ src \in Cams /\ members = {} => QueryTrustState(src).sensor = (invalid[src] = "valid")
<1> DEFINE s == IF IsSensorGroupId(src) THEN EvaluateGroupVerdict(invalid) # "Untrusted"
                ELSE src \notin Cams \/ invalid[src] = "valid"
<1>1. s \in BOOLEAN
  BY Zenon
<1>2. QueryTrustState(src) = [sensor |-> s, ai |-> ~aiInvalid]
  BY Zenon DEF QueryTrustState
<1>3. src \in Cams /\ members = {} => s = (invalid[src] = "valid")
  BY Zenon DEF IsSensorGroupId
<1> HIDE DEF s
<1> QED BY <1>1, <1>2, <1>3

LEMMA HandleKeeps == ASSUME TrustInv, HandleEvent PROVE TrustInv'
<1> DEFINE ev == Head(queue)
           trust == QueryTrustState(ev.src)
           untrusted == ~trust.sensor \/ ~trust.ai
           l == LaneOf(ev, trust)
           x == [ev |-> ev, trust |-> trust]
<1>1. /\ queue # <<>> /\ queue' = Tail(queue) /\ UNCHANGED <<trustVars, rpc, snap, sdm, owed, healthySeen>>
      /\ lane' = IF ~untrusted /\ ~ValidateEventSource(ev) THEN lane ELSE [lane EXCEPT ![l] = Append(@, x)]
  BY ZenonT(40) DEF HandleEvent
<1>2. /\ queue \in Seq(Events) /\ TrustTyped /\ ev \in Events /\ queue' \in Seq(Events)
      /\ lane \in [critical : Seq(Staged), operational : Seq(Staged)]
      /\ \A i \in 1..Len(lane.operational) : lane.operational[i].ev.type = "EVENT"
  BY <1>1 DEF TrustInv, TrustTyped
<1>3. trust \in [sensor : BOOLEAN, ai : BOOLEAN] /\ (ev.src \in Cams /\ members = {} => trust.sensor = (invalid[ev.src] = "valid"))
  BY <1>2, TrustPair, Zenon
<1>4. x \in Staged /\ x.ev = ev
  BY <1>2, <1>3, Zenon DEF Staged
<1>5. /\ l \in {"critical", "operational"} /\ (l = "operational" => ev.type = "EVENT")
      /\ ev.type # "EVENT" => l = "critical"
  BY <1>2, Zenon DEF LaneOf, Events, TrustReports
<1> HIDE DEF ev, trust, untrusted, l, x
<1>6. \/ lane' = lane /\ ~untrusted /\ ~ValidateEventSource(ev)
      \/ /\ l = "critical" /\ lane'.critical = Append(lane.critical, x) /\ lane'.operational = lane.operational
         /\ lane' \in [critical : Seq(Staged), operational : Seq(Staged)]
      \/ /\ ev.type = "EVENT" /\ lane'.operational = Append(lane.operational, x) /\ lane'.critical = lane.critical
         /\ lane' \in [critical : Seq(Staged), operational : Seq(Staged)]
  <2>1. /\ lane.critical \in Seq(Staged) /\ lane.operational \in Seq(Staged)
        /\ lane = [critical |-> lane.critical, operational |-> lane.operational]
    BY <1>2, Zenon
  <2>2. Append(lane.critical, x) \in Seq(Staged) /\ Append(lane.operational, x) \in Seq(Staged)
    BY <1>4, <2>1
  <2>3. CASE ~untrusted /\ ~ValidateEventSource(ev)
    BY <1>1, <2>3, Zenon
  <2>4. CASE ~(~untrusted /\ ~ValidateEventSource(ev)) /\ l = "critical"
    <3>1. lane' = [lane EXCEPT !["critical"] = Append(lane.critical, x)]
      BY <1>1, <2>4, Zenon
    <3>2. lane' = [critical |-> Append(lane.critical, x), operational |-> lane.operational]
      BY <2>1, <3>1, Zenon
    <3> QED BY <2>1, <2>2, <2>4, <3>2, Zenon
  <2>5. CASE ~(~untrusted /\ ~ValidateEventSource(ev)) /\ l = "operational"
    <3>1. lane' = [lane EXCEPT !["operational"] = Append(lane.operational, x)]
      BY <1>1, <2>5, Zenon
    <3>2. lane' = [critical |-> lane.critical, operational |-> Append(lane.operational, x)]
      BY <2>1, <3>1, Zenon
    <3> QED BY <1>5, <2>1, <2>2, <2>5, <3>2, Zenon
  <2> QED BY <1>5, <2>3, <2>4, <2>5, Zenon
<1>7. /\ lane' \in [critical : Seq(Staged), operational : Seq(Staged)]
      /\ \A i \in 1..Len(lane'.operational) : lane'.operational[i].ev.type = "EVENT"
  <2>1. CASE lane'.operational = lane.operational
    BY <1>2, <1>6, <2>1, Zenon
  <2>2. CASE ev.type = "EVENT" /\ lane'.operational = Append(lane.operational, x)
    <3>1. lane.operational \in Seq(Staged)
      BY <1>2, Zenon
    <3>2. \A i \in 1..Len(lane'.operational) : lane'.operational[i] = x \/ \E k \in 1..Len(lane.operational) : lane'.operational[i] = lane.operational[k]
      BY <1>4, <2>2, <3>1
    <3> QED BY <1>2, <1>4, <1>6, <2>2, <3>2
  <2> QED BY <1>6, <2>1, <2>2, Zenon
<1>8. TrustTyped'
  BY <1>1, <1>2, <1>7, Zenon DEF TrustTyped, trustVars
<1>9. OneReport'
  BY <1>1, Zenon DEF TrustInv, OneReport, trustVars
<1>10. /\ Critical \in Seq(Events) /\ (Critical' = Critical \/ Critical' = Append(Critical, ev))
       /\ ev.type # "EVENT" /\ lane' # lane => Critical' = Append(Critical, ev)
  <2>1. Critical \in Seq(Events) /\ lane.critical \in Seq(Staged)
    BY <1>2, LaneType, Zenon
  <2>2. EventsOf(Append(lane.critical, x)) = Append(Critical, ev)
    BY <1>4, <2>1, EventsOfType, Zenon DEF Critical
  <2> QED BY <1>6, <2>1, <2>2, Zenon DEF Critical
<1>11. ASSUME NEW src \in {Group, AI}, NEW b, src = Group => members # {}, Goes(rpc, queue, Critical, b, src)
       PROVE  Goes(rpc', queue', Critical', b, src)
  <2>1. Downs(ev, src) => ValidateEventSource(ev) /\ ev.type # "EVENT"
    BY <1>11, Zenon DEF Downs, ValidateEventSource, SensorConfig
  <2>2. Critical' = Append(Critical, ev) \/ (Critical' = Critical /\ ~Downs(ev, src))
    BY <1>6, <1>10, <2>1
  <2>3. LastWord(queue, Critical, b, src) => LastWord(queue', Critical', b, src)
    BY <1>1, <1>2, <1>10, <2>2, Moved, Zenon DEF ev
  <2> QED BY <1>1, <1>11, <2>3, Zenon DEF Goes
<1>12. ASSUME NEW c \in Cams, UnderWay(c), members = {}, invalid[c] = "FAULT" PROVE UnderWay(c)'
  <2>1. Reports1(ev, c) => Critical' = Append(Critical, ev)
    BY <1>3, <1>6, <1>10, <1>12 DEF Reports1, untrusted
  <2>2. CASE \E i \in 1..Len(rpc) : Reports1(rpc[i], c)
    BY <1>1, <2>2, Zenon DEF UnderWay
  <2>3. CASE \E i \in 1..Len(queue) : Reports1(queue[i], c)
    <3>1. Reports1(ev, c) \/ \E i \in 1..Len(queue') : Reports1(queue'[i], c)
      BY <1>1, <1>2, <2>3, FoundInTail, Zenon DEF ev
    <3>2. Reports1(ev, c) => \E i \in 1..Len(Critical') : Reports1(Critical'[i], c)
      BY <1>2, <1>10, <2>1, FoundInAppend, Zenon
    <3> QED BY <3>1, <3>2, Zenon DEF UnderWay
  <2>4. CASE \E i \in 1..Len(Critical) : Reports1(Critical[i], c)
    <3>1. \E i \in 1..Len(Critical') : Reports1(Critical'[i], c)
      BY <1>2, <1>10, <2>4, FoundInAppend, Zenon
    <3> QED BY <3>1, Zenon DEF UnderWay
  <2> QED BY <1>12, <2>2, <2>3, <2>4, Zenon DEF UnderWay
<1> QED BY <1>1, <1>8, <1>9, <1>11, <1>12, OnItsWay, Zenon

(* What one delivered event leaves of the decision module's view: a failure *)
(* it holds goes only with an event that brings the source up, with an      *)
(* ordinary event of the group, or once the daemon trusts the camera.       *)
ViewAfter(ev, healthy, trusted) == HearsAi(Hears(sdm, ev, healthy, trusted), ev)
LEMMA ViewKeeps ==
    ASSUME TrustTyped, NEW ev \in Events, NEW healthy \in BOOLEAN, NEW trusted \in BOOLEAN
    PROVE  LET after == ViewAfter(ev, healthy, trusted) IN
           /\ after \in [failed : SUBSET Sources, init : SUBSET Sources, ai : BOOLEAN]
           /\ Downs(ev, Group) /\ members # {} => Group \in after.failed
           /\ Group \in sdm.failed /\ ~Ups(ev, Group) => Group \in after.failed \/ ev.type = "EVENT"
           /\ Downs(ev, AI) => after.ai
           /\ sdm.ai /\ ~Ups(ev, AI) => after.ai
           /\ \A c \in Cams : /\ Reports1(ev, c) /\ members = {} => c \in after.failed
                              /\ c \in sdm.failed /\ (ev.src = c => ~healthy) => c \in after.failed
<1> DEFINE mid == Hears(sdm, ev, healthy, trusted)
           after == HearsAi(mid, ev)
<1>1. /\ sdm \in [failed : SUBSET Sources, init : SUBSET Sources, ai : BOOLEAN]
      /\ ev.src \in Sources /\ (ev.type \in AiReports <=> ev.src = AI)
      /\ ev.type \in TrustReports \cup {"EVENT"}
  BY Zenon DEF TrustTyped, Events
<1>2. mid \in [failed : SUBSET Sources, init : SUBSET Sources, ai : BOOLEAN] /\ mid.ai = sdm.ai
  BY <1>1, Zenon DEF Hears
<1>3. Group # AI /\ Group \notin Cams /\ AI \notin Cams
  BY TrustAssumption, Zenon
<1>4. Downs(ev, Group) /\ members # {} => Group \in mid.failed
  BY <1>1, <1>3, Zenon DEF Hears, Downs, IsRequiredSourcePipeline, AiReports
<1>5. Group \in sdm.failed /\ ~Ups(ev, Group) => Group \in mid.failed \/ ev.type = "EVENT"
  BY <1>1, <1>3, Zenon DEF Hears, Ups, AiReports, TrustReports
<1>6. ASSUME NEW c \in Cams
      PROVE  /\ Reports1(ev, c) /\ members = {} => c \in mid.failed
             /\ c \in sdm.failed /\ (ev.src = c => ~healthy) => c \in mid.failed
  BY <1>1, Zenon DEF Hears, Reports1, IsRequiredSourcePipeline, SensorConfig
<1> HIDE DEF mid
<1>7. after \in [failed : SUBSET Sources, init : SUBSET Sources, ai : BOOLEAN] /\ after.failed = mid.failed
  BY <1>2, Zenon DEF HearsAi
<1>8. (Downs(ev, AI) => after.ai) /\ (sdm.ai /\ ~Ups(ev, AI) => after.ai)
  BY <1>1, <1>2, Zenon DEF HearsAi, Downs, Ups, AiReports
<1> HIDE DEF after
<1>9. ViewAfter(ev, healthy, trusted) = after
  BY Zenon DEF ViewAfter, after, mid
<1> QED BY <1>4, <1>5, <1>6, <1>7, <1>8, <1>9, Zenon

LEMMA DeliverKeeps ==
    ASSUME TrustInv, NEW l \in {"critical", "operational"}, Deliver(l)
    PROVE  TrustInv'
<1> DEFINE q == lane[l][1]
           ev == q.ev
           now == QueryTrustState(ev.src)
           healthy == now.sensor /\ q.trust.sensor
           trusted == now.ai /\ q.trust.ai
           after == ViewAfter(ev, healthy, trusted)
           pendingClear == ev.type = "EVENT" /\ Group \in sdm.failed \ after.failed
<1>1. /\ lane[l] # <<>> /\ lane' = [lane EXCEPT ![l] = Tail(@)] /\ sdm' = after
      /\ owed' = (IF pendingClear THEN owed \cup {Group} ELSE owed)
      /\ UNCHANGED <<trustVars, rpc, snap, queue, healthySeen>>
  BY Zenon DEF Deliver, ViewAfter
<1>2. /\ TrustTyped /\ lane \in [critical : Seq(Staged), operational : Seq(Staged)]
      /\ lane.critical \in Seq(Staged) /\ lane.operational \in Seq(Staged)
      /\ \A i \in 1..Len(lane.operational) : lane.operational[i].ev.type = "EVENT"
  BY Zenon DEF TrustInv, TrustTyped
<1>3. lane[l] \in Seq(Staged)
  BY <1>2, Zenon
<1>4. q \in Staged
  <2>1. lane[l] # <<>>
    BY <1>1, Zenon
  <2>2. Len(lane[l]) \in Nat \ {0}
    BY <1>3, <2>1
  <2> QED BY <1>3, <2>2, ElementOfSeq
<1>5. ev \in Events /\ q.trust \in [sensor : BOOLEAN, ai : BOOLEAN]
  BY <1>4, Zenon DEF Staged
<1>6. now \in [sensor : BOOLEAN, ai : BOOLEAN] /\ (ev.src \in Cams /\ members = {} => now.sensor = (invalid[ev.src] = "valid"))
  BY <1>2, TrustPair, Zenon
<1>7. healthy \in BOOLEAN /\ trusted \in BOOLEAN /\ (ev.src \in Cams /\ members = {} /\ invalid[ev.src] = "FAULT" => ~healthy)
  BY <1>5, <1>6, ZenonT(40)
<1> HIDE DEF now, healthy, trusted
<1>8. /\ after \in [failed : SUBSET Sources, init : SUBSET Sources, ai : BOOLEAN]
      /\ Downs(ev, Group) /\ members # {} => Group \in after.failed
      /\ Group \in sdm.failed /\ ~Ups(ev, Group) => Group \in after.failed \/ ev.type = "EVENT"
      /\ Downs(ev, AI) => after.ai
      /\ sdm.ai /\ ~Ups(ev, AI) => after.ai
      /\ \A c \in Cams : /\ Reports1(ev, c) /\ members = {} => c \in after.failed
                         /\ c \in sdm.failed /\ (ev.src = c => ~healthy) => c \in after.failed
  BY <1>2, <1>5, <1>7, ViewKeeps, ZenonT(40)
<1> HIDE DEF after
<1>9. /\ lane' \in [critical : Seq(Staged), operational : Seq(Staged)]
      /\ \/ l = "critical" /\ lane'.critical = Tail(lane.critical) /\ lane'.operational = lane.operational
         \/ l = "operational" /\ lane'.critical = lane.critical /\ lane'.operational = Tail(lane.operational)
  <2>1. lane = [critical |-> lane.critical, operational |-> lane.operational] /\ Tail(lane[l]) \in Seq(Staged)
    <3>1. lane = [critical |-> lane.critical, operational |-> lane.operational]
      BY <1>2, Zenon
    <3>2. lane[l] # <<>>
      BY <1>1, Zenon
    <3>3. Tail(lane[l]) \in Seq(Staged)
      BY <1>3, <3>2
    <3> QED BY <3>1, <3>3, Zenon
  <2>2. CASE l = "critical"
    <3>1. lane' = [critical |-> Tail(lane.critical), operational |-> lane.operational]
      BY <1>1, <2>1, <2>2, Zenon
    <3> QED BY <1>2, <2>1, <2>2, <3>1, Zenon
  <2>3. CASE l = "operational"
    <3>1. lane' = [critical |-> lane.critical, operational |-> Tail(lane.operational)]
      BY <1>1, <2>1, <2>3, Zenon
    <3> QED BY <1>2, <2>1, <2>3, <3>1, Zenon
  <2> QED BY <2>2, <2>3, Zenon
<1>10. \A i \in 1..Len(lane'.operational) : lane'.operational[i].ev.type = "EVENT"
  <2>1. CASE l = "operational"
    <3>1. \A i \in 1..Len(lane'.operational) : \E k \in 1..Len(lane.operational) : lane'.operational[i] = lane.operational[k]
      <4>1. lane'.operational = Tail(lane.operational) /\ lane.operational # <<>>
        BY <1>1, <1>9, <2>1, Zenon
      <4>2. lane.operational \in Seq(Staged)
        BY <1>2, Zenon
      <4> QED BY <4>1, <4>2
    <3> QED BY <1>2, <3>1, Zenon
  <2> QED BY <1>2, <1>9, <2>1, Zenon
<1>11. TrustTyped'
  <2>1. sdm' \in [failed : SUBSET Sources, init : SUBSET Sources, ai : BOOLEAN]
    BY <1>1, <1>8, Zenon
  <2>2. owed' \subseteq Sources
    BY <1>1, <1>2, Zenon DEF TrustTyped, Sources
  <2>3. lane'.operational = (lane.operational)'
    BY Zenon
  <2> QED BY <1>1, <1>2, <1>9, <1>10, <2>1, <2>2, Zenon DEF TrustTyped, trustVars
<1>12. OneReport'
  BY <1>1, Zenon DEF TrustInv, OneReport, trustVars
<1>13. /\ Critical \in Seq(Events)
       /\ \/ Critical # <<>> /\ Critical' = Tail(Critical) /\ Head(Critical) = ev
          \/ Critical' = Critical /\ ev.type = "EVENT"
  <2>1. Critical \in Seq(Events)
    BY <1>2, LaneType, Zenon
  <2>2. CASE l = "critical"
    BY <1>1, <1>2, <1>9, <2>1, <2>2, EventsOfType, Zenon DEF Critical
  <2>3. CASE l = "operational"
    <3>1. 1 \in 1..Len(lane.operational)
      BY <1>1, <1>2, <2>3
    <3> QED BY <1>2, <1>9, <2>1, <2>3, <3>1, Zenon DEF Critical
  <2> QED BY <2>2, <2>3, Zenon
<1>14. Group # AI /\ (Heard(Group)' <=> Group \in after.failed) /\ (Heard(AI)' <=> after.ai)
       /\ (Heard(Group) <=> Group \in sdm.failed) /\ (Heard(AI) <=> sdm.ai)
  BY <1>1, TrustAssumption, Zenon DEF Heard
<1>15. ASSUME NEW src \in {Group, AI}, StaysDown(src), src = Group => members # {} /\ ~pendingClear
       PROVE  StaysDown(src)'
  <2>1. Downs(ev, src) => Heard(src)'
    BY <1>8, <1>14, <1>15, Zenon
  <2>2. Heard(src) /\ ~Ups(ev, src) => Heard(src)'
    BY <1>8, <1>14, <1>15, Zenon
  <2>3. ev.type = "EVENT" => ~Ups(ev, src) /\ ~Downs(ev, src)
    BY Zenon DEF Ups, Downs
  <2> HIDE DEF ev, q, pendingClear
  <2>4. Critical # <<>> => /\ EndsDown(Critical, src) => \/ EndsDown(Tail(Critical), src)
                                                         \/ Downs(Head(Critical), src) /\ NoUp(Tail(Critical), src)
                           /\ NoUp(Critical, src) => ~Ups(Head(Critical), src) /\ NoUp(Tail(Critical), src)
    BY <1>13, TailWord, Zenon
  <2>5. /\ EndsDown(Critical, src) => EndsDown(Critical', src) \/ (NoUp(Critical', src) /\ Heard(src)')
        /\ NoUp(Critical, src) /\ Heard(src) => NoUp(Critical', src) /\ Heard(src)'
    BY <1>13, <2>1, <2>2, <2>3, <2>4, Zenon
  <2>6. LastWord(queue, Critical, Heard(src), src) => LastWord(queue, Critical', Heard(src)', src)
    BY <2>5, Zenon DEF LastWord
  <2> QED BY <1>1, <1>15, <2>6, Zenon DEF StaysDown, Goes
<1>16. LossCovered'
  <2> HIDE DEF ev, q, pendingClear
  <2>2. /\ EndsDown(Critical, Group) => EndsDown(Critical', Group) \/ NoUp(Critical', Group)
        /\ NoUp(Critical, Group) => NoUp(Critical', Group)
    BY <1>13, TailWord, Zenon
  <2>3. Goes(rpc, queue, Critical, TRUE, Group) => Goes(rpc, queue, Critical', TRUE, Group)
    BY <2>2, Zenon DEF Goes, LastWord
  <2> QED BY <1>1, <2>3, Zenon DEF TrustInv, LossCovered, trustVars
<1>17. EvaluateGroupVerdict(invalid)' = EvaluateGroupVerdict(invalid)
  BY <1>1, Zenon DEF EvaluateGroupVerdict, trustVars
<1>18. GroupTold'
  <2>1. Group \notin owed' => Group \notin owed /\ ~pendingClear
    BY <1>1, Zenon
  <2> QED BY <1>1, <1>15, <1>17, <2>1, Zenon DEF TrustInv, GroupTold, trustVars
<1>19. PipelineTold'
  <2>1. AI \notin owed' => AI \notin owed
    BY <1>1, Zenon
  <2> QED BY <1>1, <1>14, <1>15, <2>1, Zenon DEF TrustInv, PipelineTold, trustVars
<1>20. CamerasTold'
  <2> SUFFICES ASSUME members = {}, NEW c \in Cams, invalid[c] = "FAULT", c \notin owed'
               PROVE  c \in after.failed \/ UnderWay(c)'
    BY <1>1, Zenon DEF CamerasTold, trustVars
  <2>1. c \in sdm.failed => c \in after.failed
    BY <1>7, <1>8, Zenon
  <2>2. Reports1(ev, c) => c \in after.failed
    BY <1>8, Zenon
  <2>3. c \in sdm.failed \/ UnderWay(c)
    BY <1>1, Zenon DEF TrustInv, CamerasTold
  <2>4. CASE \E i \in 1..Len(Critical) : Reports1(Critical[i], c)
    <3>1. Reports1(ev, c) \/ \E i \in 1..Len(Critical') : Reports1(Critical'[i], c)
      BY <1>13, <2>4, FoundInTail, Zenon
    <3> QED BY <2>2, <3>1, Zenon DEF UnderWay
  <2>5. CASE \E i \in 1..Len(rpc) : Reports1(rpc[i], c)
    BY <1>1, <2>5, Zenon DEF UnderWay
  <2>6. CASE \E i \in 1..Len(queue) : Reports1(queue[i], c)
    BY <1>1, <2>6, Zenon DEF UnderWay
  <2> QED BY <2>1, <2>3, <2>4, <2>5, <2>6, Zenon DEF UnderWay
<1> QED BY <1>11, <1>12, <1>18, <1>19, <1>20, <1>16, Zenon DEF TrustInv

LEMMA RestartKeeps == ASSUME TrustInv, Restart PROVE TrustInv'
<1>1. /\ sdm' = [failed |-> {}, init |-> {}, ai |-> FALSE] /\ owed' = Sources
      /\ UNCHANGED <<trustVars, rpc, snap, queue, lane, healthySeen>>
  BY Zenon DEF Restart
<1>2. TrustTyped'
  BY <1>1, Zenon DEF TrustInv, TrustTyped, trustVars
<1>3. OneReport'
  BY <1>1, Zenon DEF TrustInv, OneReport, trustVars
<1>4. EvaluateGroupVerdict(invalid)' = EvaluateGroupVerdict(invalid)
  BY <1>1, Zenon DEF EvaluateGroupVerdict, trustVars
<1>5. GroupTold' /\ PipelineTold' /\ CamerasTold'
  BY <1>1, <1>4, Zenon DEF TrustInv, GroupTold, PipelineTold, CamerasTold, Sources, trustVars
<1>6. LossCovered'
  BY <1>1, Zenon DEF TrustInv, LossCovered, Critical, trustVars
<1> QED BY <1>2, <1>3, <1>5, <1>6, Zenon DEF TrustInv

LEMMA TrustStarts == TrustInit => TrustInv
<1> SUFFICES ASSUME TrustInit PROVE TrustInv
  BY Zenon
<1>1. /\ members \in {{}, Cams} /\ invalid = [c \in Cams |-> "valid"] /\ aiInvalid = FALSE /\ emitted = "Trusted"
      /\ rpc = <<>> /\ snap = <<>> /\ queue = <<>> /\ lane = [critical |-> <<>>, operational |-> <<>>]
      /\ sdm = [failed |-> {}, init |-> {}, ai |-> FALSE] /\ owed = {} /\ healthySeen = TRUE
  BY Zenon DEF TrustInit
<1>2. <<>> \in Seq(Events) /\ <<>> \in Seq(Staged) /\ Len(<<>>) = 0
  BY EmptySeq, Zenon
<1>3. TrustTyped
  <2>1. /\ invalid \in [Cams -> {"valid", "INIT", "FAULT"}] /\ owed \subseteq Sources
        /\ sdm \in [failed : SUBSET Sources, init : SUBSET Sources, ai : BOOLEAN]
    BY <1>1, Zenon
  <2>2. lane \in [critical : Seq(Staged), operational : Seq(Staged)] /\ Len(lane.operational) = 0
    BY <1>1, <1>2, Zenon
  <2>3. \A i \in 1..Len(lane.operational) : lane.operational[i].ev.type = "EVENT"
    BY <2>2
  <2> QED BY <1>1, <1>2, <2>1, <2>2, <2>3, Zenon DEF TrustTyped
<1>4. OneReport
  BY <1>1 DEF OneReport, NoUp
<1>5. GroupTold
  <2>1. members # {} => \E m \in members : invalid[m] = "valid"
    BY <1>1, Zenon
  <2> QED BY <1>1, <2>1, Zenon DEF GroupTold, EvaluateGroupVerdict
<1>6. LossCovered /\ PipelineTold /\ CamerasTold
  BY <1>1, Zenon DEF LossCovered, PipelineTold, CamerasTold
<1> QED BY <1>3, <1>4, <1>5, <1>6, Zenon DEF TrustInv

LEMMA TrustStep == TrustInv /\ [TrustNext]_tvVars => TrustInv'
<1> SUFFICES ASSUME TrustInv, [TrustNext]_tvVars PROVE TrustInv'
  BY Zenon
<1>1. ASSUME Reports PROVE TrustInv'
  <2>1. ASSUME NEW c \in Cams, NEW named \in {"right", "empty", "wrong"}, NEW late \in BOOLEAN,
               NEW cause \in {"INIT", "FAULT"}, Report(Ev("SENSOR_INVALID", c, cause, named, late))
        PROVE  TrustInv'
    <3>1. Ev("SENSOR_INVALID", c, cause, named, late) \in MonitorReports
      BY TrustAssumption, Zenon DEF MonitorReports, Events, Ev, TrustReports, Sources, AiReports
    <3> QED BY <2>1, <3>1, ReportKeeps, Zenon
  <2>2. ASSUME NEW c \in Cams, NEW named \in {"right", "empty", "wrong"}, NEW late \in BOOLEAN,
               Report(Ev("SENSOR_VALID", c, "none", named, late))
        PROVE  TrustInv'
    <3>1. Ev("SENSOR_VALID", c, "none", named, late) \in MonitorReports
      BY TrustAssumption, Zenon DEF MonitorReports, Events, Ev, TrustReports, Sources, AiReports
    <3> QED BY <2>2, <3>1, ReportKeeps, Zenon
  <2>3. ASSUME NEW type \in {"AI_PIPELINE_INVALID", "AI_PIPELINE_VALID"}, Report(Ev(type, AI, "none", "right", FALSE))
        PROVE  TrustInv'
    <3>1. Ev(type, AI, "none", "right", FALSE) \in MonitorReports
      BY TrustAssumption, Zenon DEF MonitorReports, Events, Ev, TrustReports, Sources, AiReports
    <3> QED BY <2>3, <3>1, ReportKeeps, Zenon
  <2> QED BY <1>1, <2>1, <2>2, <2>3, Zenon DEF Reports
<1>2. ASSUME UNCHANGED tvVars PROVE TrustInv'
  <2>1. UNCHANGED <<trustVars, sdm, owed, rpc, snap, queue, lane, healthySeen>>
    BY <1>2, Zenon DEF tvVars
  <2>2. TrustTyped' /\ OneReport'
    BY <2>1, Zenon DEF TrustInv, TrustTyped, OneReport, trustVars
  <2>3. UNCHANGED Critical
    BY <2>1, Zenon DEF Critical
  <2>4. \A src, b : Goes(rpc, queue, Critical, b, src) => Goes(rpc', queue', Critical', b, src)
    BY <2>1, <2>3, Zenon
  <2>5. ASSUME NEW c \in Cams, UnderWay(c) PROVE UnderWay(c)'
    BY <2>1, <2>3, <2>5, Zenon DEF UnderWay
  <2> QED BY <2>1, <2>2, <2>4, <2>5, OnItsWay, Zenon
<1> QED
  BY <1>1, <1>2, DataKeeps, Append1Keeps, SnapshotKeeps, PushKeeps, HandleKeeps, DeliverKeeps, RestartKeeps, Zenon
  DEF TrustNext

(* What the daemon holds failed, a source or the AI pipeline, the decision  *)
(* module holds failed too, once nothing about it is under way: no order of *)
(* OnTrustReport, ReassertStandingVerdicts, HandleFusedEvents and delivery  *)
(* loses a failure.                                                         *)
THEOREM NoVerdictLost == TrustSpec => []VerdictsTold
<1>1. TrustInv => VerdictsTold
  <2> SUFFICES ASSUME TrustInv PROVE VerdictsTold
    BY Zenon
  <2>1. /\ \A i \in 1..Len(rpc) : rpc[i].src \in InFlight
        /\ \A i \in 1..Len(queue) : queue[i].src \in InFlight
        /\ \A i \in 1..Len(Critical) : Critical[i].src \in InFlight
    <3>1. "critical" \in DOMAIN lane /\ Len(Critical) = Len(lane.critical)
      BY LaneType, Zenon DEF TrustInv, TrustTyped
    <3>2. \A i \in 1..Len(Critical) : Critical[i].src = lane["critical"][i].ev.src
      BY <3>1, Zenon DEF Critical, EventsOf
    <3>3. \A i \in 1..Len(lane["critical"]) : lane["critical"][i].ev.src \in InFlight
      BY <3>1 DEF InFlight
    <3>4. \A i \in 1..Len(rpc) : rpc[i].src \in InFlight
      BY Zenon DEF InFlight
    <3>5. \A i \in 1..Len(queue) : queue[i].src \in InFlight
      BY Zenon DEF InFlight
    <3> QED BY <3>1, <3>2, <3>3, <3>4, <3>5, Zenon
  <2>2. ASSUME NEW src, src \notin InFlight, StaysDown(src) PROVE Heard(src)
    <3>1. ~EndsDown(rpc, src) /\ ~EndsDown(queue, src) /\ ~EndsDown(Critical, src)
      BY <2>1, <2>2, Zenon DEF EndsDown, Downs
    <3> QED BY <2>2, <3>1, Zenon DEF StaysDown, Goes, LastWord
  <2>3. AiTold
    <3> SUFFICES ASSUME AI \notin InFlight \cup owed, aiInvalid PROVE sdm.ai
      BY Zenon DEF AiTold
    <3>1. StaysDown(AI)
      BY Zenon DEF TrustInv, PipelineTold
    <3> QED BY <2>2, <3>1, Zenon DEF Heard
  <2>4. FailureTold
    <3> SUFFICES ASSUME NEW src \in Cams \cup {Group}, IsRequiredSourcePipeline(src), Fails(src),
                        src \notin InFlight \cup owed
                 PROVE  src \in sdm.failed
      BY Zenon DEF FailureTold
    <3>1. CASE members # {}
      <4>1. src = Group /\ EvaluateGroupVerdict(invalid) = "Untrusted"
        BY <3>1, Zenon DEF IsRequiredSourcePipeline, Fails, IsSensorGroupId
      <4>2. StaysDown(Group)
        BY <3>1, <4>1, Zenon DEF TrustInv, GroupTold
      <4> QED BY <2>2, <4>1, <4>2, TrustAssumption, Zenon DEF Heard
    <3>2. CASE members = {}
      <4>1. src \in Cams /\ invalid[src] = "FAULT"
        BY <3>2, Zenon DEF Fails, IsSensorGroupId
      <4>2. ~UnderWay(src)
        BY <2>1, Zenon DEF UnderWay, Reports1
      <4> QED BY <3>2, <4>1, <4>2, Zenon DEF TrustInv, CamerasTold
    <3> QED BY <3>1, <3>2, Zenon
  <2> QED BY <2>3, <2>4, Zenon DEF VerdictsTold
<1> QED BY <1>1, TrustStarts, TrustStep, PTL DEF TrustSpec

LEMMA TailDiffers == ASSUME NEW S, NEW s \in Seq(S), s # <<>> PROVE Tail(s) # s
<1> DEFINE n == Len(s)
           t == Tail(s)
<1>1. n \in Nat \ {0} /\ Len(t) = n - 1
  OBVIOUS
<1>2. t = s => Len(t) = n
  BY Zenon
<1> HIDE DEF n, t
<1>3. t # s
  BY <1>1, <1>2
<1> QED BY <1>3, Zenon DEF t

(* Only a delivered report of the group withdraws the group's failure.      *)
LEMMA ClearedBy ==
    ASSUME TrustTyped, NEW ev \in Events, NEW healthy \in BOOLEAN, NEW trusted \in BOOLEAN,
           Group \in sdm.failed, Group \notin ViewAfter(ev, healthy, trusted).failed
    PROVE  ev.src = Group /\ members # {}
<1> DEFINE mid == Hears(sdm, ev, healthy, trusted)
<1>1. sdm \in [failed : SUBSET Sources, init : SUBSET Sources, ai : BOOLEAN]
  BY Zenon DEF TrustTyped
<1>2. Group \notin mid.failed => ev.src = Group /\ IsRequiredSourcePipeline(Group)
  BY <1>1, Zenon DEF Hears
<1>3. mid \in [failed : SUBSET Sources, init : SUBSET Sources, ai : BOOLEAN]
  BY <1>1, Zenon DEF Hears, Events
<1> HIDE DEF mid
<1>4. HearsAi(mid, ev).failed = mid.failed
  BY <1>3, Zenon DEF HearsAi
<1>5. Group \notin mid.failed
  BY <1>4, Zenon DEF ViewAfter, mid
<1> QED BY <1>2, <1>5, TrustAssumption, Zenon DEF IsRequiredSourcePipeline, SensorConfig

(* A loss of the group that is under way.                                   *)
LEMMA DownFollows ==
    ASSUME TrustTyped, EndsDown(rpc, Group) \/ EndsDown(queue, Group) \/ EndsDown(Critical, Group)
    PROVE  LossFollows
<1>1. rpc \in Seq(Events) /\ queue \in Seq(Events) /\ lane.critical \in Seq(Staged) /\ Len(Critical) = Len(lane.critical)
  BY LaneType, Zenon DEF TrustTyped
<1>2. \A e \in Events : Downs(e, Group) => e.src = Group /\ e.type = "SENSOR_INVALID"
  BY TrustAssumption, Zenon DEF Downs, Events, AiReports
<1>3. ASSUME NEW i \in 1..Len(rpc), Downs(rpc[i], Group) PROVE LossFollows
  <2>1. rpc[i] \in Events /\ rpc[i] \in Range(rpc)
    BY <1>1 DEF Range
  <2> QED BY <1>2, <1>3, <2>1, Zenon DEF LossFollows
<1>4. ASSUME NEW i \in 1..Len(queue), Downs(queue[i], Group) PROVE LossFollows
  <2>1. queue[i] \in Events /\ queue[i] \in Range(queue)
    BY <1>1 DEF Range
  <2> QED BY <1>2, <1>4, <2>1, Zenon DEF LossFollows
<1>5. ASSUME NEW i \in 1..Len(Critical), Downs(Critical[i], Group) PROVE LossFollows
  <2>1. lane.critical[i] \in Staged /\ lane.critical[i] \in Range(lane.critical)
    BY <1>1, ElementOfSeq DEF Range
  <2>2. Critical[i] = lane.critical[i].ev
    BY <1>1, Zenon DEF Critical, EventsOf
  <2>3. Critical[i] \in Events /\ Critical[i] \in {q.ev : q \in Range(lane.critical)}
    BY <2>1, <2>2, Zenon DEF Staged
  <2> QED BY <1>2, <1>5, <2>3, Zenon DEF LossFollows
<1> QED BY <1>3, <1>4, <1>5, Zenon DEF EndsDown

LEMMA StepEarned ==
    ASSUME TrustInv, TrustInv', NEW l \in {"critical", "operational"}, Deliver(l), GroupCleared, ByReport, ~healthySeen
    PROVE  LossFollows'
<1> DEFINE q == lane[l][1]
           ev == q.ev
           now == QueryTrustState(ev.src)
           healthy == now.sensor /\ q.trust.sensor
           trusted == now.ai /\ q.trust.ai
<1>1. /\ lane[l] # <<>> /\ lane' = [lane EXCEPT ![l] = Tail(@)] /\ sdm' = ViewAfter(ev, healthy, trusted)
      /\ UNCHANGED <<rpc, queue>>
  BY Zenon DEF Deliver, ViewAfter
<1>2. /\ TrustTyped /\ lane \in [critical : Seq(Staged), operational : Seq(Staged)] /\ TrustTyped'
      /\ \A i \in 1..Len(lane.operational) : lane.operational[i].ev.type = "EVENT"
  BY Zenon DEF TrustInv, TrustTyped
<1>3. lane[l] \in Seq(Staged) /\ DOMAIN lane = {"critical", "operational"} /\ lane.critical \in Seq(Staged)
  BY <1>2, Zenon
<1>4. Len(lane[l]) \in Nat \ {0}
  <2>1. lane[l] # <<>>
    BY <1>1, Zenon
  <2> QED BY <1>3, <2>1
<1>5. q \in Staged
  BY <1>3, <1>4, ElementOfSeq
<1>6. ev \in Events /\ q.trust \in [sensor : BOOLEAN, ai : BOOLEAN] /\ now \in [sensor : BOOLEAN, ai : BOOLEAN]
  BY <1>2, <1>5, TrustPair, Zenon DEF Staged
<1>7. healthy \in BOOLEAN /\ trusted \in BOOLEAN
  BY <1>6, Zenon
<1> HIDE DEF now, healthy, trusted
<1>8. ev.src = Group /\ members # {}
  BY <1>1, <1>2, <1>6, <1>7, ClearedBy, Zenon DEF GroupCleared
<1>9. PICK m \in DOMAIN lane : lane[m] # <<>> /\ lane'[m] = Tail(lane[m]) /\ Head(lane[m]).ev.type = "SENSOR_VALID"
  BY Zenon DEF ByReport
<1>10. m = l
  <2>1. CASE m # l
    <3>1. lane'[m] = lane[m] /\ lane[m] \in Seq(Staged)
      BY <1>1, <1>2, <1>3, <2>1, Zenon
    <3>2. lane[m] # <<>> /\ lane[m] = Tail(lane[m])
      BY <1>9, <3>1, Zenon
    <3> QED BY <3>1, <3>2, TailDiffers, Zenon
  <2> QED BY <2>1, Zenon
<1>11. ev.type = "SENSOR_VALID" /\ l = "critical"
  <2>1. Head(lane[l]) = q
    BY <1>3, <1>4
  <2>2. ev.type = "SENSOR_VALID"
    BY <1>9, <1>10, <2>1, Zenon
  <2>3. l = "operational" => ev.type = "EVENT"
    BY <1>2, <1>4
  <2> QED BY <2>2, <2>3, Zenon
<1>12. /\ Critical \in Seq(Events) /\ Critical # <<>> /\ Critical' = Tail(Critical) /\ Head(Critical) = ev
  <2>1. lane.critical # <<>> /\ lane'.critical = Tail(lane.critical)
    BY <1>1, <1>2, <1>11, Zenon
  <2> QED BY <1>2, <1>3, <1>11, <2>1, LaneType, EventsOfType, Zenon DEF Critical
<1>13. Ups(Head(Critical), Group) /\ ~Downs(Head(Critical), Group)
  BY <1>8, <1>11, <1>12, Zenon DEF Ups, Downs
<1>14. Goes(rpc, queue, Critical, TRUE, Group)
  BY <1>2, <1>8, Zenon DEF TrustInv, LossCovered, TrustTyped
<1>15. /\ EndsDown(Critical, Group) => EndsDown(Critical', Group)
       /\ ~NoUp(Critical, Group)
  BY <1>12, <1>13, TailWord, Zenon
<1>16. EndsDown(rpc', Group) \/ EndsDown(queue', Group) \/ EndsDown(Critical', Group)
  BY <1>1, <1>14, <1>15, Zenon DEF Goes, LastWord
<1>17. (TrustTyped /\ (EndsDown(rpc, Group) \/ EndsDown(queue, Group) \/ EndsDown(Critical, Group)) => LossFollows)'
  BY DownFollows, PTL
<1> QED BY <1>2, <1>16, <1>17, Zenon

(* The group's own SENSOR_VALID withdraws its failure only if a member has  *)
(* been healthy since the loss was announced, or with the announcement of   *)
(* another loss behind it: EvaluateGroupVerdictLocked's Pending withdraws   *)
(* nothing, whatever is queued, re-asserted or lost with a restart.         *)
THEOREM WithdrawalEarned == TrustSpec => ValidEarned
<1>1. TrustInv /\ [TrustNext]_tvVars => [GroupCleared /\ ByReport => healthySeen \/ LossFollows']_tvVars
  <2> SUFFICES ASSUME TrustInv, TrustInv', TrustNext, GroupCleared, ByReport, ~healthySeen
               PROVE  LossFollows'
    BY TrustStep, Zenon
  <2>1. ASSUME sdm' = sdm PROVE FALSE
    BY <2>1, Zenon DEF GroupCleared
  <2>2. ASSUME Restart PROVE FALSE
    <3>1. PICK m \in DOMAIN lane : lane[m] # <<>> /\ lane'[m] = Tail(lane[m])
      BY Zenon DEF ByReport
    <3>2. lane[m] \in Seq(Staged) /\ lane[m] # <<>> /\ lane[m] = Tail(lane[m])
      BY <2>2, <3>1, Zenon DEF TrustInv, TrustTyped, Restart
    <3> QED BY <3>2, TailDiffers, Zenon
  <2>3. Reports => sdm' = sdm
    BY ZenonT(40) DEF Reports, Report
  <2>4. Append1 \/ Snapshot \/ PushSnapshot \/ HandleEvent => sdm' = sdm
    BY Zenon DEF Append1, Snapshot, PushSnapshot, HandleEvent
  <2>5. ASSUME NEW src, NEW named, Data(src, named) PROVE sdm' = sdm
    BY <2>5, Zenon DEF Data
  <2> QED BY <2>1, <2>2, <2>3, <2>4, <2>5, StepEarned, Zenon DEF TrustNext
<1> QED BY <1>1, TrustStarts, TrustStep, PTL DEF TrustSpec, ValidEarned

-----------------------------------------------------------------------------
(* The AI fault. *)

\* A stage the all-healthy loop has passed is below its threshold or raising.
ScannedHealthy ==
    \A t \in Threads : pc[t] = "scan" =>
        \A s \in Stages \ todo[t] : streak[s] >= Threshold[s] => Raising(s)

Inv == TypeOK /\ FaultHeld /\ ScannedHealthy

\* A counter stays a natural number, wrapped or not.
LEMMA BumpType == ASSUME NEW n \in Nat PROVE Bump(n) \in Nat
  BY DEF Bump

\* A threshold is a positive number, whatever the loop periods.
LEMMA ThresholdType == Threshold \in [Stages -> Nat \ {0}]
<1> SUFFICES ASSUME NEW s \in Stages
             PROVE StreakThreshold(ErrorMs, PeriodUs[s]) \in Nat \ {0}
  BY Zenon DEF Threshold
<1> DEFINE n == ErrorMs * 1000
           iterations == n \div PeriodUs[s]
<1>1. n \in Nat /\ PeriodUs[s] \in Nat
  BY FusionConstants
<1> HIDE DEF n
<1>2. PeriodUs[s] # 0 => iterations \in Int
  BY <1>1
<1> HIDE DEF iterations
<1>3. StreakThreshold(ErrorMs, PeriodUs[s]) =
        IF PeriodUs[s] = 0 \/ iterations < 2 THEN 2
        ELSE IF iterations >= StreakWidth THEN StreakWidth - 1 ELSE iterations
  BY Zenon DEF StreakThreshold, iterations, n
<1> QED
  BY <1>1, <1>2, <1>3, FusionConstants

\* Every initial state satisfies the invariant.
LEMMA InitInv == Init => Inv
<1> SUFFICES ASSUME Init PROVE Inv
  BY Zenon
<1>1. TypeOK
  BY FusionConstants, Zenon DEF Init, TypeOK
<1>2. \A s \in Stages : ~ (streak[s] >= Threshold[s])
  BY ThresholdType DEF Init
<1> QED
  BY <1>1, <1>2, Zenon DEF Inv, FaultHeld, ScannedHealthy

\* Every step of noteFailure and noteSuccess preserves it.
LEMMA NextInv == Inv /\ [Next]_vars => Inv'
<1> SUFFICES ASSUME Inv, [Next]_vars PROVE Inv'
  BY Zenon
<1> USE FusionConstants, ThresholdType DEF Inv, TypeOK
<1>1. ASSUME NEW t \in Threads, NEW s \in Stages, FailureCounted(t, s) PROVE Inv'
  <2>1. Bump(streak[s]) \in Nat
    BY BumpType, Zenon
  <2>2. TypeOK'
    BY <1>1, <2>1, Zenon DEF FailureCounted
  <2>3. \A r \in Stages : (streak[r] >= Threshold[r])' =>
            \/ Raising(r)'
            \/ r # s /\ streak[r] >= Threshold[r]
    BY <1>1, <2>1 DEF FailureCounted, Raising
  <2>4. \A r \in Stages : r # s /\ Raising(r) => Raising(r)'
    BY <1>1, Zenon DEF FailureCounted, Raising
  <2>5. FaultHeld'
    BY <1>1, <2>3, <2>4, Zenon DEF FailureCounted, FaultHeld
  <2>6. ScannedHealthy'
    BY <1>1, <2>3, <2>4, Zenon DEF FailureCounted, ScannedHealthy
  <2> QED
    BY <2>2, <2>5, <2>6, Zenon
<1>2. ASSUME NEW t \in Threads, Raise(t) PROVE Inv'
  BY <1>2, Zenon DEF Raise, FaultHeld, ScannedHealthy
<1>3. ASSUME NEW t \in Threads, NEW s \in Stages, StreakEnds(t, s) PROVE Inv'
  <2>1. TypeOK'
    BY <1>3, Zenon DEF StreakEnds
  <2>2. \A r \in Stages : (streak[r] >= Threshold[r])' =>
            streak[r] >= Threshold[r] /\ (Raising(r) => Raising(r)')
    BY <1>3 DEF StreakEnds, Raising
  <2> QED
    BY <1>3, <2>1, <2>2 DEF StreakEnds, FaultHeld, ScannedHealthy
<1>4. ASSUME NEW t \in Threads, LoadError(t) PROVE Inv'
  BY <1>4 DEF LoadError, FaultHeld, ScannedHealthy, Raising
<1>5. ASSUME NEW t \in Threads, LockEdge(t) PROVE Inv'
  BY <1>5 DEF LockEdge, FaultHeld, ScannedHealthy, Raising
<1>6. ASSUME NEW t \in Threads, NEW s \in Stages, ScanStage(t, s) PROVE Inv'
  BY <1>6 DEF ScanStage, FaultHeld, ScannedHealthy, Raising
<1>7. ASSUME NEW t \in Threads, ClearError(t) PROVE Inv'
  <2>1. TypeOK'
    BY <1>7, Zenon DEF ClearError
  <2>2. \A r \in Stages : Raising(r) => Raising(r)'
    BY <1>7, Zenon DEF ClearError, Raising
  <2>3. \A r \in Stages : (streak[r] >= Threshold[r])' => Raising(r)
    BY <1>7, Zenon DEF ClearError, ScannedHealthy
  <2> QED
    BY <2>1, <2>2, <2>3, Zenon DEF FaultHeld, ScannedHealthy
<1>8. ASSUME NEW t \in Threads, Unlock(t) PROVE Inv'
  BY <1>8 DEF Unlock, FaultHeld, ScannedHealthy, Raising
<1>9. CASE UNCHANGED vars
  BY <1>9 DEF vars, FaultHeld, ScannedHealthy, Raising
<1> QED
  BY <1>1, <1>2, <1>3, <1>4, <1>5, <1>6, <1>7, <1>8, <1>9, Zenon DEF Next, ThreadStep

\* NvPSSFusionHealthLatch never leaves a stage that is past its threshold
\* without the fault, whatever the interleaving of failures and successes.
THEOREM FaultIsHeld == Spec => [](TypeOK /\ FaultHeld)
<1>1. Inv => TypeOK /\ FaultHeld
  BY Zenon DEF Inv
<1> QED
  BY InitInv, NextInv, <1>1, PTL DEF Spec

-----------------------------------------------------------------------------
\* A thread about to raise still has the streak it counted: the stage is its own.
RaiseCounted ==
    \A t \in Threads : pc[t] = "raise" => Owner[stage[t]] = t /\ streak[stage[t]] # 0

\* A fault that is up has a failing stage, or a thread on its way to clear it.
SomeoneClears ==
    error => \/ \E s \in Stages : streak[s] # 0
             \/ \E t \in Threads : pc[t] \in {"load", "lock", "scan"}

ReleaseInv == TypeOK /\ RaiseCounted /\ SomeoneClears

\* Every initial state satisfies it.
LEMMA InitReleaseInv == Init => ReleaseInv
<1>1. Init => RaiseCounted /\ SomeoneClears
  BY Zenon DEF Init, RaiseCounted, SomeoneClears
<1> QED
  BY InitInv, <1>1, Zenon DEF Inv, ReleaseInv

\* Every step preserves it, as long as no streak wraps: the wrap of a streak to 0
\* would look like a success that nobody follows up.
LEMMA NextReleaseInv ==
    ASSUME MaxStreak < StreakWidth, ReleaseInv, [Next]_vars
    PROVE  ReleaseInv'
<1> USE FusionConstants, ThresholdType DEF ReleaseInv, TypeOK
<1>1. ASSUME NEW t \in Threads, NEW s \in Stages, FailureCounted(t, s) PROVE ReleaseInv'
  <2>1. Bump(streak[s]) \in Nat /\ Bump(streak[s]) # 0
    BY <1>1 DEF FailureCounted, Bump
  <2>2. TypeOK'
    BY <1>1, <2>1, Zenon DEF FailureCounted
  <2>3. RaiseCounted'
    BY <1>1, <2>1, Zenon DEF FailureCounted, RaiseCounted
  <2>4. streak'[s] # 0
    BY <1>1, <2>1, Zenon DEF FailureCounted
  <2> QED
    BY <2>2, <2>3, <2>4, Zenon DEF SomeoneClears
<1>2. ASSUME NEW t \in Threads, Raise(t) PROVE ReleaseInv'
  <2>1. TypeOK' /\ RaiseCounted'
    BY <1>2, Zenon DEF Raise, RaiseCounted
  <2>2. stage[t] \in Stages /\ streak'[stage[t]] # 0
    BY <1>2, Zenon DEF Raise, RaiseCounted
  <2> QED
    BY <2>1, <2>2, Zenon DEF SomeoneClears
<1>3. ASSUME NEW t \in Threads, NEW s \in Stages, StreakEnds(t, s) PROVE ReleaseInv'
  <2>1. TypeOK' /\ RaiseCounted'
    BY <1>3 DEF StreakEnds, RaiseCounted
  <2>2. pc'[t] = "load"
    BY <1>3, Zenon DEF StreakEnds
  <2> QED
    BY <2>1, <2>2, Zenon DEF SomeoneClears
<1>4. ASSUME NEW t \in Threads, LoadError(t) PROVE ReleaseInv'
  <2>1. TypeOK' /\ RaiseCounted'
    BY <1>4, Zenon DEF LoadError, RaiseCounted
  <2>2. error' => pc'[t] = "lock"
    BY <1>4, Zenon DEF LoadError
  <2> QED
    BY <2>1, <2>2, Zenon DEF SomeoneClears
<1>5. ASSUME NEW t \in Threads, LockEdge(t) PROVE ReleaseInv'
  <2>1. TypeOK' /\ RaiseCounted'
    BY <1>5, Zenon DEF LockEdge, RaiseCounted
  <2>2. pc'[t] = "scan"
    BY <1>5, Zenon DEF LockEdge
  <2> QED
    BY <2>1, <2>2, Zenon DEF SomeoneClears
<1>6. ASSUME NEW t \in Threads, NEW s \in Stages, ScanStage(t, s) PROVE ReleaseInv'
  <2>1. TypeOK' /\ RaiseCounted'
    BY <1>6 DEF ScanStage, RaiseCounted
  <2>2. streak'[s] # 0 \/ pc'[t] = "scan"
    BY <1>6, Zenon DEF ScanStage
  <2> QED
    BY <2>1, <2>2, Zenon DEF SomeoneClears
<1>7. ASSUME NEW t \in Threads, ClearError(t) PROVE ReleaseInv'
  BY <1>7, Zenon DEF ClearError, RaiseCounted, SomeoneClears
<1>8. ASSUME NEW t \in Threads, Unlock(t) PROVE ReleaseInv'
  BY <1>8 DEF Unlock, RaiseCounted, SomeoneClears
<1>9. CASE UNCHANGED vars
  BY <1>9, Zenon DEF vars, RaiseCounted, SomeoneClears
<1> QED
  BY <1>1, <1>2, <1>3, <1>4, <1>5, <1>6, <1>7, <1>8, <1>9, Zenon DEF Next, ThreadStep

\* Unless a stage fails 2^32 times in a row, the fault does not outlive the failures:
\* although a healthy stage never looks at it again (the early return of noteSuccess),
\* some call of noteSuccess always remains to clear it.
THEOREM FaultIsReleased == ASSUME MaxStreak < StreakWidth PROVE Spec => []FaultReleased
<1>1. ReleaseInv => FaultReleased
  BY Zenon DEF ReleaseInv, SomeoneClears, FaultReleased
<1>2. ReleaseInv /\ [Next]_vars => ReleaseInv'
  BY NextReleaseInv, Zenon
<1> QED
  BY InitReleaseInv, <1>2, <1>1, PTL DEF Spec

-----------------------------------------------------------------------------
(* The link to the PSD. *)

Box == [armed : BOOLEAN, req : Nat, have : BOOLEAN, lost : BOOLEAN, from : Nat]
Budget == [crashes : Nat, deaths : Nat, lapses : Nat, sends : Nat, stops : Nat]

LinkTyped ==
    /\ peers \subseteq Conns
    /\ peerOf \in [Ids -> Conns \cup {NoConn}] /\ routes \in [Types -> Ids \cup {NoId}]
    /\ mailbox \in [Ids -> Box]
    /\ spc \in [at : {"poll", "ack", "drop", "fail"}, id : Ids \cup {NoId}, peer : Conns \cup {NoConn}]
    /\ snd \in [pc : {"idle", "arm", "send", "wait"}, req : Nat, id : Ids \cup {NoId}, peer : Conns \cup {NoConn}]
    /\ left \in Budget
    /\ spc.at \in {"drop", "fail"} => spc.id \in Ids
    /\ snd.pc # "idle" => snd.id \in Ids /\ snd.peer # NoConn

(* A client id is its connection's only, and what is dropped is nobody's.   *)
Owned ==
    /\ \A i, j \in Ids : peerOf[i] = peerOf[j] /\ peerOf[i] # NoConn => i = j
    /\ \A i \in Ids : peerOf[i] # NoConn => peerOf[i] \in peers \ arrivals
    /\ arrivals \subseteq peers
    /\ spc.at = "drop" =>
         spc.peer \notin arrivals /\ \A i \in Ids : peerOf[i] # NoConn => peerOf[i] # spc.peer

Boxed ==
    /\ \A i \in Ids : mailbox[i].have => mailbox[i].from = mailbox[i].req
    /\ snd.pc \in {"send", "wait"} => mailbox[snd.id].armed

(* Until the request is out, the peer the sender looked up is still the     *)
(* client's, or is being dropped, or has been.                              *)
LookupStands ==
    snd.pc \in {"arm", "send"} /\ snd.peer \in peers =>
        peerOf[snd.id] = snd.peer \/ (spc.at = "drop" /\ spc.id = snd.id /\ spc.peer = snd.peer)

LinkInv == LinkTyped /\ Owned /\ Boxed /\ AnswerGenuine /\ RoutedToLive /\ LookupStands /\ WaitsOnLive

(* What the gateway does, and the passing of messages. *)
LEMMA LinkStutter ==
    ASSUME LinkInv, left' \in Budget, UNCHANGED <<peers, arrivals, peerOf, routes, mailbox, spc, snd, accepted>>
    PROVE  LinkInv'
<1>1. LinkTyped'
  BY Zenon DEF LinkInv, LinkTyped
<1>2. Owned'
  BY Zenon DEF LinkInv, Owned
<1>3. Boxed' /\ AnswerGenuine'
  BY Zenon DEF LinkInv, Boxed, AnswerGenuine
<1>4. RoutedToLive' /\ LookupStands' /\ WaitsOnLive'
  BY Zenon DEF LinkInv, RoutedToLive, LookupStands, WaitsOnLive
<1> QED BY <1>1, <1>2, <1>3, <1>4, Zenon DEF LinkInv

LEMMA SpendType == ASSUME left \in Budget, NEW w \in {"crashes", "deaths", "lapses", "sends", "stops"}, Spend(w)
                   PROVE  left' \in Budget
<1>1. left[w] - 1 \in Nat
  BY DEF Spend, Budget
<1>2. left' = [left EXCEPT ![w] = left[w] - 1]
  BY Zenon DEF Spend
<1> QED BY <1>1, <1>2, Zenon DEF Budget

LEMMA GatewayKeeps ==
    ASSUME LinkInv, GatewayNext \/ Exit \/ GatewayRestart, ~Open
    PROVE  LinkInv'
<1>0. left \in Budget
  BY Zenon DEF LinkInv, LinkTyped
<1>1. left' \in Budget
  BY <1>0, SpendType, Zenon DEF GatewayNext, Assigned, NotAssigned, RegisterEventTypes, Acknowledged, ReregisterFails, RegisterFails,
     Listen, TakeRequest, Respond, LinkLost, Exit, GatewayRestart, Message, Gone, Deadline, NotAcknowledged
<1>2. UNCHANGED daemonVars
  BY Zenon DEF GatewayNext, Assigned, NotAssigned, RegisterEventTypes, Acknowledged, ReregisterFails, RegisterFails,
     Listen, TakeRequest, Respond, LinkLost, Exit, GatewayRestart, GatewayOnly
<1> QED BY <1>1, <1>2, LinkStutter, Zenon DEF daemonVars

LEMMA OpenKeeps == ASSUME LinkInv, Open PROVE LinkInv'
<1>1. PICK c \in Unused : /\ peers' = peers \cup {c} /\ arrivals' = arrivals \cup {c}
                          /\ UNCHANGED <<peerOf, routes, mailbox, spc, snd, accepted, left>>
  BY Zenon DEF Open
<1>3. c \in Conns /\ c \notin peers /\ c # snd.peer /\ c # spc.peer
  BY Zenon DEF Unused
<1>4. LinkTyped'
  BY <1>1, <1>3, Zenon DEF LinkInv, LinkTyped
<1>5. Owned'
  BY <1>1, <1>3, Zenon DEF LinkInv, Owned
<1>6. Boxed' /\ AnswerGenuine'
  BY <1>1, Zenon DEF LinkInv, Boxed, AnswerGenuine
<1>7. RoutedToLive' /\ LookupStands' /\ WaitsOnLive'
  BY <1>1, <1>3, Zenon DEF LinkInv, RoutedToLive, LookupStands, WaitsOnLive
<1> QED BY <1>4, <1>5, <1>6, <1>7, Zenon DEF LinkInv

(* The sender. *)
LEMMA LeaveKeeps ==
    ASSUME LinkInv, Leave, snd.pc # "idle", left' \in Budget, AnswerGenuine', UNCHANGED <<peers, arrivals, peerOf, routes, spc>>
    PROVE  LinkInv'
<1>1. snd.id \in Ids /\ snd.req \in Nat
  BY Zenon DEF LinkInv, LinkTyped
<1>2. mailbox' = [mailbox EXCEPT ![snd.id].armed = FALSE] /\ snd' = [pc |-> "idle", req |-> snd.req, id |-> NoId, peer |-> NoConn]
  BY Zenon DEF Leave, IdleSender
<1>3. LinkTyped'
  BY <1>1, <1>2, ZenonT(40) DEF LinkInv, LinkTyped, Box
<1>4. \A i \in Ids : mailbox'[i].have = mailbox[i].have /\ mailbox'[i].from = mailbox[i].from /\ mailbox'[i].req = mailbox[i].req
  BY <1>2 DEF LinkInv, LinkTyped, Box
<1>5. snd'.pc = "idle"
  BY <1>2, Zenon
<1>6. Boxed'
  BY <1>4, <1>5, Zenon DEF LinkInv, Boxed
<1>7. Owned' /\ RoutedToLive'
  BY Zenon DEF LinkInv, Owned, RoutedToLive
<1>8. LookupStands' /\ WaitsOnLive'
  BY <1>5, Zenon DEF LookupStands, WaitsOnLive
<1> QED BY <1>3, <1>6, <1>7, <1>8, Zenon DEF LinkInv

LEMMA ArmKeeps == ASSUME LinkInv, Arm PROVE LinkInv'
<1> DEFINE box == [EmptyBox EXCEPT !.armed = TRUE, !.req = snd.req]
<1>1. /\ snd.pc = "arm" /\ snd.id \in Ids /\ snd.req \in Nat
      /\ UNCHANGED <<peers, arrivals, peerOf, routes, spc, accepted, left>>
  BY Zenon DEF Arm, SenderOnly, LinkInv, LinkTyped
<1>2. mailbox' = [mailbox EXCEPT ![snd.id] = box] /\ snd' = [snd EXCEPT !.pc = "send"]
  BY Zenon DEF Arm
<1>3. box \in Box /\ ~box.have /\ box.armed
  BY <1>1, Zenon DEF Box, EmptyBox
<1> HIDE DEF box
<1>4. LinkTyped'
  BY <1>1, <1>2, <1>3, Zenon DEF LinkInv, LinkTyped
<1>5. snd'.pc = "send" /\ snd'.id = snd.id /\ snd'.peer = snd.peer
  BY <1>2, Zenon DEF LinkInv, LinkTyped
<1>6. \A i \in Ids : mailbox'[i] = IF i = snd.id THEN box ELSE mailbox[i]
  BY <1>2, Zenon DEF LinkInv, LinkTyped
<1>7. Boxed' /\ AnswerGenuine'
  BY <1>1, <1>3, <1>5, <1>6 DEF LinkInv, Boxed, AnswerGenuine
<1>8. Owned' /\ RoutedToLive'
  BY <1>1, Zenon DEF LinkInv, Owned, RoutedToLive
<1>9. LookupStands' /\ WaitsOnLive'
  BY <1>1, <1>5, Zenon DEF LinkInv, LookupStands, WaitsOnLive
<1> QED BY <1>4, <1>7, <1>8, <1>9, Zenon DEF LinkInv

LEMMA SendKeepsLink == ASSUME LinkInv, Send PROVE LinkInv'
<1>1. /\ snd.pc = "send" /\ snd.peer \in peers /\ snd' = [snd EXCEPT !.pc = "wait"]
      /\ UNCHANGED <<peers, arrivals, peerOf, routes, spc, mailbox, accepted, left>>
  BY Zenon DEF Send, SenderOnly, Linked
<1>2. LinkTyped'
  BY <1>1, Zenon DEF LinkInv, LinkTyped
<1>3. snd'.pc = "wait" /\ snd'.id = snd.id /\ snd'.peer = snd.peer
  BY <1>1, Zenon DEF LinkInv, LinkTyped
<1>4. Boxed' /\ AnswerGenuine'
  BY <1>1, <1>3, Zenon DEF LinkInv, Boxed, AnswerGenuine
<1>5. Owned' /\ RoutedToLive'
  BY <1>1, Zenon DEF LinkInv, Owned, RoutedToLive
<1>6. LookupStands' /\ WaitsOnLive'
  BY <1>1, <1>3, Zenon DEF LinkInv, LookupStands, WaitsOnLive
<1> QED BY <1>2, <1>4, <1>5, <1>6, Zenon DEF LinkInv

LEMMA LookupKeeps ==
    ASSUME LinkInv, NEW r \in Asked \ {0}, NEW t \in Types, Lookup(r, t)
    PROVE  LinkInv'
<1>1. /\ snd.pc = "idle" /\ left' \in Budget /\ r \in Nat
      /\ UNCHANGED <<peers, arrivals, peerOf, routes, spc, mailbox, accepted>>
  <2>1. left \in Budget /\ snd.req \in Nat
    BY Zenon DEF LinkInv, LinkTyped
  <2>2. left.sends \in Nat
    BY <2>1, Zenon DEF Budget
  <2> QED BY <2>1, <2>2, SpendType, Zenon DEF Lookup, SenderOnly, Asked
<1>2. routes[t] \in Ids \cup {NoId} /\ (routes[t] # NoId => peerOf[routes[t]] \in Conns \cup {NoConn})
  BY Zenon DEF LinkInv, LinkTyped
<1>3. CASE routes[t] = NoId \/ peerOf[routes[t]] = NoConn
  <2>1. snd' = [pc |-> "idle", req |-> r, id |-> NoId, peer |-> NoConn]
    BY <1>3, Zenon DEF Lookup, IdleSender
  <2>2. LinkTyped'
    BY <1>1, <2>1, Zenon DEF LinkInv, LinkTyped
  <2>3. snd'.pc = "idle"
    BY <2>1, Zenon
  <2>4. Boxed' /\ AnswerGenuine' /\ LookupStands' /\ WaitsOnLive'
    BY <1>1, <2>3, Zenon DEF LinkInv, Boxed, AnswerGenuine, LookupStands, WaitsOnLive
  <2>5. Owned' /\ RoutedToLive'
    BY <1>1, Zenon DEF LinkInv, Owned, RoutedToLive
  <2> QED BY <2>2, <2>4, <2>5, Zenon DEF LinkInv
<1>4. CASE ~(routes[t] = NoId \/ peerOf[routes[t]] = NoConn)
  <2>1. snd' = [pc |-> "arm", req |-> r, id |-> routes[t], peer |-> peerOf[routes[t]]]
    BY <1>4, Zenon DEF Lookup
  <2>2. LinkTyped'
    BY <1>1, <1>2, <1>4, <2>1, Zenon DEF LinkInv, LinkTyped
  <2>3. snd'.pc = "arm" /\ snd'.peer = peerOf[snd'.id]
    BY <2>1, Zenon
  <2>4. Boxed' /\ AnswerGenuine' /\ LookupStands' /\ WaitsOnLive'
    BY <1>1, <2>3, Zenon DEF LinkInv, Boxed, AnswerGenuine, LookupStands, WaitsOnLive
  <2>5. Owned' /\ RoutedToLive'
    BY <1>1, Zenon DEF LinkInv, Owned, RoutedToLive
  <2> QED BY <2>2, <2>4, <2>5, Zenon DEF LinkInv
<1> QED BY <1>3, <1>4, Zenon

LEMMA SenderKeeps == ASSUME LinkInv, SenderNext PROVE LinkInv'
<1>0. left \in Budget /\ (snd.pc # "idle" => snd.id \in Ids) /\ AnswerGenuine
  BY Zenon DEF LinkInv, LinkTyped
<1>1. CASE SendFails
  BY <1>0, <1>1, LeaveKeeps, SpendType, Zenon DEF SendFails, SenderOnly, AnswerGenuine
<1>2. CASE Answered
  <2>1. mailbox[snd.id].from = snd.req
    BY <1>0, <1>2, Zenon DEF Answered, LinkInv, Boxed
  <2>2. AnswerGenuine'
    BY <1>2, <2>1, Zenon DEF Answered, AnswerGenuine
  <2> QED BY <1>0, <1>2, <2>2, LeaveKeeps, Zenon DEF Answered, SenderOnly
<1>3. CASE PeerLost \/ Expire
  BY <1>0, <1>3, LeaveKeeps, Zenon DEF PeerLost, Expire, SenderOnly, AnswerGenuine
<1> QED BY <1>1, <1>2, <1>3, ArmKeeps, SendKeepsLink, Zenon DEF SenderNext

(* The server thread. *)
LEMMA DisconnectKeeps ==
    ASSUME LinkInv, spc.at = "poll", NEW i \in Ids, Disconnect(i), peerOf[i] # NoConn, UNCHANGED <<peers, arrivals, mailbox>>
    PROVE  LinkInv'
<1>1. /\ peerOf' = [peerOf EXCEPT ![i] = NoConn]
      /\ routes' = [t \in Types |-> IF routes[t] = i THEN NoId ELSE routes[t]]
      /\ spc' = [at |-> "drop", id |-> i, peer |-> peerOf[i]]
      /\ UNCHANGED <<snd, accepted, left>>
  BY Zenon DEF Disconnect, Idle
<1>2. peerOf \in [Ids -> Conns \cup {NoConn}] /\ routes \in [Types -> Ids \cup {NoId}]
  BY Zenon DEF LinkInv, LinkTyped
<1>3. \A j \in Ids : peerOf'[j] = IF j = i THEN NoConn ELSE peerOf[j]
  BY <1>1, <1>2, Zenon
<1>4. spc'.at = "drop" /\ spc'.id = i /\ spc'.peer = peerOf[i]
  BY <1>1, Zenon
<1>5. \A t \in Types : routes'[t] = NoId \/ (routes'[t] = routes[t] /\ routes[t] # i)
  BY <1>1, Zenon
<1>6. LinkTyped'
  BY <1>1, <1>2, Zenon DEF LinkInv, LinkTyped
<1>7. Owned'
  BY <1>3, <1>4 DEF LinkInv, Owned
<1>8. Boxed' /\ AnswerGenuine'
  BY <1>1, Zenon DEF LinkInv, Boxed, AnswerGenuine
<1>9. RoutedToLive'
  BY <1>2, <1>3, <1>5 DEF LinkInv, RoutedToLive
<1>10. snd.pc # "idle" => snd.id \in Ids
  BY Zenon DEF LinkInv, LinkTyped
<1>11. LookupStands' /\ WaitsOnLive'
  BY <1>1, <1>3, <1>4, <1>10, Zenon DEF LinkInv, LookupStands, WaitsOnLive
<1> QED BY <1>6, <1>7, <1>8, <1>9, <1>11, Zenon DEF LinkInv

LEMMA AdmitKeeps == ASSUME LinkInv, NEW c \in Conns, Admit(c) PROVE LinkInv'
<1>1. /\ spc.at = "poll" /\ c \in arrivals /\ arrivals' = arrivals \ {c}
      /\ UNCHANGED <<peers, routes, mailbox, snd, accepted, left>>
  BY Zenon DEF Admit, Event, Idle
<1>0. PICK free \in FirstFree :
        \/ peerOf' = [peerOf EXCEPT ![free] = c] /\ spc' = Polling
        \/ peerOf' = peerOf /\ spc' = [at |-> "drop", id |-> free, peer |-> c]
  BY Zenon DEF Admit, Idle
<1>2. free \in Ids /\ peerOf[free] = NoConn /\ c # NoConn
  BY PsdLinkAssumption, Zenon DEF FirstFree, FreeIds, NoConn
<1>3. peerOf \in [Ids -> Conns \cup {NoConn}]
  BY Zenon DEF LinkInv, LinkTyped
<1>4. \A i \in Ids : peerOf[i] # c
  BY <1>1, <1>2, Zenon DEF LinkInv, Owned
<1>10. snd.pc # "idle" => snd.id \in Ids /\ snd.peer # NoConn
  BY Zenon DEF LinkInv, LinkTyped
<1>8. Boxed' /\ AnswerGenuine'
  BY <1>1, Zenon DEF LinkInv, Boxed, AnswerGenuine
<1>5. CASE peerOf' = [peerOf EXCEPT ![free] = c] /\ spc' = Polling /\ c \in peers
  <2>1. \A j \in Ids : peerOf'[j] = IF j = free THEN c ELSE peerOf[j]
    BY <1>3, <1>5, Zenon
  <2>2. spc'.at = "poll"
    BY <1>5, Zenon DEF Polling
  <2>3. LinkTyped'
    BY <1>1, <1>2, <1>5, Zenon DEF LinkInv, LinkTyped, Polling
  <2>4. Owned'
    BY <1>1, <1>2, <1>4, <1>5, <2>1, <2>2 DEF LinkInv, Owned
  <2>5. RoutedToLive'
    <3>1. \A t \in Types : routes[t] \in Ids \cup {NoId}
      BY Zenon DEF LinkInv, LinkTyped
    <3> QED BY <1>1, <1>2, <2>1, <3>1, Zenon DEF LinkInv, RoutedToLive
  <2>6. LookupStands' /\ WaitsOnLive'
    BY <1>1, <1>2, <1>10, <2>1, Zenon DEF LinkInv, LookupStands, WaitsOnLive
  <2> QED BY <1>8, <2>3, <2>4, <2>5, <2>6, Zenon DEF LinkInv
<1>6. CASE peerOf' = peerOf /\ spc' = [at |-> "drop", id |-> free, peer |-> c]
  <2>1. spc'.at = "drop" /\ spc'.peer = c
    BY <1>6, Zenon
  <2>2. LinkTyped'
    BY <1>1, <1>2, <1>6, Zenon DEF LinkInv, LinkTyped
  <2>3. Owned'
    BY <1>1, <1>4, <1>6, <2>1, Zenon DEF LinkInv, Owned
  <2>4. RoutedToLive' /\ LookupStands' /\ WaitsOnLive'
    BY <1>1, <1>6, <1>10, Zenon DEF LinkInv, RoutedToLive, LookupStands, WaitsOnLive
  <2> QED BY <1>8, <2>2, <2>3, <2>4, Zenon DEF LinkInv
<1>7. arrivals \subseteq peers
  BY Zenon DEF LinkInv, Owned
<1> QED BY <1>0, <1>1, <1>5, <1>6, <1>7, Zenon

LEMMA RefuseKeeps == ASSUME LinkInv, NEW c \in Conns, Refuse(c) PROVE LinkInv'
<1>1. /\ spc.at = "poll" /\ c \in arrivals /\ arrivals' = arrivals \ {c} /\ peers' = peers \ {c}
      /\ UNCHANGED <<peerOf, routes, mailbox, snd, accepted, left>> /\ spc' = Polling
  BY Zenon DEF Refuse, Event, Idle
<1>2. spc'.at = "poll"
  BY <1>1, Zenon DEF Polling
<1>3. \A i \in Ids : peerOf[i] # NoConn => peerOf[i] # c
  BY <1>1, Zenon DEF LinkInv, Owned
<1>4. LinkTyped'
  BY <1>1, Zenon DEF LinkInv, LinkTyped, Polling
<1>5. Owned'
  BY <1>1, <1>2, <1>3, Zenon DEF LinkInv, Owned
<1>6. Boxed' /\ AnswerGenuine' /\ RoutedToLive'
  BY <1>1, Zenon DEF LinkInv, Boxed, AnswerGenuine, RoutedToLive
<1>7. LookupStands' /\ WaitsOnLive'
  BY <1>1, Zenon DEF LinkInv, LookupStands, WaitsOnLive
<1> QED BY <1>4, <1>5, <1>6, <1>7, Zenon DEF LinkInv

(* The thread moves between polls and acknowledgments. *)
LEMMA AtPoll ==
    ASSUME LinkInv, spc.at \in {"poll", "ack"},
           spc' \in [at : {"poll", "ack"}, id : Ids \cup {NoId}, peer : Conns \cup {NoConn}],
           UNCHANGED <<peers, arrivals, peerOf, routes, mailbox, snd, accepted, left>>
    PROVE  LinkInv'
<1>1. spc'.at \in {"poll", "ack"}
  BY Zenon
<1>2. LinkTyped'
  BY <1>1, Zenon DEF LinkInv, LinkTyped
<1>3. Owned' /\ RoutedToLive'
  BY <1>1, Zenon DEF LinkInv, Owned, RoutedToLive
<1>4. Boxed' /\ AnswerGenuine'
  BY Zenon DEF LinkInv, Boxed, AnswerGenuine
<1>5. LookupStands' /\ WaitsOnLive'
  BY Zenon DEF LinkInv, LookupStands, WaitsOnLive
<1> QED BY <1>2, <1>3, <1>4, <1>5, Zenon DEF LinkInv

(* A response in a mailbox answers the request that armed it. *)
LEMMA DeliveryKeeps ==
    ASSUME LinkInv, spc.at = "poll", NEW i \in Ids, NEW r, DeliverResponse(i, r), spc' = Polling,
           UNCHANGED <<peers, arrivals, peerOf, routes, snd, accepted, left>>
    PROVE  LinkInv'
<1>1. CASE mailbox' = mailbox
  <2>1. spc' \in [at : {"poll", "ack"}, id : Ids \cup {NoId}, peer : Conns \cup {NoConn}]
    BY Zenon DEF Polling
  <2> QED BY <1>1, <2>1, AtPoll, Zenon
<1>2. CASE mailbox[i].req = r /\ mailbox' = [mailbox EXCEPT ![i].have = TRUE, ![i].from = r]
  <2>1. mailbox \in [Ids -> Box] /\ r \in Nat
    BY <1>2, Zenon DEF LinkInv, LinkTyped, Box
  <2>2. mailbox' \in [Ids -> Box]
    BY <1>2, <2>1, ZenonT(40) DEF Box
  <2>3. \A j \in Ids : /\ j # i => mailbox'[j] = mailbox[j]
                       /\ mailbox'[j].armed = mailbox[j].armed /\ mailbox'[j].lost = mailbox[j].lost
    BY <1>2, <2>1 DEF Box
  <2>4. mailbox'[i].have /\ mailbox'[i].from = mailbox'[i].req
    BY <1>2, <2>1, Zenon DEF Box
  <2>5. spc'.at = "poll"
    BY Zenon DEF Polling
  <2>6. LinkTyped'
    BY <2>2, Zenon DEF LinkInv, LinkTyped, Polling
  <2>7. Owned' /\ RoutedToLive' /\ AnswerGenuine'
    BY <2>5, Zenon DEF LinkInv, Owned, RoutedToLive, AnswerGenuine
  <2>8. snd.pc # "idle" => snd.id \in Ids
    BY Zenon DEF LinkInv, LinkTyped
  <2>9. Boxed'
    BY <2>3, <2>4, <2>8, Zenon DEF LinkInv, Boxed
  <2>10. LookupStands' /\ WaitsOnLive'
    BY <2>3, <2>4, <2>5, <2>8, Zenon DEF LinkInv, LookupStands, WaitsOnLive
  <2> QED BY <2>6, <2>7, <2>9, <2>10, Zenon DEF LinkInv
<1> QED BY <1>1, <1>2, Zenon DEF DeliverResponse

(* A registration routes its types to a client that is there. *)
LEMMA RegisterKeeps ==
    ASSUME LinkInv, spc.at = "poll", NEW c \in Conns, NEW i \in IdOf(c), NEW T,
           routes' = [t \in Types |-> IF t \in T THEN i ELSE routes[t]],
           spc' = [at |-> "ack", id |-> i, peer |-> c],
           UNCHANGED <<peers, arrivals, peerOf, mailbox, snd, accepted, left>>
    PROVE  LinkInv'
<1>1. i \in Ids /\ peerOf[i] = c /\ c # NoConn
  BY PsdLinkAssumption, Zenon DEF IdOf, NoConn
<1>2. spc'.at = "ack"
  BY Zenon
<1>3. LinkTyped'
  BY <1>1, Zenon DEF LinkInv, LinkTyped
<1>4. Owned' /\ AnswerGenuine' /\ Boxed'
  BY <1>2, Zenon DEF LinkInv, Owned, AnswerGenuine, Boxed
<1>5. RoutedToLive'
  BY <1>1, Zenon DEF LinkInv, RoutedToLive
<1>6. LookupStands' /\ WaitsOnLive'
  BY Zenon DEF LinkInv, LookupStands, WaitsOnLive
<1> QED BY <1>3, <1>4, <1>5, <1>6, Zenon DEF LinkInv

LEMMA RecvKeeps == ASSUME LinkInv, NEW c \in Conns, Recv(c) PROVE LinkInv'
<1> DEFINE m == Head(toPss[c])
<1>1. spc.at = "poll" /\ UNCHANGED <<peers, arrivals>>
  BY Zenon DEF Recv, Event
<1>2. PICK i \in IdOf(c) :
         \/ DeliverResponse(i, m[2]) /\ UNCHANGED <<peerOf, routes>> /\ Idle(Polling)
         \/ /\ routes' = [t \in Types |-> IF t \in m[2] THEN i ELSE routes[t]]
            /\ UNCHANGED <<peerOf, mailbox>> /\ Idle([at |-> "ack", id |-> i, peer |-> c])
         \/ Disconnect(i) /\ UNCHANGED mailbox
  BY Zenon DEF Recv
<1>3. i \in Ids /\ peerOf[i] = c /\ c # NoConn
  BY PsdLinkAssumption, Zenon DEF IdOf, NoConn
<1> HIDE DEF m
<1>4. CASE DeliverResponse(i, m[2]) /\ UNCHANGED <<peerOf, routes>> /\ Idle(Polling)
  BY <1>1, <1>3, <1>4, DeliveryKeeps, Zenon DEF Idle
<1>5. CASE /\ routes' = [t \in Types |-> IF t \in m[2] THEN i ELSE routes[t]]
           /\ UNCHANGED <<peerOf, mailbox>> /\ Idle([at |-> "ack", id |-> i, peer |-> c])
  BY <1>1, <1>5, RegisterKeeps, Zenon DEF Idle
<1>6. CASE Disconnect(i) /\ UNCHANGED mailbox
  BY <1>1, <1>3, <1>6, DisconnectKeeps, Zenon
<1> QED BY <1>2, <1>4, <1>5, <1>6, Zenon

LEMMA DropKeeps == ASSUME LinkInv, DropPeer PROVE LinkInv'
<1>1. /\ spc.at = "drop" /\ peers' = peers \ {spc.peer} /\ spc' = [spc EXCEPT !.at = "fail"]
      /\ UNCHANGED <<arrivals, peerOf, routes, mailbox, snd, accepted, left>>
  BY Zenon DEF DropPeer, Idle
<1>2. spc'.at = "fail" /\ spc'.id = spc.id
  BY <1>1, Zenon DEF LinkInv, LinkTyped
<1>3. LinkTyped'
  BY <1>1, Zenon DEF LinkInv, LinkTyped
<1>4. Owned'
  BY <1>1, <1>2, Zenon DEF LinkInv, Owned
<1>5. Boxed' /\ AnswerGenuine' /\ RoutedToLive'
  BY <1>1, Zenon DEF LinkInv, Boxed, AnswerGenuine, RoutedToLive
<1>6. LookupStands' /\ WaitsOnLive'
  BY <1>1, <1>2, Zenon DEF LinkInv, LookupStands, WaitsOnLive
<1> QED BY <1>3, <1>4, <1>5, <1>6, Zenon DEF LinkInv

(* A waiter is told of the loss of the client it asked. *)
LEMMA FailKeeps == ASSUME LinkInv, FailWaiter PROVE LinkInv'
<1> DEFINE l == mailbox[spc.id].lost \/ (mailbox[spc.id].armed /\ ~mailbox[spc.id].have)
<1>1. /\ spc.at = "fail" /\ mailbox' = [mailbox EXCEPT ![spc.id].lost = l] /\ spc' = Polling
      /\ UNCHANGED <<peers, arrivals, peerOf, routes, snd, accepted, left>>
  BY Zenon DEF FailWaiter, Idle
<1>2. mailbox \in [Ids -> Box] /\ spc.id \in Ids /\ l \in BOOLEAN
  BY <1>1, Zenon DEF LinkInv, LinkTyped, Box
<1>3. l <=> mailbox[spc.id].lost \/ (mailbox[spc.id].armed /\ ~mailbox[spc.id].have)
  BY Zenon
<1> HIDE DEF l
<1>4. mailbox' \in [Ids -> Box]
  BY <1>1, <1>2, Zenon DEF Box
<1>5. \A j \in Ids : /\ mailbox'[j].armed = mailbox[j].armed /\ mailbox'[j].have = mailbox[j].have
                     /\ mailbox'[j].req = mailbox[j].req /\ mailbox'[j].from = mailbox[j].from
                     /\ mailbox'[j].lost = IF j = spc.id THEN l ELSE mailbox[j].lost
  BY <1>1, <1>2, Zenon DEF Box
<1>6. spc'.at = "poll"
  BY <1>1, Zenon DEF Polling
<1>7. LinkTyped'
  BY <1>1, <1>4, Zenon DEF LinkInv, LinkTyped, Polling
<1>8. Owned' /\ RoutedToLive' /\ AnswerGenuine'
  BY <1>1, <1>6, Zenon DEF LinkInv, Owned, RoutedToLive, AnswerGenuine
<1>9. snd.pc # "idle" => snd.id \in Ids
  BY Zenon DEF LinkInv, LinkTyped
<1>10. Boxed'
  BY <1>1, <1>5, <1>9 DEF LinkInv, Boxed
<1>11. LookupStands'
  BY <1>1, Zenon DEF LinkInv, LookupStands
<1>12. WaitsOnLive'
  BY <1>1, <1>3, <1>5, <1>9 DEF LinkInv, WaitsOnLive, Boxed
<1> QED BY <1>7, <1>8, <1>10, <1>11, <1>12, Zenon DEF LinkInv

LEMMA StopKeeps == ASSUME LinkInv, StopServer PROVE LinkInv'
<1>1. /\ spc.at = "poll" /\ peers' = {} /\ arrivals' = {}
      /\ mailbox' = [i \in Ids |-> [mailbox[i] EXCEPT !.lost = @ \/ mailbox[i].armed]]
      /\ peerOf' = [i \in Ids |-> NoConn] /\ routes' = [t \in Types |-> NoId]
      /\ UNCHANGED <<spc, snd, accepted>>
  BY Zenon DEF StopServer
<1>2. mailbox \in [Ids -> Box] /\ left' \in Budget
  BY SpendType, Zenon DEF StopServer, LinkInv, LinkTyped
<1>3. mailbox' \in [Ids -> Box]
  BY <1>1, <1>2 DEF Box
<1>4. \A j \in Ids : /\ mailbox'[j].armed = mailbox[j].armed /\ mailbox'[j].have = mailbox[j].have
                     /\ mailbox'[j].req = mailbox[j].req /\ mailbox'[j].from = mailbox[j].from
                     /\ mailbox[j].armed => mailbox'[j].lost
  BY <1>1, <1>2, Zenon DEF Box
<1>5. LinkTyped'
  BY <1>1, <1>2, <1>3, Zenon DEF LinkInv, LinkTyped
<1>6. Owned' /\ RoutedToLive' /\ AnswerGenuine' /\ LookupStands'
  BY <1>1, Zenon DEF LinkInv, Owned, RoutedToLive, AnswerGenuine, LookupStands
<1>7. snd.pc # "idle" => snd.id \in Ids
  BY Zenon DEF LinkInv, LinkTyped
<1>s. snd' = snd
  BY <1>1, Zenon
<1>8. Boxed'
  BY <1>s, <1>4, <1>7, Zenon DEF LinkInv, Boxed
<1>9. snd.pc = "wait" => mailbox'[snd.id].lost
  BY <1>4, <1>7, Zenon DEF LinkInv, Boxed
<1>10. WaitsOnLive'
  BY <1>1, <1>9, Zenon DEF WaitsOnLive
<1> QED BY <1>5, <1>6, <1>8, <1>10, Zenon DEF LinkInv

LEMMA FreshDaemon ==
    ASSUME peers = {} /\ arrivals = {} /\ mailbox = [i \in Ids |-> EmptyBox] /\ spc = Polling /\ snd = IdleSender,
           peerOf = [i \in Ids |-> NoConn] /\ routes = [t \in Types |-> NoId],
           left \in Budget, AnswerGenuine
    PROVE  LinkInv
<1>1. EmptyBox \in Box /\ ~EmptyBox.have
  BY Zenon DEF EmptyBox, Box
<1>2. spc.at = "poll" /\ snd.pc = "idle"
  BY Zenon DEF Polling, IdleSender
<1>3. LinkTyped
  BY <1>1, Zenon DEF LinkTyped, Polling, IdleSender
<1>4. Owned /\ RoutedToLive /\ LookupStands /\ WaitsOnLive
  BY <1>2, Zenon DEF Owned, RoutedToLive, LookupStands, WaitsOnLive
<1>5. Boxed
  BY <1>1, <1>2, Zenon DEF Boxed
<1> QED BY <1>3, <1>4, <1>5, Zenon DEF LinkInv

LEMMA CrashKeeps == ASSUME LinkInv, DaemonCrash PROVE LinkInv'
<1>1. left' \in Budget /\ AnswerGenuine'
  BY SpendType, Zenon DEF DaemonCrash, LinkInv, LinkTyped, AnswerGenuine
<1>2. /\ peers' = {} /\ arrivals' = {} /\ mailbox' = [i \in Ids |-> EmptyBox] /\ spc' = Polling /\ snd' = IdleSender
      /\ peerOf' = [i \in Ids |-> NoConn] /\ routes' = [t \in Types |-> NoId]
  BY Zenon DEF DaemonCrash
<1>3. EmptyBox \in Box /\ ~EmptyBox.have
  BY Zenon DEF EmptyBox, Box
<1>4. spc'.at = "poll" /\ snd'.pc = "idle"
  BY <1>2, Zenon DEF Polling, IdleSender
<1>5. LinkTyped'
  BY <1>1, <1>2, <1>3, Zenon DEF LinkTyped, Polling, IdleSender
<1>6. Owned' /\ RoutedToLive' /\ LookupStands' /\ WaitsOnLive'
  BY <1>2, <1>4, Zenon DEF Owned, RoutedToLive, LookupStands, WaitsOnLive
<1>7. Boxed'
  BY <1>2, <1>3, <1>4, Zenon DEF Boxed
<1> QED BY <1>1, <1>5, <1>6, <1>7, Zenon DEF LinkInv

LEMMA ServerKeeps == ASSUME LinkInv, ServerNext PROVE LinkInv'
<1>1. CASE Poll
  <2>1. spc' \in [at : {"poll", "ack"}, id : Ids \cup {NoId}, peer : Conns \cup {NoConn}]
    BY <1>1, Zenon DEF Poll, Idle, Polling
  <2> QED BY <1>1, <2>1, AtPoll, Zenon DEF Poll, Idle
<1>2. CASE SendAck
  <2>1. spc' \in [at : {"poll", "ack"}, id : Ids \cup {NoId}, peer : Conns \cup {NoConn}]
    BY <1>2, Zenon DEF SendAck, Idle, Polling
  <2> QED BY <1>2, <2>1, AtPoll, Zenon DEF SendAck, Idle
<1>3. ASSUME NEW c \in Conns, PeerGone(c) PROVE LinkInv'
  <2>1. PICK i \in IdOf(c) : Disconnect(i)
    BY <1>3, Zenon DEF PeerGone
  <2>2. i \in Ids /\ peerOf[i] = c /\ c # NoConn
    BY PsdLinkAssumption, Zenon DEF IdOf, NoConn
  <2> QED BY <1>3, <2>1, <2>2, DisconnectKeeps, Zenon DEF PeerGone, Event
<1> QED BY <1>1, <1>2, <1>3, AdmitKeeps, RefuseKeeps, RecvKeeps, DropKeeps, FailKeeps, Zenon DEF ServerNext

LEMMA LinkNext == LinkInv /\ [PsdNext]_psdVars => LinkInv'
<1> SUFFICES ASSUME LinkInv, [PsdNext]_psdVars PROVE LinkInv'
  BY Zenon
<1>1. CASE DaemonStart
  BY <1>1, LinkStutter, Zenon DEF DaemonStart, LinkInv, LinkTyped
<1>2. CASE UNCHANGED psdVars
  BY <1>2, LinkStutter, Zenon DEF psdVars, daemonVars, LinkInv, LinkTyped
<1>3. CASE GatewayNext \/ Exit \/ GatewayRestart
  BY <1>3, GatewayKeeps, OpenKeeps, Zenon
<1>4. ASSUME NEW r \in Asked \ {0}, NEW t \in Types, Lookup(r, t) PROVE LinkInv'
  BY <1>4, LookupKeeps, Zenon
<1> QED BY <1>1, <1>2, <1>3, <1>4, ServerKeeps, SenderKeeps, StopKeeps, CrashKeeps, Zenon DEF PsdNext

LEMMA LinkInit == PsdInit => LinkInv
<1> SUFFICES ASSUME PsdInit PROVE LinkInv
  BY Zenon
<1>1. left \in Budget /\ AnswerGenuine
  BY PsdLinkAssumption, Zenon DEF PsdInit, Budget, AnswerGenuine
<1> QED BY <1>1, FreshDaemon, Zenon DEF PsdInit

(* For every number of clients, connections and event types: a decision     *)
(* request is completed only by the answer the gateway made for it, however *)
(* late answers, restarts and numbers used again fall (deliverResponse).    *)
THEOREM AnswersAreGenuine == PsdSpec => []AnswerGenuine
  BY LinkInit, LinkNext, PTL DEF PsdSpec, LinkInv

(* The sender is never left to sit out its timeout for a client that has    *)
(* gone, and no event type stays routed to a client id that nobody holds    *)
(* (handlePSDClientDisconnection, failWaiter, stopPSSDServer).              *)
THEOREM WaiterIsTold == PsdSpec => [](PsdTypeOK /\ WaitsOnLive /\ RoutedToLive)
<1>1. LinkInv => PsdTypeOK /\ WaitsOnLive /\ RoutedToLive
  BY Zenon DEF LinkInv, LinkTyped, Owned, Boxed, PsdTypeOK
<1> QED BY <1>1, LinkInit, LinkNext, PTL DEF PsdSpec
=============================================================================
