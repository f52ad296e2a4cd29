------------------------------ MODULE PsdGateway ------------------------------
(***************************************************************************)
(* The PSD gateway (NvPSDGateway.cpp) and the gateway end of its clients,  *)
(* the safety decision modules (SDMs): admission, heartbeat tiers, the     *)
(* sequence of PSS requests, fan-out, and the debt of recovery records.    *)
(*                                                                         *)
(* A step is a section of clientTableMutex or one transport call.  Peers   *)
(* are connections: <<s, n>> is the n-th of SDM s.  The transport delivers *)
(* in order and drops nothing it accepted; a send may be refused           *)
(* (WOULD_BLOCK), and a closed connection is drained before it is gone.    *)
(* An SDM sends well-formed REGRs far below the rate limit.                *)
(***************************************************************************)
EXTENDS Integers, Sequences, FiniteSets

CONSTANTS
    Sdms,
    Subscribers,    \* the SDMs whose REGR names the types of an "EVENT" request
    NumClients,     \* g_maxClients
    MaxHbFailures,  \* g_maxHbFailures
    IdMax,          \* NVPSD_GATEWAY_PSS_REQUEST_ID_MAX
    TxSeqMax,       \* NVPSD_GATEWAY_DECISION_TX_SEQ_MAX
    Budgets         \* bounds: how often the outside may act, per kind of action

ASSUME GatewayAssumption ==
    /\ Subscribers \subseteq Sdms
    /\ NumClients \in Nat \ {0} /\ MaxHbFailures \in Nat \ {0}
    /\ IdMax \in Nat \ {0} /\ TxSeqMax \in Nat \ {0}
    /\ \A b \in Budgets :
         b \in [requests : Nat, refused : Nat, ticks : Nat, regrs : Nat, conns : Nat, deaths : Nat]

Slots == 1..NumClients
Peers == Sdms \X Nat
NoPeer == <<>>

VARIABLES
    table,    \* clientTable
    pending,  \* pendingPeers
    drops,    \* g_deferredDrops
    open,     \* the transport's peer slots in use
    conn,     \* the number of each SDM's current connection
    regr,     \* peers with an unread REGR
    chan,     \* packets each SDM has not read yet
    seed,     \* gatewayClientEpochSeed
    lastId,   \* pssSequenceState.lastValidRequestId, 0 before the first
    gen,      \* g_pssFaultGeneration
    pc,       \* the callback and the PSS heartbeat thread
    list,     \* their g_toSendList, not sent yet
    cur,      \* the callback's request
    paid,     \* g_recoverySent
    sdm,      \* each SDM's sequence state and gateway_comm sub-cause
    left      \* what is left of the bounds

tableVars == <<table, pending, drops>>
link == <<open, conn, regr, chan>>
callback == <<cur, paid, lastId, gen>>
vars == <<tableVars, link, seed, callback, pc, list, sdm, left>>

-----------------------------------------------------------------------------
(* The client table. *)

Empty == [peer |-> NoPeer, epoch |-> 0, next |-> 1, miss |-> 0, owed |-> 0, built |-> 0]

InUse == {c \in Slots : table[c].peer # NoPeer}
Registered == {table[c].peer : c \in InUse}

\* recoveryOwedByAnyLocked
OwedByAny == \E c \in InUse : table[c].owed # 0

\* Tier 2: more than half the allowed misses.
Degraded(c) == table[c].miss > MaxHbFailures \div 2 /\ table[c].miss < MaxHbFailures

\* nextGatewayTxSeqAfter
NextTxSeq(n) == IF n >= TxSeqMax THEN 1 ELSE n + 1

\* The SDM has this connection open.
Mine(p) == conn[p[1]] = p[2]

\* An SDM that has just started.
FreshSdm == [epoch |-> 0, last |-> 0, nth |-> 0, gapped |-> FALSE, comm |-> 0]

Spend(what) == left[what] > 0 /\ left' = [left EXCEPT ![what] = @ - 1]

\* launchPSDControl
Init ==
    /\ table = [c \in Slots |-> Empty]
    /\ pending = {} /\ drops = {} /\ open = {} /\ regr = {}
    /\ conn = [s \in Sdms |-> 0] /\ chan = [s \in Sdms |-> <<>>]
    /\ seed = 1 /\ lastId = 0 /\ gen = 0
    /\ pc = [callback |-> "idle", pssHb |-> "alive"]
    /\ list = [callback |-> <<>>, pssHb |-> <<>>]
    /\ cur = <<>> /\ paid = {}
    /\ sdm = [s \in Sdms |-> FreshSdm]
    /\ left \in Budgets

-----------------------------------------------------------------------------
(* Fan-out: sendToRelevantClients, by the callback or the PSS heartbeat     *)
(* thread.                                                                  *)

\* What the client in slot c is sent; nth counts its packets (history).
Item(c, kind) ==
    [slot |-> c, peer |-> table[c].peer, owed |-> table[c].owed,
     packet |-> [epoch |-> table[c].epoch, seq |-> table[c].next, kind |-> kind,
                 nth |-> table[c].built + 1]]

\* Under the lock: choose the recipients and spend a sequence number for each.
Build(t, kind, to, next) ==
    LET chosen == {c \in InUse \cap to : ~Degraded(c)}
        InChosen(c) == c \in chosen
        order == SelectSeq([c \in Slots |-> c], InChosen)
    IN  /\ list[t] = <<>>
        /\ list' = [list EXCEPT ![t] = [i \in 1..Len(order) |-> Item(order[i], kind)]]
        /\ table' = [c \in Slots |->
                       IF c \in chosen
                       THEN [table[c] EXCEPT !.next = NextTxSeq(@), !.built = @ + 1]
                       ELSE table[c]]
        /\ pc' = [pc EXCEPT ![t] = next]

\* Mutant: a refused packet gives its number back.
SendRefusedRefund(item) ==
    /\ Spend("refused")
    /\ table' = [table EXCEPT ![item.slot].next = item.packet.seq]
    /\ UNCHANGED <<chan, paid>>

\* WOULD_BLOCK: the packet is dropped, its number spent.
SendRefused(item) == Spend("refused") /\ UNCHANGED <<table, chan, paid>>

\* The transport takes it.
SendAccepted(item) ==
    /\ chan' = [chan EXCEPT ![item.peer[1]] = Append(@, item.packet)]
    /\ paid' = IF item.packet.kind = "RECOVERED" THEN paid \cup {item} ELSE paid
    /\ UNCHANGED <<table, left>>

\* After it: one NvPSFTransportSend; to a departed peer it does nothing.
SendItem(t) ==
    /\ list[t] # <<>>
    /\ list' = [list EXCEPT ![t] = Tail(@)]
    /\ LET item == Head(list[t])
           connected == item.peer \in open /\ Mine(item.peer)
       IN  \/ connected /\ SendAccepted(item)
           \/ connected /\ SendRefused(item)
           \/ ~connected /\ UNCHANGED <<table, chan, paid, left>>
    /\ UNCHANGED <<pending, drops, open, conn, regr, seed, cur, lastId, gen, pc, sdm>>

\* NvPSDGatewayShouldSendDecisionRequest for a full request: everyone.
All == InUse

\* gatewayPssHeartbeatLoop gives PSS up: the heartbeat and the re-registration
\* failed to the limit.  ERROR to everyone, and the thread ends.
PssDead ==
    /\ pc["pssHb"] = "alive" /\ Spend("deaths")
    /\ Build("pssHb", "ERROR", All, "exit")
    /\ UNCHANGED <<pending, drops, link, seed, callback, sdm>>

-----------------------------------------------------------------------------
(* onEventNotificationReceive: one PSS request at a time.                   *)

\* NvPSDGatewayObservePssRequestId
PssObservation(last, id) ==
    IF id \notin 1..IdMax THEN "INVALID"
    ELSE IF last = 0 THEN "ACCEPT"
    ELSE IF id = last THEN "DUPLICATE"
    ELSE IF id = (IF last >= IdMax THEN 1 ELSE last + 1) THEN "ACCEPT" ELSE "GAP"

\* A request is "EVENT" or "NOOP" (mode NORMAL or DEGRADED), or "ERROR" (events in
\* mode ERROR).
OnRequest(id, kind) ==
    LET obs == PssObservation(lastId, id)
    IN  /\ pc["callback"] = "idle" /\ list["callback"] = <<>> /\ Spend("requests")
        /\ lastId' = IF obs = "INVALID" THEN lastId ELSE id
        /\ cur' = [kind |-> kind, forward |-> obs # "INVALID"]
        /\ pc' = [pc EXCEPT !["callback"] =
                    CASE obs = "DUPLICATE" -> "idle"
                      [] obs # "DUPLICATE" /\ (obs # "ACCEPT" \/ kind = "ERROR") -> "fault"
                      [] OTHER -> "owed"]
        /\ UNCHANGED <<tableVars, link, seed, paid, gen, list, sdm>>

\* The synthetic SW_FAIL: sequence gap, invalid id or PSS in ERROR.
FaultFanout ==
    /\ pc["callback"] = "fault"
    /\ Build("callback", "FAULT", All, "note")
    /\ UNCHANGED <<pending, drops, link, seed, callback, sdm, left>>

\* notePssSyntheticFaultBroadcast
NoteFault ==
    /\ pc["callback"] = "note" /\ list["callback"] = <<>>
    /\ gen' = gen + 1
    /\ table' = [c \in Slots |-> IF c \in InUse THEN [table[c] EXCEPT !.owed = gen + 1] ELSE table[c]]
    /\ pc' = [pc EXCEPT !["callback"] = IF cur.forward THEN "forward" ELSE "idle"]
    /\ UNCHANGED <<pending, drops, link, seed, cur, paid, lastId, list, sdm, left>>

CheckOwed ==
    /\ pc["callback"] = "owed"
    /\ pc' = [pc EXCEPT !["callback"] = IF OwedByAny THEN "recover" ELSE "forward"]
    /\ UNCHANGED <<tableVars, link, seed, callback, list, sdm, left>>

\* NvPSDGatewayRecoveryRecordOwed
RecordOwed == {c \in InUse : table[c].owed # 0}

RecoverFanout ==
    /\ pc["callback"] = "recover"
    /\ Build("callback", "RECOVERED", RecordOwed, "pay")
    /\ UNCHANGED <<pending, drops, link, seed, callback, sdm, left>>

\* Mutant: every client that was chosen is taken as told.
PayDebtsUnsent ==
    /\ pc["callback"] = "pay" /\ list["callback"] = <<>>
    /\ table' = [c \in Slots |-> IF c \in InUse /\ ~Degraded(c) THEN [table[c] EXCEPT !.owed = 0] ELSE table[c]]
    /\ paid' = {}
    /\ pc' = [pc EXCEPT !["callback"] = "forward"]
    /\ UNCHANGED <<pending, drops, link, seed, cur, lastId, gen, list, sdm, left>>

\* NvPSDGatewayRecoveryDebtAfterSend, for the clients the transport took the record for.
PayDebts ==
    /\ pc["callback"] = "pay" /\ list["callback"] = <<>>
    /\ table' = [c \in Slots |->
                   IF \E r \in paid : r.slot = c /\ r.peer = table[c].peer /\ r.owed = table[c].owed
                   THEN [table[c] EXCEPT !.owed = 0] ELSE table[c]]
    /\ paid' = {}
    /\ pc' = [pc EXCEPT !["callback"] = "forward"]
    /\ UNCHANGED <<pending, drops, link, seed, cur, lastId, gen, list, sdm, left>>

\* The request itself, to the clients subscribed to what it carries.
Subscribed == {c \in InUse : cur.kind # "NOOP" => table[c].peer[1] \in Subscribers}

Forward ==
    /\ pc["callback"] = "forward"
    /\ Build("callback", cur.kind, Subscribed, "idle")
    /\ UNCHANGED <<pending, drops, link, seed, callback, sdm, left>>

Callback ==
    \/ \E id \in 0..(IdMax + 1), kind \in {"EVENT", "NOOP", "ERROR"} : OnRequest(id, kind)
    \/ FaultFanout \/ NoteFault \/ CheckOwed \/ RecoverFanout \/ PayDebts \/ Forward

-----------------------------------------------------------------------------
(* registrationListenerLoop *)

\* A connection is accepted (stage one) and the SDM sends its REGR.
Accepted(s) ==
    LET p == <<s, conn[s] + 1>>
    IN  /\ Cardinality(open) < 2 * NumClients
        /\ Spend("conns")
        /\ conn' = [conn EXCEPT ![s] = @ + 1]
        /\ open' = open \cup {p} /\ pending' = pending \cup {p}
        /\ regr' = regr \cup {p}

\* openGatewayTransport: at launch, or when the gateway is gone and all is read.
SdmConnect(s) ==
    /\ <<s, conn[s]>> \notin open /\ chan[s] = <<>>
    /\ Accepted(s)
    /\ UNCHANGED <<table, drops, chan, seed, callback, pc, list, sdm>>

\* The SDM process ends and a new one starts.
SdmRestart(s) ==
    /\ <<s, conn[s]>> \in open
    /\ Accepted(s)
    /\ chan' = [chan EXCEPT ![s] = <<>>] /\ sdm' = [sdm EXCEPT ![s] = FreshSdm]
    /\ UNCHANGED <<table, drops, seed, callback, pc, list>>

\* The periodic REGR of a connected SDM.
SdmRegr(s) ==
    /\ <<s, conn[s]>> \in open \ regr /\ Spend("regrs")
    /\ regr' = regr \cup {<<s, conn[s]>>}
    /\ UNCHANGED <<tableVars, open, conn, chan, seed, callback, pc, list, sdm>>

FirstFree == IF InUse = Slots THEN 0 ELSE CHOOSE c \in Slots \ InUse : \A d \in Slots \ InUse : c <= d

\* findSlotByPeerLocked, else the first free slot, else 0
SlotFor(p) == IF p \in Registered THEN CHOOSE c \in InUse : table[c].peer = p ELSE FirstFree

\* Mutant: a REGR ends the peer's stay among the pending, slot or no slot.
PendingAfterAny(p, c) == pending \ {p}

\* A peer stops being pending when it has a slot, and not before.
PendingAfter(p, c) == IF c = 0 THEN pending \cup {p} ELSE pending \ {p}

\* A new client has a fresh epoch, and owes a record while any client does.
NewClient(p) ==
    [Empty EXCEPT !.peer = p, !.epoch = seed, !.owed = IF OwedByAny THEN gen ELSE 0]

\* A REGR is read.  A known peer keeps its stream; with the table full it is refused.
Register(p) ==
    LET c == SlotFor(p)
        known == c # 0 /\ table[c].peer = p
    IN  /\ p \in regr \cap open
        /\ regr' = regr \ {p}
        /\ pending' = PendingAfter(p, c)
        /\ table' = IF c = 0 THEN table
                    ELSE [table EXCEPT ![c] = IF known THEN [@ EXCEPT !.miss = 0] ELSE NewClient(p)]
        /\ seed' = IF c = 0 \/ known THEN seed ELSE seed + 1
        /\ UNCHANGED <<drops, open, conn, chan, callback, pc, list, sdm, left>>

\* releaseClientSlotLocked, for a set of slots
Released(S) == [c \in Slots |-> IF c \in S THEN Empty ELSE table[c]]

\* The SDM closed the connection: noticed by Poll, or by Recv, which has already
\* released the transport's slot.
PeerGone(p, byPoll) ==
    /\ p \in open \ regr /\ ~Mine(p)
    /\ open' = open \ {p} /\ pending' = pending \ {p}
    /\ table' = Released({c \in Slots : table[c].peer = p})
    /\ drops' = IF byPoll /\ p \in Registered THEN drops \cup {p} ELSE drops
    /\ UNCHANGED <<conn, regr, chan, seed, callback, pc, list, sdm, left>>

\* The admission-timeout reaper
Reap(p) ==
    /\ p \in pending
    /\ pending' = pending \ {p}
    /\ open' = open \ {p} /\ regr' = regr \ {p}
    /\ UNCHANGED <<table, drops, conn, chan, seed, callback, pc, list, sdm, left>>

\* flushDeferredActions: the listener, the heartbeat thread or a sender gets to it.
Flush ==
    /\ drops # {} /\ drops' = {}
    /\ open' = open \ drops /\ regr' = regr \ drops
    /\ UNCHANGED <<table, pending, conn, chan, seed, callback, pc, list, sdm, left>>

Listener ==
    \/ \E s \in Sdms : SdmConnect(s) \/ SdmRestart(s) \/ SdmRegr(s)
    \/ \E p \in open : Register(p) \/ PeerGone(p, TRUE) \/ PeerGone(p, FALSE) \/ Reap(p)
    \/ Flush

-----------------------------------------------------------------------------
(* heartbeatSenderLoop: one heartbeat, and the clients that are late for it. *)

Ladder(late) ==
    /\ late # {} /\ Spend("ticks")
    /\ LET lost == {c \in late : table[c].miss + 1 >= MaxHbFailures}
       IN  /\ table' = [c \in Slots |-> IF c \in late \ lost
                                        THEN [table[c] EXCEPT !.miss = @ + 1]
                                        ELSE Released(lost)[c]]
           /\ drops' = drops \cup {table[c].peer : c \in lost}
    /\ UNCHANGED <<pending, link, seed, callback, pc, list, sdm>>

\* The listener reads an ACK newer than the last one; a sender that is not
\* registered goes on the admission clock.
HbAck(p) ==
    /\ p \in open /\ Mine(p)
    /\ table' = [c \in Slots |-> IF table[c].peer = p THEN [table[c] EXCEPT !.miss = 0] ELSE table[c]]
    /\ pending' = IF p \in Registered THEN pending ELSE pending \cup {p}
    /\ UNCHANGED <<drops, link, seed, callback, pc, list, sdm, left>>

-----------------------------------------------------------------------------
(* An SDM reads a packet. *)

\* sdmGatewayDecisionSequenceObserve
SequenceResult(st, p) ==
    IF p.epoch # st.epoch THEN "ACCEPTED"
    ELSE IF st.last < TxSeqMax /\ p.seq <= st.last THEN "STALE"
    ELSE IF p.seq = (IF st.last >= TxSeqMax THEN 1 ELSE st.last + 1) THEN "ACCEPTED" ELSE "GAP"

\* What a packet does to gateway_comm; comm is the connection it was raised on, 0 if
\* it is not active.
CommAfter(s, kind) ==
    CASE kind = "FAULT" -> conn[s]
      [] kind \in {"RECOVERED", "EVENT"} -> 0
      [] OTHER -> sdm[s].comm

SdmReceive(s) ==
    /\ chan[s] # <<>>
    /\ chan' = [chan EXCEPT ![s] = Tail(@)]
    /\ LET p == Head(chan[s])
           res == SequenceResult(sdm[s], p)
       IN  sdm' = IF res = "STALE" THEN sdm
                  ELSE [sdm EXCEPT ![s] =
                          [epoch |-> p.epoch, last |-> p.seq, nth |-> p.nth,
                           gapped |-> (res = "GAP" \/ (sdm[s].epoch = p.epoch /\ sdm[s].gapped)),
                           comm |-> CommAfter(s, p.kind)]]
    /\ UNCHANGED <<tableVars, open, conn, regr, seed, callback, pc, list, left>>

Next ==
    \/ Callback \/ PssDead \/ SendItem("callback") \/ SendItem("pssHb")
    \/ Listener
    \/ \E late \in SUBSET InUse : Ladder(late)
    \/ \E p \in open : HbAck(p)
    \/ \E s \in Sdms : SdmReceive(s)

Spec == Init /\ [][Next]_vars

-----------------------------------------------------------------------------
(* Properties *)

Items == [slot : Slots, peer : Peers, owed : Nat,
          packet : [epoch : Nat, seq : 1..TxSeqMax, kind : {"FAULT", "RECOVERED", "EVENT", "NOOP", "ERROR"},
                    nth : Nat]]

(* The type invariant. *)
TypeOK ==
    /\ \A c \in Slots :
         /\ table[c].peer \in Peers \cup {NoPeer}
         /\ table[c].epoch \in Nat /\ table[c].next \in 1..TxSeqMax
         /\ table[c].miss \in 0..(MaxHbFailures - 1)
         /\ table[c].owed \in 0..gen
    /\ pending \cup drops \cup open \cup regr \subseteq Peers
    /\ lastId \in 0..IdMax /\ gen \in Nat /\ seed \in Nat
    /\ \A t \in {"callback", "pssHb"} : \A i \in 1..Len(list[t]) : list[t][i] \in Items
    /\ \A r \in paid : r \in Items
    /\ \A s \in Sdms : sdm[s].last \in 0..TxSeqMax /\ sdm[s].comm \in 0..conn[s]

(* Allocate before send: within one epoch an SDM that applies a packet has a gap *)
(* reported exactly when a packet before it did not arrive, whether the send was *)
(* refused or overtaken by the other fan-out thread, and across re-registrations *)
(* (short of the wrap of the sequence number).                                   *)
GapShown ==
    [][\A s \in Sdms :
         sdm'[s].nth # sdm[s].nth /\ sdm'[s].epoch = sdm[s].epoch /\ ~sdm[s].gapped
         => (sdm'[s].gapped <=> sdm'[s].nth # sdm[s].nth + 1)]_vars

(* Something that ends gateway_comm is on its way to the SDM. *)
RecoveryOnItsWay(s) ==
    \E i \in 1..Len(chan[s]) : chan[s][i].kind \in {"RECOVERED", "EVENT"}

(* The recovery debt: a client that holds gateway_comm since a fault on this very *)
(* connection is owed a record (or is about to be marked), or what clears it is   *)
(* on its way, however the sends fail and whichever tier skips it; unless a gap   *)
(* already has the SDM latched.                                                   *)
DebtStands ==
    \A c \in InUse :
        LET s == table[c].peer[1]
        IN  table[c].peer \in open \ drops /\ Mine(table[c].peer) /\ sdm[s].comm = conn[s]
            => \/ table[c].owed # 0
               \/ RecoveryOnItsWay(s)
               \/ pc["callback"] = "note"
               \/ sdm[s].gapped

(* Two-stage admission: every connection that holds a transport slot is in the   *)
(* client table, on the reaper's clock or about to be dropped.                   *)
NoPeerLeaked == open \subseteq Registered \cup pending \cup drops

(* A connection is registered once, and not while the reaper may close it: a     *)
(* repeated REGR neither splits its stream nor lets it be dropped.               *)
AdmittedOnce ==
    /\ \A c, d \in InUse : table[c].peer = table[d].peer => c = d
    /\ Registered \cap pending = {}
=============================================================================
