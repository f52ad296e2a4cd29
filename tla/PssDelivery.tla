----------------------------- MODULE PssDelivery -----------------------------
(***************************************************************************)
(* The PSS -> PSD delivery path of the safety event integrator daemon:     *)
(* two staging lanes, the one sender thread (managePsdSender), its retry   *)
(* and abandonment rules, and the critical-lane overflow latch.            *)
(* Source: NvPSSSafetyEventManager.cpp, NvPSSDeliveryFailSafe.hpp.         *)
(*                                                                         *)
(* Producers (the input-queue thread and the event processor) enqueue      *)
(* under the lane mutex; the sender copies a batch from the front, sends   *)
(* it as one DecisionRequest, and removes exactly those entries when PSD   *)
(* acknowledges or when the batch is abandoned.  Producers run between any *)
(* two steps of the sender.                                                *)
(*                                                                         *)
(* A report is known by its production number n; what it says is left out. *)
(* Time is left out: a gate, a back-off or a response deadline may expire  *)
(* at any moment.                                                          *)
(***************************************************************************)
EXTENDS Naturals, Sequences, FiniteSets, SequencesExt

CONSTANTS
    VerdictSlots,       \* what a trust verdict is about: a sensor or the AI pipeline
    CriticalDepth,      \* psdCriticalQueueDepth_
    OperationalDepth,   \* psdOperationalQueueDepth_
    BatchMax,           \* MAX_SENSORS_DATA_SUMMARY_SIZE
    RefusedPendingMax,  \* NVPSS_PSD_REFUSED_PENDING_MAX
    RetryBudget,        \* pssToPsdRetryBudget_
    MaxAttempts,        \* NVPSS_PSD_BATCH_MAX_DELIVERY_ATTEMPTS
    RequestIdMax,       \* NVPSS_DECISION_REQUEST_ID_MAX
    BaseModes,          \* the mode the other sources of PSS status may give
    Kinds,              \* bound: the kinds of report and event produced
    MaxReports,         \* bound: reports and events produced
    MaxNoops            \* bound: status no-ops produced

ASSUME ConstantsAssumption ==
    /\ {CriticalDepth, OperationalDepth, BatchMax, RefusedPendingMax,
        RetryBudget, MaxAttempts, RequestIdMax} \subseteq Nat \ {0}
    /\ {MaxReports, MaxNoops} \subseteq Nat
    /\ BaseModes \subseteq {"NORMAL", "ERROR"} /\ "NORMAL" \in BaseModes
    /\ Kinds \subseteq {"SW_FAIL", "VERDICT", "DISTRUSTED", "ERROR_MODE", "FRESH", "LATE"}

VARIABLES
    lane,        \* criticalPrioQue and operationalPrioQue
    refused,     \* psdRefusedPending_
    readmitMax,  \* psdRefusedReadmittedSeqMax_
    overflow,    \* criticalLaneOverflow_: active, generation, delivered generation
    enqSeq,      \* psdEnqueueSeq_
    delivery,    \* psdDeliveryState_
    nextId,      \* psdRequestId
    sender,      \* the sender thread's locals (managePsdSender)
    psdLast,     \* the last request id PSD saw: what it recognises as a repeat
    produced,    \* how many reports and no-ops there have been
    told         \* what the SDMs have been told (history, read by no action)

senderVars == <<lane, refused, readmitMax, overflow, enqSeq, delivery, nextId,
          sender, psdLast, produced, told>>

-----------------------------------------------------------------------------
(* Data *)

Lanes == {"CRITICAL", "OPERATIONAL"}

NoSlot == "none"

\* NvPSSPsdIsMustDeliverReport: SW_FAIL and the trust verdicts.
MustDeliver(ev) == ev.type \in {"SW_FAIL", "VERDICT"}

\* NvPSSPsdSameVerdictSlot: a SW_FAIL is in no slot, so it is never coalesced.
SameVerdictSlot(a, b) ==
    a.type = "VERDICT" /\ b.type = "VERDICT" /\ a.slot = b.slot

\* The PsdBatchTicket of a lane that is not retrying: count 0.
NoTicket ==
    [seqs |-> <<>>, evs |-> <<>>, id |-> 0, attempts |-> 0,
     stamped |-> FALSE, stamp |-> "NORMAL", gen |-> 0]

\* A transmitted request: its id, events and stamp.
NothingSent == [id |-> 0, evs |-> <<>>, stamp |-> "NORMAL"]

Field(entries, f) == [i \in DOMAIN entries |-> entries[i][f]]

\* NvPSSNextDecisionRequestIdAfter.
NextRequestId(id) == IF id >= RequestIdMax THEN 1 ELSE id + 1

InitialSender ==
    [pc |-> "idle",             \* where managePsdSender is
     due |-> "CRITICAL",        \* the lane selected for this pass
     cur |-> NoTicket,          \* psdBatchTicket and the request built with it
     attempt |-> 0,             \* the attempt inside sendDecisionRequestWithRetry
     arrived |-> FALSE,         \* PSD has the attempt that is being waited for
     retained |-> [l \in Lanes |-> NoTicket],   \* retainedTickets
     yield |-> FALSE,           \* criticalYieldPending
     gate |-> "off",            \* operationalGate: off, armed or due
     backoff |-> FALSE,         \* now < sendRetryNotBeforeNs
     depth |-> 0,               \* what maybeClearCriticalLaneOverflow read
     outstanding |-> FALSE]     \*   under the lane mutex

SenderInit ==
    /\ lane = [l \in Lanes |-> <<>>]
    /\ refused = <<>>
    /\ readmitMax = 0
    /\ overflow = [active |-> FALSE, gen |-> 0, delivered |-> 0]
    /\ enqSeq = 0
    /\ delivery = "NORMAL"
    /\ nextId = 1
    /\ sender = InitialSender
    /\ psdLast = 0
    /\ produced = [reports |-> 0, noops |-> 0]
    /\ told = [verdict |-> [s \in VerdictSlots |-> 0],  \* latest verdict per slot
               mode |-> "NORMAL",       \* stamp of the last request forwarded
               gen |-> 0,               \* latest refusal forwarded
               failure |-> TRUE,        \* they hold for the last failed delivery
               sent |-> [l \in Lanes |-> NothingSent]]  \* last transmission per lane

-----------------------------------------------------------------------------
(* Producers: enqueuePsdFusedEvent *)

\* NvPSSPsdCriticalLaneVictim: positions whose entry may be evicted.
Evictable(q) == {i \in BatchMax + 1 .. Len(q) : q[i].evictable}

\* Mutation: a newer verdict leaves the refused older one in the list.
DropNothing(pending, ev) == pending

\* NvPSSPsdDropSupersededRefused.
DropSuperseded(pending, ev) ==
    SelectSeq(pending, LAMBDA old : ~SameVerdictSlot(old, ev))

\* insertOperationalOrdered: after every entry that is not later.
InsertOrdered(q, e) ==
    InsertAt(q, 1 + Cardinality({i \in DOMAIN q : q[i].ev.ts <= e.ev.ts}), e)

Entry(ev, evictable) == [seq |-> enqSeq, ev |-> ev, evictable |-> evictable]

Admit(l, ev, evictable) ==
    /\ lane' = [lane EXCEPT ![l] =
                  IF l = "OPERATIONAL" THEN InsertOrdered(@, Entry(ev, FALSE))
                  ELSE Append(@, Entry(ev, evictable))]
    /\ enqSeq' = enqSeq + 1
    /\ refused' = IF l = "CRITICAL" THEN DropSuperseded(refused, ev) ELSE refused
    /\ UNCHANGED <<overflow, told>>

\* A full critical lane gives up its newest evictable entry for a report.
EvictAndAdmit(ev) ==
    LET q == lane["CRITICAL"]
        victim == CHOOSE i \in Evictable(q) : \A j \in Evictable(q) : j <= i
    IN  /\ lane' = [lane EXCEPT !["CRITICAL"] =
                      Append(RemoveAt(@, victim), Entry(ev, FALSE))]
        /\ enqSeq' = enqSeq + 1
        /\ refused' = DropSuperseded(refused, ev)
        /\ UNCHANGED <<overflow, told>>

\* Nothing evictable: raise the overflow, keep the report if the list has room
\* (NvPSSPsdRetainRefused).
RefuseReport(ev) ==
    LET kept == DropSuperseded(refused, ev)
        room == Len(kept) < RefusedPendingMax
    IN  /\ overflow' = [overflow EXCEPT !.active = TRUE, !.gen = @ + 1]
        /\ refused' = IF room THEN Append(kept, ev) ELSE kept
        /\ UNCHANGED <<lane, enqSeq, told>>

Enqueue(l, ev, evictable) ==
    LET depth == IF l = "CRITICAL" THEN CriticalDepth ELSE OperationalDepth
        full == Len(lane[l]) >= depth
    IN  \/ ~full /\ Admit(l, ev, evictable)
        \/ full /\ l = "CRITICAL" /\ MustDeliver(ev)
                /\ Evictable(lane[l]) # {} /\ EvictAndAdmit(ev)
        \/ full /\ l = "CRITICAL" /\ MustDeliver(ev)
                /\ Evictable(lane[l]) = {} /\ RefuseReport(ev)
        \/ full /\ ~(l = "CRITICAL" /\ MustDeliver(ev))
                /\ UNCHANGED <<lane, enqSeq, refused, overflow, told>>

Event(type, slot, ts) ==
    [n |-> IF type \in {"SW_FAIL", "VERDICT"} THEN produced.reports + 1 ELSE 0,
     type |-> type, slot |-> slot, ts |-> ts]

\* Every must-deliver report is CRITICAL; an ordinary event is CRITICAL when its
\* source was distrusted or it was stale (evictable), or when the mode was ERROR
\* as it was classified, and OPERATIONAL otherwise, with the current timestamp
\* (1) or one from earlier in the correlation window (0).
Produce(kind) ==
    /\ produced.reports < MaxReports
    /\ produced' = [produced EXCEPT !.reports = @ + 1]
    /\ \/ /\ kind = "SW_FAIL"
          /\ Enqueue("CRITICAL", Event("SW_FAIL", NoSlot, 1), FALSE)
       \/ /\ kind = "VERDICT"
          /\ \E s \in VerdictSlots : Enqueue("CRITICAL", Event("VERDICT", s, 1), FALSE)
       \/ /\ kind = "DISTRUSTED"
          /\ Enqueue("CRITICAL", Event("EVENT", NoSlot, 1), TRUE)
       \/ /\ kind = "ERROR_MODE"
          /\ Enqueue("CRITICAL", Event("EVENT", NoSlot, 1), FALSE)
       \/ /\ kind = "FRESH"
          /\ Enqueue("OPERATIONAL", Event("EVENT", NoSlot, 1), FALSE)
       \/ /\ kind = "LATE"
          /\ Enqueue("OPERATIONAL", Event("EVENT", NoSlot, 0), FALSE)
    /\ UNCHANGED <<readmitMax, delivery, nextId, sender, psdLast>>

-----------------------------------------------------------------------------
(* The sender thread: managePsdSender *)

\* NvPSSPsdUpdateReleaseGate.
UpdatedGate(gate) ==
    IF lane["OPERATIONAL"] = <<>> THEN "off"
    ELSE IF gate = "off" THEN "armed" ELSE gate

\* NvPSSPsdSelectDuePriority.
SelectDue(gate) ==
    LET critical == lane["CRITICAL"] # <<>>
        operationalDue == lane["OPERATIONAL"] # <<>> /\ gate = "due"
    IN  IF critical /\ ~sender.yield THEN "CRITICAL"
        ELSE IF operationalDue THEN "OPERATIONAL"
        ELSE IF critical THEN "CRITICAL" ELSE "none"

senderUnchanged == <<lane, refused, readmitMax, overflow, enqSeq, delivery,
                     nextId, psdLast, produced, told>>

\* The status interval has passed: queue a no-op if the lane has room, and make
\* the gate due either way.
StatusNoop ==
    /\ sender.pc = "idle"
    /\ produced.noops < MaxNoops
    /\ produced' = [produced EXCEPT !.noops = @ + 1]
    /\ Enqueue("OPERATIONAL", Event("NOOP", NoSlot, 1), FALSE)
    /\ sender' = [sender EXCEPT !.gate = "due"]
    /\ UNCHANGED <<readmitMax, delivery, nextId, psdLast>>

\* One pass of the loop up to the choice of a lane.
SelectPass ==
    /\ sender.pc = "idle"
    /\ LET gate == UpdatedGate(sender.gate)
           due == IF sender.backoff THEN "none" ELSE SelectDue(gate)
       IN  sender' = IF due = "none"
                     THEN [sender EXCEPT !.gate = gate]
                     ELSE [sender EXCEPT !.gate = gate, !.due = due, !.pc = "build"]
    /\ UNCHANGED senderUnchanged

GateExpires ==
    /\ sender.pc = "idle" /\ sender.gate = "armed"
    /\ sender' = [sender EXCEPT !.gate = "due"]
    /\ UNCHANGED senderUnchanged

BackoffExpires ==
    /\ sender.pc = "idle" /\ sender.backoff
    /\ sender' = [sender EXCEPT !.backoff = FALSE]
    /\ UNCHANGED senderUnchanged

\* Mutations: a batch of the same length is a retry; no batch is a retry.
SameBatchLength(a, b) == a.seqs # <<>> /\ Len(a.seqs) = Len(b.seqs)
SameBatchNever(a, b) == FALSE

\* psdBatchIdentityMatches: the same staged entries in the same order.
SameBatch(a, b) == a.seqs # <<>> /\ a.seqs = b.seqs

\* buildDecisionRequestFromQueuedEvents copies the batch; the pass then decides
\* whether it is a retry of the batch this lane retained.
BuildRequest ==
    /\ sender.pc = "build"
    /\ LET q == lane[sender.due]
           batch == SubSeq(q, 1, IF Len(q) < BatchMax THEN Len(q) ELSE BatchMax)
           fresh == [NoTicket EXCEPT !.seqs = Field(batch, "seq"), !.evs = Field(batch, "ev"),
                                     !.attempts = 1]
           old == sender.retained[sender.due]
       IN  sender' = [sender EXCEPT !.pc = "send", !.attempt = 1,
                        !.cur = IF SameBatch(old, fresh)
                                THEN [old EXCEPT !.seqs = fresh.seqs, !.evs = fresh.evs,
                                                 !.attempts = @ + 1]
                                ELSE fresh]
    /\ UNCHANGED senderUnchanged

\* makePssStatusForDecisionRequest: base is the mode without the overflow and
\* the delivery state (fusion health and the safety-monitor heartbeat).
StampMode(base) ==
    IF overflow.active \/ delivery = "ERROR_ACTIVE" THEN "ERROR" ELSE base

\* What the SDMs learn when PSD forwards ticket t (its events in order).
Tell(t) ==
    [told EXCEPT
        !.verdict = [s \in VerdictSlots |->
             LET hits == {i \in DOMAIN t.evs : t.evs[i].type = "VERDICT" /\ t.evs[i].slot = s}
             IN  IF hits = {} THEN @[s]
                 ELSE t.evs[CHOOSE i \in hits : \A j \in hits : j <= i].n],
        !.mode = t.stamp,
        !.gen = IF t.gen > @ THEN t.gen ELSE @,
        !.failure = @ \/ t.stamp = "ERROR"]

\* One attempt of sendDecisionRequestWithRetry, under psdSendMtx_: the id and
\* the stamp are fixed by the first transmission.  PSD may or may not get it;
\* it forwards a request unless its id repeats the last one it saw.
SendAttempt ==
    /\ sender.pc = "send"
    /\ \E base \in BaseModes, arrives \in BOOLEAN :
       LET c == sender.cur
           id == IF c.id = 0 THEN nextId ELSE c.id
           t == IF c.stamped THEN [c EXCEPT !.id = id]
                ELSE [c EXCEPT !.id = id, !.stamped = TRUE, !.stamp = StampMode(base),
                               !.gen = IF overflow.active THEN overflow.gen ELSE 0]
           forwards == arrives /\ t.id # psdLast
           known == IF forwards THEN Tell(t) ELSE told
       IN  /\ c.stamped => base = "NORMAL"
           /\ nextId' = IF c.id = 0 THEN NextRequestId(nextId) ELSE nextId
           /\ sender' = [sender EXCEPT !.pc = "wait", !.cur = t, !.arrived = arrives]
           /\ psdLast' = IF arrives THEN t.id ELSE psdLast
           /\ told' = [known EXCEPT !.sent[sender.due] =
                         [id |-> t.id, evs |-> t.evs, stamp |-> t.stamp]]
    /\ UNCHANGED <<lane, refused, readmitMax, overflow, enqSeq, delivery, produced>>

\* commitQueuedEvents: exactly the entries the ticket names.
Committed(l, t) ==
    [lane EXCEPT ![l] = SelectSeq(@, LAMBDA e : e.seq \notin ToSet(t.seqs))]

\* The end of a pass: what the lane still owes and the gate after a send
\* (NvPSSPsdAdvanceReleaseGateAfterSend).
EndPass(s) ==
    [s EXCEPT !.pc = "idle", !.cur = NoTicket, !.attempt = 0, !.arrived = FALSE,
              !.depth = 0, !.outstanding = FALSE,
              !.yield = (s.due = "CRITICAL" /\ s.retained["CRITICAL"].seqs # <<>>),
              !.gate = IF s.due = "CRITICAL" THEN @
                       ELSE IF lane'["OPERATIONAL"] = <<>> THEN "off" ELSE "armed"]

\* markDeliveryRecovered.
RecoveredState(stamp) ==
    IF stamp # "ERROR" /\ delivery = "ERROR_ACTIVE" THEN delivery ELSE "NORMAL"

\* Mutation: the acknowledgement counts for the generation raised by now, not
\* for the one the request was stamped with.
AcknowledgedForCurrentGeneration ==
    /\ sender.pc = "wait" /\ sender.arrived
    /\ delivery' = RecoveredState(sender.cur.stamp)
    /\ overflow' = [overflow EXCEPT !.delivered = overflow.gen]
    /\ lane' = Committed(sender.due, sender.cur)
    /\ sender' = [sender EXCEPT !.pc = "readmit", !.backoff = FALSE,
                                !.retained[sender.due] = NoTicket]
    /\ UNCHANGED <<refused, readmitMax, enqSeq, nextId, psdLast, produced, told>>

\* PSD's answer arrives in time: markDeliveryRecovered, then
\* onPsdRequestAcknowledged up to the removal of the batch.
AttemptAcknowledged ==
    /\ sender.pc = "wait" /\ sender.arrived
    /\ LET t == sender.cur IN
       /\ delivery' = RecoveredState(t.stamp)
       /\ overflow' = [overflow EXCEPT !.delivered = IF t.gen > @ THEN t.gen ELSE @]
       /\ lane' = Committed(sender.due, t)
       /\ sender' = [sender EXCEPT !.pc = "readmit", !.backoff = FALSE,
                                   !.retained[sender.due] = NoTicket]
    /\ UNCHANGED <<refused, readmitMax, enqSeq, nextId, psdLast, produced, told>>

\* No answer in time and the budget is not spent: try again.
AttemptFails ==
    /\ sender.pc = "wait" /\ sender.attempt < RetryBudget
    /\ delivery' = "RETRYING"
    /\ sender' = [sender EXCEPT !.pc = "send", !.attempt = @ + 1]
    /\ UNCHANGED <<lane, refused, readmitMax, overflow, enqSeq, nextId, psdLast,
                   produced, told>>

\* markDeliveryFailure; the SDMs already hold if the last request they were
\* forwarded was stamped ERROR.
MarkFailure ==
    /\ delivery' = "ERROR_ACTIVE"
    /\ told' = [told EXCEPT !.failure = (told.mode = "ERROR")]

\* The budget is spent and the batch stays queued for another pass.
BatchRetained ==
    /\ sender.pc = "wait" /\ sender.attempt = RetryBudget
    /\ sender.cur.attempts < MaxAttempts
    /\ MarkFailure
    /\ UNCHANGED <<lane, refused, readmitMax, overflow, enqSeq, nextId, psdLast, produced>>
    /\ sender' = EndPass([sender EXCEPT !.backoff = TRUE,
                                        !.retained[sender.due] = sender.cur])

\* The budget is spent and so are the batch's passes: dropUndeliverableBatch.
BatchAbandoned ==
    /\ sender.pc = "wait" /\ sender.attempt = RetryBudget
    /\ sender.cur.attempts >= MaxAttempts
    /\ MarkFailure
    /\ lane' = Committed(sender.due, sender.cur)
    /\ sender' = [sender EXCEPT !.pc = "readmit", !.backoff = TRUE,
                                !.retained[sender.due] = NoTicket]
    /\ UNCHANGED <<refused, readmitMax, overflow, enqSeq, nextId, psdLast, produced>>

\* maybeClearCriticalLaneOverflow, the part under the lane mutex: re-admit
\* refused reports while there is room and note what is outstanding.
ReadmitRefused ==
    /\ sender.pc = "readmit" /\ overflow.active
    /\ LET room == CriticalDepth - Len(lane["CRITICAL"])
           k == IF Len(refused) < room THEN Len(refused) ELSE room
           back == [i \in 1..k |-> [seq |-> enqSeq + i - 1, ev |-> refused[i],
                                    evictable |-> FALSE]]
           q == lane["CRITICAL"] \o back
           top == IF k > 0 THEN enqSeq + k - 1 ELSE readmitMax
       IN  /\ lane' = [lane EXCEPT !["CRITICAL"] = q]
           /\ refused' = SubSeq(refused, k + 1, Len(refused))
           /\ enqSeq' = enqSeq + k
           /\ readmitMax' = top
           /\ sender' = [sender EXCEPT !.pc = "clear", !.depth = Len(q),
                           !.outstanding = \/ Len(refused) > k
                                           \/ top # 0 /\ \E i \in DOMAIN q : q[i].seq <= top]
    /\ UNCHANGED <<overflow, delivery, nextId, psdLast, produced, told>>

NothingToReadmit ==
    /\ sender.pc = "readmit" /\ ~overflow.active
    /\ UNCHANGED senderUnchanged
    /\ sender' = EndPass(sender)

\* NvPSSPsdCriticalOverflowLatch::clearIfDrained.
Drained(depth, outstanding) ==
    /\ 2 * depth <= CriticalDepth
    /\ overflow.delivered >= overflow.gen
    /\ ~outstanding

ClearOverflow ==
    /\ sender.pc = "clear"
    /\ overflow' = [overflow EXCEPT !.active =
                      @ /\ ~Drained(sender.depth, sender.outstanding)]
    /\ UNCHANGED <<lane, refused, readmitMax, enqSeq, delivery, nextId, psdLast,
                   produced, told>>
    /\ sender' = EndPass(sender)

SendOutcome ==
    \/ AttemptAcknowledged \/ AttemptFails \/ BatchRetained \/ BatchAbandoned

SenderStep ==
    \/ SelectPass \/ BuildRequest \/ SendAttempt \/ SendOutcome
    \/ ReadmitRefused \/ NothingToReadmit \/ ClearOverflow

SenderNext ==
    \/ \E kind \in Kinds : Produce(kind)
    \/ StatusNoop \/ GateExpires \/ BackoffExpires
    \/ SenderStep

SenderSpec == SenderInit /\ [][SenderNext]_senderVars

\* The sender keeps running and its clocks keep going; nothing is assumed of
\* the producers, and PSD need not ever answer.
FairSpec ==
    /\ SenderSpec
    /\ WF_senderVars(SenderStep) /\ WF_senderVars(GateExpires) /\ WF_senderVars(BackoffExpires)

-----------------------------------------------------------------------------
(* Properties *)

Events ==
          [n : 0..MaxReports, type : {"SW_FAIL", "VERDICT", "EVENT", "NOOP"},
           slot : VerdictSlots \cup {NoSlot}, ts : {0, 1}]

TicketOK(t) ==
    /\ Len(t.seqs) = Len(t.evs) /\ Len(t.evs) <= BatchMax
    /\ \A i \in DOMAIN t.seqs : t.seqs[i] < enqSeq /\ t.evs[i] \in Events
    /\ t.id \in 0..RequestIdMax /\ t.attempts \in 0..MaxAttempts
    /\ t.stamp \in {"NORMAL", "ERROR"} /\ t.gen <= overflow.gen

\* The state is well formed: lanes and the refused list within their depths
\* (enqueuePsdFusedEvent), tickets within a DecisionRequest, the delivered
\* overflow generation never ahead of the raised one.
SenderTypeOK ==
    /\ Len(lane["CRITICAL"]) <= CriticalDepth
    /\ Len(lane["OPERATIONAL"]) <= OperationalDepth
    /\ \A l \in Lanes : \A i \in DOMAIN lane[l] :
          lane[l][i].seq < enqSeq /\ lane[l][i].ev \in Events
    /\ Len(refused) <= RefusedPendingMax /\ ToSet(refused) \subseteq Events
    /\ overflow.active \in BOOLEAN /\ overflow.delivered <= overflow.gen
    /\ delivery \in {"NORMAL", "RETRYING", "ERROR_ACTIVE"}
    /\ nextId \in 1..RequestIdMax /\ psdLast \in 0..RequestIdMax
    /\ sender.pc \in {"idle", "build", "send", "wait", "readmit", "clear"}
    /\ sender.attempt \in 0..RetryBudget
    /\ TicketOK(sender.cur) /\ \A l \in Lanes : TicketOK(sender.retained[l])

\* A refusal the SDMs have not been told about by a forwarded request keeps the
\* overflow raised: the acknowledgement of a retry that PSD answered as a
\* duplicate never clears it (PsdBatchTicket::stamp, noteStampDelivered).
RefusalHeldUntilTold == told.gen < overflow.gen => overflow.active

\* A failed delivery the SDMs do not hold for keeps PSS out of NORMAL
\* (markDeliveryFailure, markDeliveryRecovered): they are told before it ends.
FailureHeldUntilTold == ~told.failure => delivery # "NORMAL"

\* Every transmission of one request id is the same request: same entries, same
\* stamp, over retries, rebuilds, evictions and interleaved lanes (PsdBatchTicket).
RetryIsSameRequest ==
    [][\A l, m \in Lanes :
          LET old == told.sent[l]
              new == told'.sent[m]
          IN  new.id = old.id => /\ new.evs = old.evs /\ new.stamp = old.stamp
                                 /\ (new.id # 0 => l = m)]_senderVars

\* The SDMs never hear an older verdict for a slot after a newer one, through
\* refusal, re-admission, eviction, retry and replay (NvPSSPsdDropSupersededRefused).
VerdictsNeverRollBack ==
    [][\A s \in VerdictSlots : told.verdict'[s] >= told.verdict[s]]_senderVars

\* What leaves a lane was forwarded in a request, abandoned with the batch that
\* was in flight, or evicted; the sender never removes an entry it did not send
\* (commitQueuedEvents removes by sequence number).
OnlySentEntriesCommitted ==
    [][ sender.pc = "wait" /\ lane' # lane /\ produced' = produced =>
          \A l \in Lanes : \A i \in DOMAIN lane[l] :
             lane[l][i] \notin ToSet(lane'[l]) =>
                l = sender.due /\ lane[l][i].seq \in ToSet(sender.cur.seqs) ]_senderVars

\* Every entry of either lane eventually leaves it, delivered or abandoned, even
\* if PSD never answers: the attempt bound and the yielded slot keep a failing
\* critical batch from holding the lanes (NvPSSPsdSelectDuePriority).
LanesDrain == \A l \in Lanes : []<>(lane[l] = <<>>)
=============================================================================
