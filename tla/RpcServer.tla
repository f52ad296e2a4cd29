------------------------------ MODULE RpcServer ------------------------------
(***************************************************************************)
(* The daemon's RPC server (NvPSSDRPC): the server thread that admits,     *)
(* registers, serves and drops the clients of PSS, and the heartbeat       *)
(* thread that counts their missed heartbeats.  The two share the slots    *)
(* under heartbeatMutex and a list of pending disconnects under a lock of  *)
(* its own; each lock section of the tick is a step here.                  *)
(*                                                                         *)
(* An identity is a client type with its instance.  A peer is one          *)
(* connection of one client process: <<client, number>>.  Bit masks are    *)
(* sets of identities.                                                     *)
(***************************************************************************)
EXTENDS Integers, Sequences, FiniteSets

CONSTANTS
    Clients, IdentityOf,       \* the client processes and what each registers as
    MaxConns,                  \* bound: connections of a client
    NumSlots,                  \* maxClients
    Tracked, Singletons,       \* identities with a presence bit; those admitted once
    Required,                  \* requiredSourceMask_
    RequiredPipelines,         \* pipelines of the reviewed set (the callback of the manager)
    WarnThreshold, MaxHbFailures, RejectThreshold,
    MaxTicksPerLoop,           \* bound: heartbeat ticks while the server thread is in one loop
    Reports                    \* the reports a client may send: see Status

Slots == 0..(NumSlots - 1)
Peers == Clients \X (1..MaxConns)
Identities == {IdentityOf[c] : c \in Clients}

ASSUME RpcAssumption ==
    /\ NumSlots \in Nat \ {0} /\ MaxHbFailures \in Nat /\ WarnThreshold \in Nat
    /\ RejectThreshold \in Nat \ {0} /\ Tracked \subseteq Singletons /\ Required \subseteq Tracked
    /\ MaxConns \in Nat /\ "SM" \in Singletons /\ "none" \notin Identities \cup Singletons
    \* a turn of the server's loop is short of the heartbeats a client may miss
    /\ MaxTicksPerLoop \in Nat /\ MaxTicksPerLoop <= MaxHbFailures

VARIABLES
    slot,       \* the maps of the server, by slot: see NoClient
    gen,        \* slotGeneration_
    smCache,    \* smMonitorClientId_, its misses and fault, as published
    presence, expected, everRegistered, everPresent,   \* the masks
    unusable, confirmed,                               \* the input state
    due, raisedNever, pendingNever,                    \* the required sources never seen
    pending,    \* pendingDisconnectClients: pairs of a slot and its generation
    tpc,        \* the heartbeat thread: idle, or between two lock sections of its tick
    doomed,     \* toDisconnect of the tick in progress
    ticks,      \* ticks so far, up to the startup budget
    spc,        \* the server thread: pending, or serving events and messages
    lag,        \* ticks since the loop began
    arriving,   \* peers connected and not yet reported by the transport
    open,       \* peers whose client end is open
    cut,        \* open peers the server dropped
    requests, responses,   \* the two directions of a peer
    told        \* history: tracked identities whose loss was queued since they were last present

masks == <<presence, expected, everRegistered, everPresent>>
inputs == <<unusable, confirmed>>
never == <<due, raisedNever, pendingNever>>
tick == <<tpc, doomed, ticks>>
loop == <<spc, lag>>
wire == <<arriving, open, cut, requests, responses>>
rpcVars == <<slot, gen, smCache, masks, inputs, never, pending, tick, loop, wire, told>>

None == "none"
NoPeer == <<>>
NoClient == [peer |-> NoPeer, id |-> None, quiet |-> 0, miss |-> 0, latched |-> FALSE, beaten |-> FALSE,
             streak |-> 0, raised |-> FALSE, noted |-> FALSE, pipeline |-> 0]
NoMonitor == [slot |-> -1, miss |-> 0, fault |-> FALSE]

Used == {s \in Slots : slot[s].peer # NoPeer}
SlotOf(p) == CHOOSE s \in Slots : slot[s].peer = p
HasSlot(p) == \E s \in Slots : slot[s].peer = p

\* A server that has run for t ticks without a client, and has reported the sources in absent.
RpcStart(absent, t) ==
    /\ slot = [s \in Slots |-> NoClient] /\ gen = [s \in Slots |-> 0] /\ smCache = NoMonitor
    /\ presence = {} /\ expected = absent /\ everRegistered = {} /\ everPresent = {}
    /\ unusable = {} /\ confirmed = {} /\ due = (absent # {}) /\ raisedNever = absent /\ pendingNever = {}
    /\ pending = {} /\ tpc = "idle" /\ doomed = {} /\ ticks = t
    /\ spc = "pending" /\ lag = 0
    /\ arriving = {} /\ open = {} /\ cut = {}
    /\ requests = [p \in Peers |-> <<>>] /\ responses = [p \in Peers |-> <<>>]
    /\ told = absent

RpcInit == RpcStart({}, 0)

-----------------------------------------------------------------------------
(* What the server publishes. *)

\* recomputePresenceMaskLocked: registered, heartbeated since, not faulted.
PresenceOf(sl) == {sl[s].id : s \in {t \in Slots : sl[t].id \in Tracked /\ sl[t].beaten /\ ~sl[t].latched}}

\* recomputeExpectedMaskLocked
ExpectedOf(ever, isDue) == ever \cup (IF isDue THEN Required ELSE {})

\* inputIdentityLocked: the anonymous MDX clients share one identity.
InputIdentity(id) == IF id \in Tracked \cup {"MDX0"} THEN {id} ELSE {}

\* recomputeInputStateLocked: the identities of the slots with an open fault.
UnusableOf(sl) == UNION {InputIdentity(sl[s].id) : s \in {t \in Slots : sl[t].raised}}

\* getSafetyMonitorOperationalMode
OperationalMode ==
    IF MaxHbFailures = 0 THEN "NORMAL"
    ELSE IF smCache.fault \/ smCache.miss >= MaxHbFailures THEN "ERROR"
    ELSE IF smCache.miss > WarnThreshold THEN "DEGRADED"
    ELSE "NORMAL"

\* Slots are cleared (clearClientStateLocked), which recomputes both masks.
Clear(sl) ==
    /\ slot' = sl
    /\ presence' = PresenceOf(sl)
    /\ unusable' = UnusableOf(sl)

\* clearClientStateLocked forgets the Safety Monitor's misses with its slot.
ClearCache(s) == IF slot[s].id = "SM" /\ smCache.slot = s THEN NoMonitor ELSE smCache

\* injectMonitorLostSwFail: nothing for an identity that is not tracked.
Loss(id) == {id} \cap Tracked

\* Mutant: a client that leaves by itself is not announced.
DropClientQuietly(s) ==
    /\ Clear([slot EXCEPT ![s] = NoClient])
    /\ smCache' = ClearCache(s)
    /\ cut' = cut \cup ({slot[s].peer} \cap open)
    /\ told' = told

\* dropClient: disconnectClient, then the loss of what was registered.
DropClient(s) ==
    /\ Clear([slot EXCEPT ![s] = NoClient])
    /\ smCache' = ClearCache(s)
    /\ cut' = cut \cup ({slot[s].peer} \cap open)
    /\ told' = told \cup Loss(slot[s].id)

-----------------------------------------------------------------------------
(* The heartbeat thread: heartbeatMonitorTick. *)

\* A slot is stale HB_TIMEOUT_MS after its last heartbeat.  The timeout is between one and two
\* periods of the thread: one whole period without a heartbeat may be enough, two are.
MayBeStale(s) == slot[s].peer # NoPeer /\ ~slot[s].latched /\ slot[s].quiet >= 1
MustBeStale(s) == MayBeStale(s) /\ slot[s].quiet >= 2

\* One stale slot counts a miss; an unregistered one is latched at once.
Missed(c) ==
    IF c.id = None THEN [c EXCEPT !.latched = TRUE]
    ELSE [c EXCEPT !.miss = @ + 1, !.latched = c.miss + 1 >= MaxHbFailures]

Quieter(c) == IF c.peer = NoPeer \/ c.quiet = 2 THEN c ELSE [c EXCEPT !.quiet = @ + 1]

\* Mutant: the presence mask is not recomputed when a client is latched.
TickScanStale ==
    /\ tpc = "idle" /\ MaxHbFailures > 0 /\ lag < MaxTicksPerLoop
    /\ \E stale \in SUBSET {s \in Slots : MayBeStale(s)} :
         /\ {s \in Slots : MustBeStale(s)} \subseteq stale
         /\ LET after == [s \in Slots |-> Quieter(IF s \in stale THEN Missed(slot[s]) ELSE slot[s])]
                monitors == {s \in stale : slot[s].id = "SM"}
            IN  /\ slot' = after /\ UNCHANGED <<presence, unusable>>
                /\ doomed' = {s \in stale : after[s].latched}
                /\ smCache' = IF monitors = {} THEN smCache
                              ELSE LET s == CHOOSE x \in monitors : TRUE
                                   IN  [slot |-> s, miss |-> after[s].miss, fault |-> after[s].latched]
    /\ tpc' = "required" /\ lag' = lag + 1
    /\ ticks' = IF ticks > MaxHbFailures THEN ticks ELSE ticks + 1
    /\ UNCHANGED <<gen, expected, everRegistered, everPresent, confirmed, never, pending, spc,
                   wire, told>>

TickScan ==
    /\ tpc = "idle" /\ MaxHbFailures > 0 /\ lag < MaxTicksPerLoop
    /\ \E stale \in SUBSET {s \in Slots : MayBeStale(s)} :
         /\ {s \in Slots : MustBeStale(s)} \subseteq stale
         /\ LET after == [s \in Slots |-> Quieter(IF s \in stale THEN Missed(slot[s]) ELSE slot[s])]
                monitors == {s \in stale : slot[s].id = "SM"}
            IN  /\ slot' = after /\ UNCHANGED unusable
                /\ presence' = IF \E s \in stale : after[s].latched /\ slot[s].id \in Tracked
                               THEN PresenceOf(after) ELSE presence
                /\ doomed' = {s \in stale : after[s].latched}
                /\ smCache' = IF monitors = {} THEN smCache
                              ELSE LET s == CHOOSE x \in monitors : TRUE
                                   IN  [slot |-> s, miss |-> after[s].miss, fault |-> after[s].latched]
    /\ tpc' = "required" /\ lag' = lag + 1
    /\ ticks' = IF ticks > MaxHbFailures THEN ticks ELSE ticks + 1
    /\ UNCHANGED <<gen, expected, everRegistered, everPresent, confirmed, never, pending, spc,
                   wire, told>>

\* The required sources are due when the heartbeat budget has run out since the start.  The
\* budget ends between the ticks MaxHbFailures and MaxHbFailures + 1.
TickRequired ==
    /\ tpc = "required"
    /\ tpc' = "enqueue"
    /\ \E over \in BOOLEAN :
         /\ over => Required # {} /\ ticks >= MaxHbFailures
         /\ (Required # {} /\ (due \/ ticks > MaxHbFailures)) => over
         /\ due' = (due \/ over)
         /\ expected' = IF over THEN ExpectedOf(everPresent, TRUE) ELSE expected
         /\ LET missing == IF over THEN (Required \ everRegistered) \ raisedNever ELSE {}
            IN  /\ raisedNever' = raisedNever \cup missing
                /\ pendingNever' = pendingNever \cup missing
    /\ UNCHANGED <<slot, gen, smCache, presence, everRegistered, everPresent, inputs, pending, doomed,
                   ticks, loop, wire, told>>

\* The generation is read here, in the third lock section.  A slot already listed is not listed twice.
TickEnqueue ==
    /\ tpc = "enqueue"
    /\ pending' = pending \cup {<<s, gen[s]>> : s \in {t \in doomed : \A e \in pending : e[1] # t}}
    /\ tpc' = "idle" /\ doomed' = {}
    /\ UNCHANGED <<slot, gen, smCache, masks, inputs, never, ticks, loop, wire, told>>

-----------------------------------------------------------------------------
(* The server thread: NvPSSDRunRPCServer.  A turn of its loop takes the pending disconnects,   *)
(* then the events of the transport, then the messages; their order within a turn is left open. *)

\* processPendingDisconnects
ProcessPendingDisconnects ==
    /\ spc = "pending"
    /\ LET gone == {s \in Used : <<s, gen[s]>> \in pending}
       IN  /\ IF gone = {} THEN UNCHANGED <<slot, presence, unusable>>
              ELSE Clear([s \in Slots |-> IF s \in gone THEN NoClient ELSE slot[s]])
           /\ smCache' = IF smCache.slot \in gone /\ slot[smCache.slot].id = "SM" THEN NoMonitor ELSE smCache
           /\ cut' = cut \cup ({slot[s].peer : s \in gone} \cap open)
           /\ told' = told \cup pendingNever \cup UNION {Loss(slot[s].id) : s \in gone}
    /\ pending' = {} /\ pendingNever' = {}
    /\ spc' = "serving" /\ lag' = 0
    /\ UNCHANGED <<gen, expected, everRegistered, everPresent, confirmed, due, raisedNever, tick,
                   arriving, open, requests, responses>>

\* NVPSF_EVENT_PEER_CONNECTED: the first free slot, or none.
Admit(p) ==
    /\ spc = "serving" /\ p \in arriving
    /\ arriving' = arriving \ {p}
    /\ \/ /\ Used = Slots
          /\ cut' = cut \cup ({p} \cap open)
          /\ UNCHANGED <<slot, gen, smCache, presence, unusable>>
       \/ /\ \E s \in Slots \ Used :
                /\ \A u \in Slots \ Used : s <= u
                /\ Clear([slot EXCEPT ![s] = [NoClient EXCEPT !.peer = p]])
                /\ gen' = [gen EXCEPT ![s] = @ + 1]
                /\ smCache' = ClearCache(s)
          /\ UNCHANGED cut
    /\ UNCHANGED <<expected, everRegistered, everPresent, confirmed, never, pending, tick, loop, open,
                   requests, responses, told>>

\* NVPSF_EVENT_PEER_GONE, and NVPSF_TRANSPORT_PEER_GONE of a receive.
PeerGone(p) ==
    /\ spc = "serving" /\ HasSlot(p) /\ p \notin open
    /\ DropClient(SlotOf(p))
    /\ requests' = [requests EXCEPT ![p] = <<>>]
    /\ UNCHANGED <<gen, expected, everRegistered, everPresent, confirmed, never, pending, tick, loop,
                   arriving, open, responses>>

\* The next turn of the loop.
LoopAgain ==
    /\ spc = "serving" /\ spc' = "pending"
    /\ UNCHANGED <<slot, gen, smCache, masks, inputs, never, pending, tick, lag, wire, told>>

Take(p, kind) ==
    /\ spc = "serving" /\ HasSlot(p)
    /\ requests[p] # <<>> /\ Head(requests[p]).kind = kind
    /\ requests' = [requests EXCEPT ![p] = Tail(@)]

Answer(p, r) == responses' = [responses EXCEPT ![p] = IF p \in open THEN Append(@, r) ELSE @]

-----------------------------------------------------------------------------
(* REGISTER_CLIENT. *)

Rivals(s, id) == {t \in Used \ {s} : id \in Singletons /\ slot[t].id = id}

\* validateAndAcceptRegistration refuses a second live client of a singleton identity.
AcceptRegistration(s, id) == \A t \in Rivals(s, id) : slot[t].latched

\* A latched rival is cleared, masks included, before the newcomer is enrolled; enrolling
\* recomputes the presence mask alone.
Register(p) ==
    /\ Take(p, "register")
    /\ LET s == SlotOf(p)
           id == IdentityOf[p[1]]
           ok == AcceptRegistration(s, id)
           evicted == IF ok THEN {t \in Rivals(s, id) : slot[t].latched} ELSE {}
           cleared == [t \in Slots |-> IF t \in evicted THEN NoClient ELSE slot[t]]
           enrolled == [slot[s] EXCEPT !.id = id, !.quiet = 0, !.miss = 0, !.latched = FALSE, !.beaten = FALSE]
       IN  IF ok
           THEN /\ slot' = [cleared EXCEPT ![s] = enrolled]
                /\ presence' = PresenceOf(slot')
                /\ unusable' = IF evicted = {} THEN unusable ELSE UnusableOf(cleared)
                /\ smCache' = IF id = "SM" THEN [slot |-> s, miss |-> 0, fault |-> FALSE] ELSE smCache
                /\ cut' = cut \cup ({slot[t].peer : t \in evicted} \cap open)
                /\ told' = told \cup UNION {Loss(id) : t \in evicted}
                /\ everRegistered' = everRegistered \cup Loss(id)
           ELSE /\ DropClient(s) /\ UNCHANGED everRegistered
    /\ Answer(p, [n |-> Head(requests[p]).n,
                  ok |-> AcceptRegistration(SlotOf(p), IdentityOf[p[1]])])
    /\ UNCHANGED <<gen, expected, everPresent, confirmed, never, pending, tick, spc, lag, arriving, open>>

-----------------------------------------------------------------------------
(* SEND_HEARTBEAT and TERMINATE_CLIENT.  The library registers before it  *)
(* sends anything else, so the slot has an identity.                       *)

\* updateClientHeartbeat: ignored once the fault is latched.
Beaten(c) == IF c.latched THEN c ELSE [c EXCEPT !.quiet = 0, !.miss = 0, !.beaten = TRUE]

Heartbeat(p) ==
    /\ Take(p, "heartbeat")
    /\ LET s == SlotOf(p)
           sl == [slot EXCEPT ![s] = Beaten(@)]
       IN  /\ slot' = sl /\ UNCHANGED unusable
           /\ presence' = IF ~slot[s].latched /\ slot[s].id \in Tracked THEN PresenceOf(sl) ELSE presence
           /\ smCache' = IF slot[s].id = "SM" /\ ~slot[s].latched
                         THEN [slot |-> s, miss |-> 0, fault |-> smCache.fault] ELSE smCache
           /\ everPresent' = everPresent \cup (IF slot[s].latched THEN {} ELSE Loss(slot[s].id))
           /\ expected' = IF everPresent' = everPresent THEN expected ELSE ExpectedOf(everPresent', due)
           /\ told' = told \ presence'
    /\ Answer(p, [n |-> Head(requests[p]).n, ok |-> TRUE])
    /\ UNCHANGED <<gen, everRegistered, confirmed, never, pending, tick, spc, lag, arriving, open, cut>>

Terminate(p) ==
    /\ Take(p, "terminate")
    /\ Answer(p, [n |-> Head(requests[p]).n, ok |-> TRUE])
    /\ DropClient(SlotOf(p))
    /\ UNCHANGED <<gen, expected, everRegistered, everPresent, confirmed, never, pending, tick, spc, lag,
                   arriving, open>>

-----------------------------------------------------------------------------
(* REPORT_SAFETY_EVENT.  A report is                                       *)
(*   [type, valid, pipeline, own, confident, trusted]:                     *)
(* type is sensor or pipeline for a trust verdict, event or swfail; valid  *)
(* that it passes the size check and validateSafetyEvent; own that its     *)
(* clientID is the connection's; trusted what the manager's callback says. *)

\* The tier of missed heartbeats in which reports are refused.
Muted(c) == MaxHbFailures > 0 /\ (c.latched \/ c.miss > WarnThreshold)

\* hasRecentHeartbeat within HB_TIMEOUT_MS: certain before the first tick since.
Recent(c) == IF c.quiet = 0 THEN {TRUE} ELSE BOOLEAN

\* Which client may give which verdict.
Reporter(type) == IF type = "sensor" THEN "SM" ELSE "PM"

Status(c, r, recent) ==
    CASE c.id = None \/ Muted(c) -> "UNAUTHORIZED"
      [] ~r.valid -> "VALIDATION_FAILED"
      [] r.type \in {"sensor", "event"} /\ r.pipeline = 0 -> "UNRESOLVED_SENSOR"
      [] r.type \in {"sensor", "pipeline"} ->
             IF c.id = Reporter(r.type) /\ recent /\ r.trusted THEN "ACCEPTED" ELSE "UNAUTHORIZED"
      [] ~r.own -> "CLIENTID_MISMATCH"
      [] OTHER -> IF r.confident THEN "ACCEPTED" ELSE "LOW_CONFIDENCE"

\* noteReportAccepted ends the streak and confirms the identity.
NoteReportAccepted(c, r) ==
    [c EXCEPT !.streak = 0, !.raised = FALSE, !.noted = FALSE,
              !.pipeline = IF r.type \in {"event", "swfail"} /\ r.pipeline # 0 THEN r.pipeline ELSE @]

\* A source is required by its identity, or by the pipeline of its last accepted report.
IsRequired(c) == c.id \in Required \/ c.pipeline \in RequiredPipelines

\* noteReportRejected: the fault is raised once an episode.
NoteReportRejected(c) ==
    LET over == c.streak + 1 >= RejectThreshold
    IN  [c EXCEPT !.streak = IF over THEN RejectThreshold ELSE c.streak + 1,
                  !.raised = c.raised \/ (over /\ IsRequired(c)),
                  !.noted = c.noted \/ (over /\ ~c.raised /\ c.pipeline # 0 /\ ~IsRequired(c))]

\* inputConfirmedMask_: an accepted report confirms an identity, a new fault of it takes that back.
ConfirmedAfter(c, after, ok) ==
    IF ok THEN confirmed \cup InputIdentity(c.id)
    ELSE IF after.raised /\ ~c.raised THEN confirmed \ InputIdentity(c.id)
    ELSE confirmed

\* The report of a client that has not registered ends its connection.  Otherwise the input
\* state is recomputed on an accepted report and on a new fault.
Report(p) ==
    /\ Take(p, "report")
    /\ LET s == SlotOf(p)
           c == slot[s]
           r == Head(requests[p]).report
       IN  \E recent \in Recent(c) :
             LET ok == Status(c, r, recent) = "ACCEPTED"
                 after == IF c.id = None THEN NoClient
                          ELSE IF ok THEN NoteReportAccepted(c, r) ELSE NoteReportRejected(c)
             IN  /\ slot' = [slot EXCEPT ![s] = after]
                 /\ presence' = IF c.id = None THEN PresenceOf(slot') ELSE presence
                 /\ unusable' = IF c.id = None \/ ok \/ (after.raised /\ ~c.raised)
                                THEN UnusableOf(slot') ELSE unusable
                 /\ confirmed' = ConfirmedAfter(c, after, ok)
                 /\ cut' = IF c.id = None THEN cut \cup ({p} \cap open) ELSE cut
                 /\ Answer(p, [n |-> Head(requests[p]).n, ok |-> ok])
    /\ UNCHANGED <<gen, smCache, expected, everRegistered, everPresent, never, pending, tick, spc, lag,
                   arriving, open, told>>

ServerNext ==
    \/ ProcessPendingDisconnects \/ LoopAgain
    \/ \E p \in Peers :
         Admit(p) \/ PeerGone(p) \/ Register(p) \/ Heartbeat(p) \/ Terminate(p) \/ Report(p)
TickNext == TickScan \/ TickRequired \/ TickEnqueue
=============================================================================
