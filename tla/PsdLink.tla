------------------------------- MODULE PsdLink -------------------------------
(***************************************************************************)
(* The link on which PSS asks the PSD gateway for decisions: the daemon's   *)
(* server (NvPSSDToPSD.cpp) and the gateway's client library (NvPSD.cpp).   *)
(*                                                                         *)
(* The daemon has a server thread (spc), the only reader, and one sender    *)
(* (snd; SafetyEventManager holds psdSendMtx_ across a send and its wait).  *)
(* They share the routing maps (clientMapMtx) and a mailbox per client      *)
(* (mailboxMtx); a step is one critical section or one transport call.      *)
(* Connections are numbered; a number is used again when nobody holds it.   *)
(* The transport keeps order, and delivers what a side sent before it       *)
(* reports that the side has gone.                                          *)
(***************************************************************************)
EXTENDS Integers, Sequences, FiniteSets

CONSTANTS
    Conns,        \* numbers of connections
    NumIds,       \* MAX_PSD_CLIENTS
    Types,        \* event types
    PerMessage,   \* event types in one PSDRegistrationMsg
    Budgets       \* bounds: how often each fault, request and stop may happen

ASSUME PsdLinkAssumption ==
    /\ NumIds \in Nat \ {0} /\ PerMessage \in Nat \ {0}
    /\ Types \subseteq Nat /\ Conns \subseteq Nat \ {0}
    /\ \A b \in Budgets : b \in [crashes : Nat, deaths : Nat, lapses : Nat, sends : Nat, stops : Nat]

Ids == 0..(NumIds - 1)
NoConn == 0
NoId == -1

VARIABLES
    up,        \* the daemon runs
    peers,     \* connections the daemon's transport has
    arrivals,  \* those it has not announced yet
    peerOf,    \* clientIdToPeer
    routes,    \* eventTypeToClient
    mailbox,   \* a ResponseMailbox per client id
    ready,     \* the events of the last poll it has not handled
    spc,       \* the server thread
    snd,       \* the sender: where it is, its request, client and peer
    accepted,  \* history: the request last answered, and the one its answer was made for
    gpc,       \* the gateway's thread
    conn,      \* its connection (transport, serverPeer)
    known,     \* registeredEventTypes
    replay,    \* what a registration under way has to register
    batch,     \* how many of its messages are acknowledged
    inHand,    \* the request the callback works on
    toPsd, toPss,   \* per connection: messages sent and not read
    left       \* what is left of the bounds

daemonVars == <<up, peers, arrivals, ready, peerOf, routes, mailbox, spc, snd, accepted>>
gatewayVars == <<gpc, conn, known, replay, batch, inHand>>
psdVars == <<daemonVars, gatewayVars, toPsd, toPss, left>>

Spend(what) == left[what] > 0 /\ left' = [left EXCEPT ![what] = @ - 1]

\* ResponseMailbox; from is history: the request the stored answer was made for.
EmptyBox == [armed |-> FALSE, req |-> 0, have |-> FALSE, lost |-> FALSE, from |-> 0]
IdleSender == [pc |-> "idle", req |-> 0, id |-> NoId, peer |-> NoConn]
Polling == [at |-> "poll", id |-> NoId, peer |-> NoConn]

\* A send on connection c succeeds when the other side has not closed it.
Held(c) == c = conn
Linked(c) == c \in peers /\ Held(c)

PsdInit ==
    /\ up = TRUE /\ peers = {} /\ arrivals = {} /\ ready = {}
    /\ peerOf = [i \in Ids |-> NoConn] /\ routes = [t \in Types |-> NoId]
    /\ mailbox = [i \in Ids |-> EmptyBox]
    /\ spc = Polling /\ snd = IdleSender /\ accepted = <<0, 0>>
    /\ gpc = "start" /\ conn = NoConn /\ known = {} /\ replay = {} /\ batch = 0 /\ inHand = 0
    /\ toPsd = [c \in Conns |-> <<>>] /\ toPss = [c \in Conns |-> <<>>]
    /\ left \in Budgets

-----------------------------------------------------------------------------
(* The server thread: runPSSDServer.                                        *)

\* One event is handled at a time; the next poll follows the last.
Event(c) == up /\ spc.at = "poll" /\ c \in ready /\ ready' = ready \ {c}
Idle(next) == spc' = next /\ UNCHANGED <<up, snd, accepted, gatewayVars, left>>

\* NvPSFTransportPoll: every connection that is new, readable or ended.
Poll ==
    /\ up /\ spc.at = "poll" /\ ready = {}
    /\ ready' = {c \in peers : c \in arrivals \/ toPss[c] # <<>> \/ ~Held(c)}
    /\ UNCHANGED <<peers, arrivals, peerOf, routes, mailbox, toPsd, toPss>> /\ Idle(Polling)

\* clientIdForPeerLocked
IdOf(c) == {i \in Ids : peerOf[i] = c}

\* admitPeer: the first free id, if there is one.
FreeIds == {i \in Ids : peerOf[i] = NoConn}
FirstFree == {i \in FreeIds : \A j \in FreeIds : i <= j}

\* PEER_CONNECTED, admitted: the assignment is sent, or the client undone when that fails.
Admit(c) ==
    /\ Event(c) /\ c \in arrivals
    /\ arrivals' = arrivals \ {c}
    /\ \E i \in FirstFree :
         IF Held(c)
         THEN /\ peerOf' = [peerOf EXCEPT ![i] = c]
              /\ toPsd' = [toPsd EXCEPT ![c] = Append(@, <<"assigned", i>>)]
              /\ Idle(Polling)
         ELSE Idle([at |-> "drop", id |-> i, peer |-> c]) /\ UNCHANGED <<peerOf, toPsd>>
    /\ UNCHANGED <<peers, routes, mailbox, toPss>>

\* PEER_CONNECTED with no id free: refused and dropped.
Refuse(c) ==
    /\ Event(c) /\ c \in arrivals /\ FreeIds = {}
    /\ arrivals' = arrivals \ {c} /\ peers' = peers \ {c}
    /\ toPsd' = IF Held(c) THEN [toPsd EXCEPT ![c] = Append(@, <<"refused", NoId>>)] ELSE toPsd
    /\ UNCHANGED <<peerOf, routes, mailbox, toPss>> /\ Idle(Polling)

\* handlePSDClientDisconnection, first critical section: the client and its types leave the maps.
Disconnect(i) ==
    /\ peerOf' = [peerOf EXCEPT ![i] = NoConn]
    /\ routes' = [t \in Types |-> IF routes[t] = i THEN NoId ELSE routes[t]]
    /\ Idle([at |-> "drop", id |-> i, peer |-> peerOf[i]])

\* PEER_GONE
PeerGone(c) ==
    /\ Event(c) /\ c \in peers \ arrivals /\ ~Held(c) /\ toPss[c] = <<>>
    /\ \E i \in IdOf(c) : Disconnect(i)
    /\ UNCHANGED <<peers, arrivals, mailbox, toPsd, toPss>>

\* Mutant: any response fills an armed mailbox.
DeliverResponseAny(i, r) ==
    LET box == mailbox[i] IN
    mailbox' = IF box.armed /\ ~box.have
               THEN [mailbox EXCEPT ![i].have = TRUE, ![i].from = r] ELSE mailbox

\* deliverResponse
DeliverResponse(i, r) ==
    LET box == mailbox[i] IN
    mailbox' = IF box.armed /\ ~box.have /\ box.req = r
               THEN [mailbox EXCEPT ![i].have = TRUE, ![i].from = r] ELSE mailbox

\* MESSAGE_READY: one message of a client.
Recv(c) ==
    /\ Event(c) /\ c \in peers \ arrivals /\ toPss[c] # <<>>
    /\ toPss' = [toPss EXCEPT ![c] = Tail(@)]
    /\ LET m == Head(toPss[c]) IN
       \E i \in IdOf(c) :
         \/ m[1] = "response" /\ DeliverResponse(i, m[2])
              /\ UNCHANGED <<peerOf, routes>> /\ Idle(Polling)
         \/ m[1] = "register"    \* handlePSDEventTypeRegistration, under the lock
              /\ routes' = [t \in Types |-> IF t \in m[2] THEN i ELSE routes[t]]
              /\ UNCHANGED <<peerOf, mailbox>> /\ Idle([at |-> "ack", id |-> i, peer |-> c])
         \/ m[1] = "unregister" /\ Disconnect(i) /\ UNCHANGED mailbox
    /\ UNCHANGED <<peers, arrivals, toPsd>>

\* After the lock: the acknowledgment, best effort.
SendAck ==
    /\ up /\ spc.at = "ack"
    /\ toPsd' = IF Linked(spc.peer) THEN [toPsd EXCEPT ![spc.peer] = Append(@, <<"ack", spc.id>>)] ELSE toPsd
    /\ UNCHANGED <<ready, peers, arrivals, peerOf, routes, mailbox, toPss>> /\ Idle(Polling)

\* Disconnection, second step: NvPSFTransportDropPeer.
DropPeer ==
    /\ up /\ spc.at = "drop"
    /\ peers' = peers \ {spc.peer}
    /\ toPss' = [toPss EXCEPT ![spc.peer] = <<>>]
    /\ UNCHANGED <<ready, arrivals, peerOf, routes, mailbox, toPsd>> /\ Idle([spc EXCEPT !.at = "fail"])

\* Third: failWaiter.
FailWaiter ==
    /\ up /\ spc.at = "fail"
    /\ mailbox' = [mailbox EXCEPT ![spc.id].lost = @ \/ (mailbox[spc.id].armed /\ ~mailbox[spc.id].have)]
    /\ UNCHANGED <<ready, peers, arrivals, peerOf, routes, toPsd, toPss>> /\ Idle(Polling)

\* stopPSSDServer: the thread is joined, waiters are released, the transport closed.
StopServer ==
    /\ up /\ spc.at = "poll" /\ Spend("crashes")
    /\ up' = FALSE /\ peers' = {} /\ arrivals' = {} /\ ready' = {}
    /\ mailbox' = [i \in Ids |-> [mailbox[i] EXCEPT !.lost = @ \/ mailbox[i].armed]]
    /\ peerOf' = [i \in Ids |-> NoConn] /\ routes' = [t \in Types |-> NoId]
    /\ toPss' = [c \in Conns |-> <<>>]
    /\ UNCHANGED <<spc, snd, accepted, gatewayVars, toPsd>>

\* The daemon dies, its threads with it.
DaemonCrash ==
    /\ up /\ Spend("crashes")
    /\ up' = FALSE /\ peers' = {} /\ arrivals' = {} /\ ready' = {}
    /\ mailbox' = [i \in Ids |-> EmptyBox] /\ spc' = Polling /\ snd' = IdleSender
    /\ peerOf' = [i \in Ids |-> NoConn] /\ routes' = [t \in Types |-> NoId]
    /\ toPss' = [c \in Conns |-> <<>>]
    /\ UNCHANGED <<accepted, gatewayVars, toPsd>>

\* initializePSSDServer, startPSSDServer
DaemonStart ==
    /\ ~up /\ snd.pc = "idle" /\ up' = TRUE
    /\ UNCHANGED <<peers, arrivals, ready, peerOf, routes, mailbox, spc, snd, accepted, gatewayVars, toPsd, toPss, left>>

-----------------------------------------------------------------------------
(* The sender: sendDecisionRequestToPSD.                                    *)

SenderOnly == UNCHANGED <<up, peers, arrivals, ready, peerOf, routes, spc, gatewayVars, toPss>>

\* A new request, or the last one again when it got no answer.
Asked == {left.sends} \cup ({snd.req} \ {accepted[1]})

\* Lookup, in one critical section; an unrouted type is refused.
Lookup(r, t) ==
    /\ up /\ snd.pc = "idle" /\ Spend("sends")
    /\ snd' = IF routes[t] = NoId \/ peerOf[routes[t]] = NoConn THEN [IdleSender EXCEPT !.req = r]
              ELSE [pc |-> "arm", req |-> r, id |-> routes[t], peer |-> peerOf[routes[t]]]
    /\ UNCHANGED <<mailbox, accepted, toPsd>> /\ SenderOnly

\* Arm the mailbox; a second request in flight is refused.
Arm ==
    /\ snd.pc = "arm"
    /\ mailbox' = [mailbox EXCEPT ![snd.id] = [EmptyBox EXCEPT !.armed = TRUE, !.req = snd.req]]
    /\ snd' = [snd EXCEPT !.pc = "send"]
    /\ UNCHANGED <<accepted, toPsd, left>> /\ SenderOnly

\* Every exit disarms (MailboxGuard).
Leave == mailbox' = [mailbox EXCEPT ![snd.id].armed = FALSE] /\ snd' = [IdleSender EXCEPT !.req = snd.req]

Send ==
    /\ snd.pc = "send" /\ Linked(snd.peer)
    /\ toPsd' = [toPsd EXCEPT ![snd.peer] = Append(@, <<"request", snd.req>>)]
    /\ snd' = [snd EXCEPT !.pc = "wait"]
    /\ UNCHANGED <<mailbox, accepted, left>> /\ SenderOnly

\* The transport refuses: the peer has gone, or its buffer is full.
SendFails ==
    /\ snd.pc = "send" /\ Leave
    /\ \/ ~Linked(snd.peer) /\ UNCHANGED left
       \/ Linked(snd.peer) /\ Spend("lapses")
    /\ UNCHANGED <<accepted, toPsd>> /\ SenderOnly

\* The wait ends with the matching answer ...
Answered ==
    /\ snd.pc = "wait" /\ mailbox[snd.id].have /\ mailbox[snd.id].req = snd.req
    /\ accepted' = <<snd.req, mailbox[snd.id].from>> /\ Leave
    /\ UNCHANGED <<toPsd, left>> /\ SenderOnly

\* ... or with the loss of the peer ...
PeerLost ==
    /\ snd.pc = "wait" /\ mailbox[snd.id].lost /\ ~mailbox[snd.id].have /\ Leave
    /\ UNCHANGED <<accepted, toPsd, left>> /\ SenderOnly

\* ... or at its deadline.
Expire ==
    /\ snd.pc = "wait" /\ ~mailbox[snd.id].have /\ ~mailbox[snd.id].lost /\ Leave
    /\ UNCHANGED <<accepted, toPsd, left>> /\ SenderOnly

-----------------------------------------------------------------------------
(* The gateway: start-up in NvPSDGateway's main, then the library's         *)
(* listener thread (handleMsgsOnMsgQueClientEndpt).                         *)

GatewayOnly == UNCHANGED daemonVars

Unused == {c \in Conns \ peers : c # conn /\ c # snd.peer /\ c # spc.peer}

\* psdRecvWithDeadline: a message, the end of the connection, or the deadline.
Heads(kind) == toPsd[conn] # <<>> /\ Head(toPsd[conn])[1] = kind
Message(kind) == Heads(kind) /\ UNCHANGED left
Gone == toPsd[conn] = <<>> /\ conn \notin peers /\ UNCHANGED left
Deadline == toPsd[conn] = <<>> /\ conn \in peers /\ Spend("lapses")
Read == toPsd' = [toPsd EXCEPT ![conn] = Tail(@)]

\* NvPSFTransportClose: what was not read is lost.
CloseTransport == conn' = NoConn /\ toPsd' = [toPsd EXCEPT ![conn] = <<>>]

\* openPssToPsdTransport: connect ...
Open ==
    /\ gpc \in {"start", "reconnect"} /\ up
    /\ \E c \in Unused :
       /\ \A other \in Unused : c <= other
       /\ conn' = c /\ peers' = peers \cup {c} /\ arrivals' = arrivals \cup {c}
    /\ gpc' = IF gpc = "start" THEN "assign" ELSE "reassign"
    /\ UNCHANGED <<up, ready, peerOf, routes, mailbox, spc, snd, accepted, known, replay, batch, inHand, toPsd, toPss, left>>

\* ... and receive the client id.  main then registers every type, a reconnect what was known.
Assigned ==
    /\ gpc \in {"assign", "reassign"} /\ Message("assigned") /\ Read
    /\ batch' = 0
    /\ IF gpc = "assign"
       THEN gpc' = "register" /\ replay' = Types /\ known' = {}
       ELSE gpc' = "reregister" /\ replay' = known /\ known' = {}
    /\ UNCHANGED <<conn, inHand, toPss>> /\ GatewayOnly

\* Refused, dropped or too slow: main and reconnectPssToPsd try again.
NotAssigned ==
    /\ gpc \in {"assign", "reassign"}
    /\ Message("refused") \/ Gone \/ Deadline
    /\ gpc' = IF gpc = "assign" THEN "start" ELSE "reconnect"
    /\ CloseTransport
    /\ UNCHANGED <<known, replay, batch, inHand, toPss>> /\ GatewayOnly

\* The n-th message of the registration.
Batch(n) == {t \in replay : Cardinality({u \in replay : u < t}) \div PerMessage = n}

\* NvPSDRegisterEventTypes: remembered first, then sent.
RegisterEventTypes ==
    /\ gpc \in {"register", "reregister"} /\ Batch(batch) # {}
    /\ known' = known \cup Batch(batch)
    /\ toPss' = IF Linked(conn) THEN [toPss EXCEPT ![conn] = Append(@, <<"register", Batch(batch)>>)] ELSE toPss
    /\ gpc' = IF gpc = "register" THEN "ack" ELSE "reack"
    /\ UNCHANGED <<conn, replay, batch, inHand, toPsd, left>> /\ GatewayOnly

\* The acknowledgment.
Acknowledged ==
    /\ gpc \in {"ack", "reack"} /\ Message("ack") /\ Read
    /\ batch' = batch + 1
    /\ gpc' = IF gpc = "ack" THEN "register" ELSE "reregister"
    /\ UNCHANGED <<conn, known, replay, inHand, toPss>> /\ GatewayOnly

\* Anything else fails the registration, a request for a type just routed too.
NotAcknowledged == Message("request") \/ Gone \/ Deadline

\* reconnectPssToPsd: keep the full set, close, sleep, try again.
ReregisterFails ==
    /\ gpc = "reack" /\ NotAcknowledged
    /\ known' = replay
    /\ gpc' = "reconnect" /\ CloseTransport
    /\ UNCHANGED <<replay, batch, inHand, toPss>> /\ GatewayOnly

\* In main the same failure ends the process.
RegisterFails ==
    /\ gpc = "ack" /\ NotAcknowledged
    /\ gpc' = "exited" /\ CloseTransport
    /\ UNCHANGED <<known, replay, batch, inHand, toPss>> /\ GatewayOnly

\* All batches acknowledged: NvPSDStart, or the listener goes on.
Listen ==
    /\ gpc \in {"register", "reregister"} /\ Batch(batch) = {}
    /\ gpc' = "listen" /\ replay' = {} /\ batch' = 0
    /\ UNCHANGED <<conn, known, inHand, toPsd, toPss, left>> /\ GatewayOnly

\* A DecisionRequest goes to the callback.
TakeRequest ==
    /\ gpc = "listen" /\ Message("request") /\ Read
    /\ inHand' = Head(toPsd[conn])[2] /\ gpc' = "decide"
    /\ UNCHANGED <<conn, known, replay, batch, toPss>> /\ GatewayOnly

\* Its answer is sent, dropped by a full buffer, or finds the peer gone.
Respond ==
    /\ gpc = "decide" /\ inHand' = 0
    /\ \/ /\ Linked(conn) /\ toPss' = [toPss EXCEPT ![conn] = Append(@, <<"response", inHand>>)]
          /\ gpc' = "listen" /\ UNCHANGED <<conn, toPsd, left>>
       \/ /\ Linked(conn) /\ Spend("lapses")
          /\ gpc' = "listen" /\ UNCHANGED <<conn, toPsd, toPss>>
       \/ ~Linked(conn) /\ CloseTransport /\ gpc' = "reconnect" /\ UNCHANGED <<toPss, left>>
    /\ UNCHANGED <<known, replay, batch>> /\ GatewayOnly

\* Mutant: the end of the connection, seen inside the poll, is taken for silence.
LinkLostQuiet ==
    /\ gpc = "listen" /\ Gone
    /\ UNCHANGED <<gatewayVars, toPsd, toPss>> /\ GatewayOnly

\* The connection ends, or brings what is not a request: reconnect.
LinkLost ==
    /\ gpc = "listen" /\ Gone
    /\ CloseTransport /\ gpc' = "reconnect"
    /\ UNCHANGED <<known, replay, batch, inHand, toPss>> /\ GatewayOnly

\* NvPSDChannelClose on a signal: the listener is joined, UNREGISTER sent, the transport closed.
Exit ==
    /\ gpc \in {"listen", "reconnect"} /\ Spend("stops")
    /\ gpc' = "exited"
    /\ toPss' = IF conn # NoConn /\ Linked(conn)
                THEN [toPss EXCEPT ![conn] = Append(@, <<"unregister">>)] ELSE toPss
    /\ IF conn # NoConn THEN CloseTransport ELSE UNCHANGED <<conn, toPsd>>
    /\ UNCHANGED <<known, replay, batch, inHand>> /\ GatewayOnly

\* The process dies and is started again.
GatewayRestart ==
    /\ gpc # "exited" /\ Spend("deaths")
    /\ gpc' = "start" /\ known' = {} /\ replay' = {} /\ batch' = 0 /\ inHand' = 0
    /\ IF conn # NoConn THEN CloseTransport ELSE UNCHANGED <<conn, toPsd>>
    /\ UNCHANGED toPss /\ GatewayOnly

-----------------------------------------------------------------------------

ServerNext ==
    \/ Poll
    \/ \E c \in Conns : Admit(c) \/ Refuse(c) \/ PeerGone(c) \/ Recv(c)
    \/ SendAck \/ DropPeer \/ FailWaiter

SenderNext == Arm \/ Send \/ SendFails \/ Answered \/ PeerLost \/ Expire

GatewayNext ==
    \/ Open \/ Assigned \/ NotAssigned \/ RegisterEventTypes \/ Acknowledged
    \/ ReregisterFails \/ RegisterFails \/ Listen \/ TakeRequest \/ Respond \/ LinkLost

PsdNext ==
    \/ ServerNext \/ SenderNext \/ GatewayNext
    \/ \E r \in Asked \ {0}, t \in Types : Lookup(r, t)
    \/ StopServer \/ DaemonCrash \/ DaemonStart \/ Exit \/ GatewayRestart

\* Both processes run, both loops poll with a timeout, and the sender's wait is bounded.
PsdFairness == WF_psdVars(ServerNext) /\ WF_psdVars(SenderNext) /\ WF_psdVars(GatewayNext) /\ WF_psdVars(DaemonStart)

PsdSpec == PsdInit /\ [][PsdNext]_psdVars /\ PsdFairness

-----------------------------------------------------------------------------
(* Properties.                                                              *)

\* The type invariant: every client id belongs to one connection the transport has.
PsdTypeOK ==
    /\ peerOf \in [Ids -> Conns \cup {NoConn}] /\ routes \in [Types -> Ids \cup {NoId}]
    /\ \A i, j \in Ids : peerOf[i] = peerOf[j] /\ peerOf[i] # NoConn => i = j
    /\ \A i \in Ids : peerOf[i] # NoConn => peerOf[i] \in peers \ arrivals
    /\ snd.pc \in {"send", "wait"} /\ up => mailbox[snd.id].armed

\* sendDecisionRequestToPSD succeeds only with the answer the gateway made for this
\* request: a late answer to an earlier one, still on the socket, never completes it.
AnswerGenuine == accepted[1] = accepted[2]

\* The sender never sits out its timeout on a client that has left: while it waits with
\* nothing delivered, the peer it asked is still the client's, or its loss is being told.
WaitsOnLive ==
    snd.pc = "wait" /\ ~mailbox[snd.id].have /\ ~mailbox[snd.id].lost =>
        peerOf[snd.id] = snd.peer \/ (spc.at \in {"drop", "fail"} /\ spc.id = snd.id)

\* An event type is never routed to a client id that nobody holds, so a later client given
\* the id does not inherit requests it never asked for.
RoutedToLive == \A t \in Types : routes[t] # NoId => peerOf[routes[t]] # NoConn

\* A gateway that listens, or reconnects, still knows every event type it registered at
\* start-up, after any number of replays that failed half way.
FullSetKept == gpc \in {"listen", "decide", "reconnect", "reassign"} => known = Types

\* While daemon and gateway stay, every event type is routed to the gateway's connection
\* again, whatever was lost on the way.
Routed == gpc \in {"listen", "decide"} /\ \A t \in Types : routes[t] # NoId /\ peerOf[routes[t]] = conn
Rerouted == up /\ gpc # "exited" ~> ~up \/ gpc = "exited" \/ Routed
=============================================================================
