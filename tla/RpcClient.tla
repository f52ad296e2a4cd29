------------------------------ MODULE RpcClient ------------------------------
(***************************************************************************)
(* The client processes of PSS over the RPC client library                 *)
(* (NvPSSDaemon_interface.cpp).  A process registers once, sends           *)
(* heartbeats and reports over one connection, one call at a time (the     *)
(* stream's mutex), and gives up after a run of failed heartbeats          *)
(* (heartbeatLoop of the MDX client).  A call waits RPC_RECV_DEADLINE_MS   *)
(* for an answer; an answer that comes later stays in the socket and is    *)
(* what the next call reads.                                               *)
(***************************************************************************)
EXTENDS RpcServer

CONSTANTS
    MaxAckFailures,  \* kMaxHbAckFailures
    NumberSpan,      \* the values of msgCounter: 2^32
    Backlog          \* bound: calls of a connection whose answer has not been read

ASSUME ClientAssumption ==
    /\ MaxAckFailures \in Nat /\ Backlog \in Nat \ {0} /\ NumberSpan \in Nat
    /\ Backlog < NumberSpan

VARIABLES
    client,    \* [conn, state, kind, n, ahead, fails] of each process: n is the number of its call,
               \* ahead (history) the answers to its earlier calls that come before the one to it
    misled     \* history: a call returned success on the answer to another

clientVars == <<client, misled>>
vars == <<rpcVars, clientVars>>
server == <<slot, gen, smCache, masks, inputs, never, pending, tick, loop, arriving, told>>

ClientInit ==
    /\ client = [c \in Clients |-> [conn |-> 0, state |-> "down", kind |-> None, n |-> 0, ahead |-> 0, fails |-> 0]]
    /\ misled = FALSE

Init == RpcInit /\ ClientInit

Peer(c) == <<c, client[c].conn>>

\* NvPSSRegisterPSSClient_Socket: connect, send REGISTER_CLIENT.
Connect(c) ==
    /\ client[c].state = "down" /\ client[c].conn < MaxConns
    /\ LET p == <<c, client[c].conn + 1>>
       IN  /\ client' = [client EXCEPT ![c] = [conn |-> p[2], state |-> "waiting", kind |-> "register",
                                               n |-> 0, ahead |-> 0, fails |-> 0]]
           /\ arriving' = arriving \cup {p} /\ open' = open \cup {p}
           /\ requests' = [requests EXCEPT ![p] = <<[kind |-> "register", n |-> 0]>>]
    /\ UNCHANGED <<slot, gen, smCache, masks, inputs, never, pending, tick, loop, cut, responses, told, misled>>

\* What a process does with the result of a call: a failed registration and a termination close
\* the socket, a heartbeat counts its failures.
Close(c) ==
    /\ client' = [client EXCEPT ![c].state = "down", ![c].kind = None, ![c].n = 0, ![c].ahead = 0, ![c].fails = 0]
    /\ open' = open \ {Peer(c)} /\ cut' = cut \ {Peer(c)}
    /\ responses' = [responses EXCEPT ![Peer(c)] = <<>>]
    /\ requests' = IF Peer(c) \in cut THEN [requests EXCEPT ![Peer(c)] = <<>>] ELSE requests

Return(c, kind, n, good, rest) ==
    IF kind = "terminate" \/ (kind = "register" /\ ~good) THEN Close(c)
    ELSE /\ client' = [client EXCEPT ![c].state = "idle", ![c].kind = None, ![c].n = n, ![c].ahead = 0,
                                     ![c].fails = IF kind # "heartbeat" THEN @ ELSE IF good THEN 0 ELSE @ + 1]
         /\ responses' = [responses EXCEPT ![Peer(c)] = rest]
         /\ UNCHANGED <<open, cut, requests>>

\* One call of the library: the request is written and the answer awaited.  A connection the
\* daemon has closed fails at once.
Call(c, m) ==
    /\ client[c].state = "idle" /\ Len(requests[Peer(c)]) + Len(responses[Peer(c)]) < Backlog
    /\ IF Peer(c) \in cut
       THEN Return(c, m.kind, m.n, FALSE, responses[Peer(c)])
       ELSE /\ client' = [client EXCEPT ![c].state = "waiting", ![c].kind = m.kind, ![c].n = m.n,
                                        ![c].ahead = Len(requests[Peer(c)]) + Len(responses[Peer(c)])]
            /\ requests' = [requests EXCEPT ![Peer(c)] = Append(@, m)]
            /\ UNCHANGED <<open, cut, responses>>
    /\ UNCHANGED <<server, misled>>

\* msgCounter, which wraps.
NextNumber(c) == IF client[c].n + 1 = NumberSpan THEN 0 ELSE client[c].n + 1

\* NvPSSSendHeartbeat, from the heartbeat thread, until it has failed MaxAckFailures times in a row.
SendHeartbeat(c) ==
    /\ client[c].fails < MaxAckFailures
    /\ Call(c, [kind |-> "heartbeat", n |-> NextNumber(c)])

\* NvPSSReportSafetyEvent
ReportSafetyEvent(c) ==
    \E r \in Reports : Call(c, [kind |-> "report", n |-> NextNumber(c), report |-> r])

\* NvPSSTerminatePSSClient: the end of the process, by itself or after the failed heartbeats.
TerminateClient(c) == Call(c, [kind |-> "terminate", n |-> NextNumber(c)])

\* Mutant: the sequence number of the answer is not compared with the request's.
MatchesAny(c, r) == TRUE

\* The answer of a call is the one with its sequence number; a registration takes the first.
Matches(c, r) == client[c].kind = "register" \/ r.n = client[c].n

\* The call reads one answer: its own, or one that an earlier call gave up on.
Receive(c) ==
    /\ client[c].state = "waiting" /\ responses[Peer(c)] # <<>>
    /\ LET r == Head(responses[Peer(c)])
           good == Matches(c, r) /\ r.ok
       IN  /\ Return(c, client[c].kind, client[c].n, good, Tail(responses[Peer(c)]))
           /\ misled' = (misled \/ (good /\ client[c].ahead # 0))
    /\ UNCHANGED server

\* recvAll reaches its deadline, or finds the connection closed.
GiveUp(c) ==
    /\ client[c].state = "waiting"
    /\ Return(c, client[c].kind, client[c].n, FALSE, responses[Peer(c)])
    /\ UNCHANGED <<server, misled>>

\* The process dies: the kernel closes its socket.
Crash(c) ==
    /\ client[c].state # "down"
    /\ Close(c)
    /\ UNCHANGED <<server, misled>>

ClientNext ==
    \E c \in Clients :
        Connect(c) \/ SendHeartbeat(c) \/ ReportSafetyEvent(c) \/ TerminateClient(c)
        \/ Receive(c) \/ GiveUp(c) \/ Crash(c)

RpcNext ==
    \/ ClientNext
    \/ (ServerNext \/ TickNext) /\ UNCHANGED clientVars

RpcSpec == Init /\ [][RpcNext]_vars

-----------------------------------------------------------------------------
(* Properties. *)

RpcTypeOK ==
    /\ \A s \in Slots : /\ slot[s].peer \in Peers \cup {NoPeer} /\ slot[s].id \in Identities \cup {None}
                        /\ slot[s].quiet \in 0..2 /\ slot[s].miss \in 0..MaxHbFailures
                        /\ slot[s].streak \in 0..RejectThreshold
    /\ presence \subseteq Tracked /\ expected \subseteq Tracked /\ told \subseteq Tracked
    /\ spc \in {"pending", "serving"} /\ tpc \in {"idle", "required", "enqueue"}

\* A latched slot is on its way out: the tick has it, or the server will find it in its list.
LeavingSoon(s) == s \in doomed \/ \E e \in pending : e[1] = s

\* No silent absence: a tracked source that PSS expects and that is not present now has had its
\* loss queued for the decision makers since it was last present, or is about to: it stands in the
\* list of sources never registered, or latched in a slot the server will drop with the
\* announcement; or else it is connected and has just registered.  However it left: terminated,
\* crashed, hung, evicted or never there.
LossAnnounced ==
    \A i \in expected \ presence :
        \/ i \in told \cup pendingNever
        \/ \E s \in Slots : slot[s].id = i /\ (slot[s].latched => LeavingSoon(s))

\* The masks the status report carries are what the slots say at that moment: the presence mask
\* is recomputed at every change of its inputs (NvPSSDRPC.hpp, presenceMask_), the expected mask
\* never loses a source, and the Safety Monitor's cached misses, from which the operational mode
\* comes, are those of the one slot that holds the Safety Monitor.
PublishedExact ==
    /\ presence = PresenceOf(slot)
    /\ expected = ExpectedOf(everPresent, due)
    /\ unusable = UnusableOf(slot)
    /\ presence \subseteq expected
    /\ \A s \in Slots : slot[s].id = "SM" =>
           smCache = [slot |-> s, miss |-> slot[s].miss, fault |-> slot[s].latched]
    /\ (\A s \in Slots : slot[s].id # "SM") => smCache = NoMonitor

\* One live holder: two connected clients never hold the same singleton identity, a latched one
\* included: the newcomer evicts it.
OneHolder ==
    \A s, t \in Used : s # t /\ slot[s].id \in Singletons => slot[s].id # slot[t].id

\* An identity whose input is unusable is not reported confirmed at the same time, unless it is
\* the shared identity of the anonymous clients.
UnusableNotConfirmed == unusable \cap confirmed \cap Tracked = {}

\* The fault of a source's input ends by an accepted report of that source or with its
\* connection, whose end is announced; never by rejected reports or by the passing of time.
InputFaultEnds ==
    [][\A i \in (unusable \ unusable') \cap Tracked : i \in confirmed' \/ i \in told']_vars

\* A call that returned success was answered itself: the answer it read is the one the server gave
\* to this very request, never the late answer to a call that gave up before, whatever became of the
\* calls in between and also where the counter of the requests has wrapped and numbers recur.
SuccessGenuine == ~misled

\* The server's list of pending disconnects ends only connections that were silent themselves:
\* "processPendingDisconnects skips stale entries" (NvPSSDRPC.hpp).
StaleEntriesSkipped ==
    \A s \in Used : <<s, gen[s]>> \in pending => slot[s].latched
=============================================================================
