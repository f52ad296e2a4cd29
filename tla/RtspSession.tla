----------------------------- MODULE RtspSession -----------------------------
(***************************************************************************)
(* One RTSP session of a camera pipeline (rtsp_client.cpp, runStream-      *)
(* Pipeline and decodeStream): DESCRIBE, SETUP and PLAY, the receive       *)
(* thread that rebuilds NAL units from RTP packets, the bounded NalQueue,  *)
(* the decode loop, and how both threads end.                              *)
(*                                                                         *)
(* A packet is [ssrc, seq, kind, units, unit, frag, last, type, big]:      *)
(* kind "single" and "stap" carry the whole units of the given types, "fu" *)
(* carries fragment frag of the last fragments of a unit, "other" is not   *)
(* supported.  The network delivers packets in any order, more than once   *)
(* or never.  big: the fragment does not fit under MAX_FUA_SIZE.           *)
(***************************************************************************)
EXTENDS Integers, Sequences

CONSTANTS
    Packets,       \* the packets the camera may send
    SeqModulus,    \* RTP sequence numbers are taken modulo this
    QueueCap,      \* NAL_QUEUE_CAPACITY
    MismatchLimit, \* SSRC_MISMATCH_LIMIT
    MaxPackets,    \* bound: packets received in a session
    MaxParams,     \* bound: parameter sets of a session description
    MaxTries       \* bound: sessions dialled

VARIABLES
    stage,     \* idle, dialled, described, ready, up, ended
    sid,       \* sessionId_ is set
    queue,     \* NalQueue: the types of the units in it
    finished,  \* finished_
    rx,        \* the receive thread: off, recv, push, out, done
    todo,      \* the units it has to push
    fua,       \* reassembly: [on, next, buf]
    lock,      \* [ssrc, misses]: expectedSSRC_ (0: not locked), ssrcMismatchCount_
    idr,       \* idrSeen_
    dec,       \* the decode loop: off, pop, out
    stop,      \* g_stopFlag
    localStop, \* localStop_ of the client
    got,       \* packets received in this session
    tries,     \* sessions dialled
    keyed,     \* history: a keyframe of this session was pushed
    broken,    \* history: a unit was pushed that is not whole
    headless   \* history: a slice was pushed before the session's first keyframe

clientVars == <<sid, fua, lock, idr, localStop, got>>
queueVars == <<queue, finished>>
threadVars == <<rx, todo, dec>>
ghostVars == <<keyed, broken, headless>>
sessionVars == <<stage, sid, queue, finished, rx, todo, fua, lock, idr, dec, stop, localStop, got,
          tries, keyed, broken, headless>>

NoFua == [on |-> FALSE, next |-> 0, buf |-> <<>>]

RtspInit ==
    /\ stage = "idle" /\ sid = FALSE /\ queue = <<>> /\ finished = FALSE
    /\ rx = "off" /\ todo = <<>> /\ fua = NoFua /\ lock = [ssrc |-> 0, misses |-> 0]
    /\ idr = FALSE /\ dec = "off" /\ stop = FALSE /\ localStop = FALSE
    /\ got = 0 /\ tries = 0 /\ keyed = FALSE /\ broken = FALSE /\ headless = FALSE

-----------------------------------------------------------------------------
(* Setting the session up, on the pipeline thread. *)

\* connectToServer, on a URL that parses
ConnectToServer == {"idle", "dialled"}

\* RTSPClient::init and resetSessionState on a new client and a new queue; connectToServer
\* succeeds, or fails and the loop comes back here.
Dial ==
    /\ stage = "idle" /\ ~stop /\ tries < MaxTries
    /\ tries' = tries + 1
    /\ stage' \in ConnectToServer
    /\ sid' = FALSE /\ queue' = <<>> /\ finished' = FALSE /\ fua' = NoFua
    /\ lock' = [ssrc |-> 0, misses |-> 0] /\ idr' = FALSE /\ localStop' = FALSE /\ got' = 0
    /\ keyed' = FALSE
    /\ UNCHANGED <<rx, todo, dec, stop, broken, headless>>

\* The destructor of the client closes its sockets and, with a session, tears it down.
Undial ==
    /\ stage' = "idle" /\ sid' = FALSE
    /\ UNCHANGED <<queueVars, fua, lock, idr, localStop, got, threadVars, stop, tries, ghostVars>>

\* extractSpropParams: the parameter sets of the description, queued while nobody takes from it
SpropParams == UNION {[1..n -> {"param"}] : n \in 0..MaxParams}

\* DESCRIBE; a description without an H264 payload type fails (SetupFails).
Describe ==
    /\ stage = "dialled"
    /\ stage' = "described"
    /\ queue' \in SpropParams
    /\ UNCHANGED <<clientVars, finished, threadVars, stop, tries, ghostVars>>

\* SETUP answers with the session id.
Setup ==
    /\ stage = "described"
    /\ stage' = "ready" /\ sid' = TRUE
    /\ UNCHANGED <<queueVars, fua, lock, idr, localStop, got, threadVars, stop, tries, ghostVars>>

\* A request cannot be sent, its answer does not come or is not 200, or the description or the
\* session id is missing.
SetupFails == stage \in {"dialled", "described", "ready"} /\ Undial

\* PLAY succeeds; the parser is created, the receive thread starts and decodeStream runs.
Play ==
    /\ stage = "ready"
    /\ stage' = "up" /\ rx' = "recv" /\ dec' = "pop"
    /\ UNCHANGED <<clientVars, queueVars, todo, stop, tries, ghostVars>>

-----------------------------------------------------------------------------
(* The receive thread. *)

Next16(n) == (n + 1) % SeqModulus
Dropped == NoFua

\* Whether the buffer is all the fragments of one unit of one source, in order
Whole(buf, p) == /\ Len(buf) = p.last
                 /\ \A i \in 1..Len(buf) : buf[i] = <<p.ssrc, p.unit, i>>

Piece(p) == <<p.ssrc, p.unit, p.frag>>

\* processRtpPayload, a fragment that is not the first: it must follow the last one.
Continue(p, f) ==
    IF ~f.on \/ p.seq # f.next \/ p.big THEN Dropped
    ELSE [on |-> p.frag # p.last, next |-> Next16(p.seq), buf |-> Append(f.buf, Piece(p))]

\* processRtpPayload, a first fragment: it ends whatever was in progress.
Begin(p) ==
    IF p.big THEN Dropped
    ELSE [on |-> p.frag # p.last, next |-> Next16(p.seq), buf |-> <<Piece(p)>>]

Reassembled(p, f) == IF p.frag = 1 THEN Begin(p) ELSE Continue(p, f)

\* The fragment completed its unit.
Completes(p, f) == p.kind = "fu" /\ p.frag = p.last /\ Reassembled(p, f).buf # <<>>

\* The source a packet is accepted from: the first one seen, until MismatchLimit packets in
\* a row come from elsewhere.
Locked(p) ==
    IF lock.ssrc = 0 \/ lock.ssrc = p.ssrc THEN [ssrc |-> p.ssrc, misses |-> 0]
    ELSE IF lock.misses + 1 >= MismatchLimit THEN [ssrc |-> p.ssrc, misses |-> 0]
    ELSE [lock EXCEPT !.misses = @ + 1]

Listening == rx = "recv" /\ ~stop /\ ~localStop

\* Mutant: a change of source leaves the reassembly as it is.
ReceiveAnySource(p) ==
    LET f == fua
        after == Reassembled(p, f)
        whole == Completes(p, f)
    IN  /\ Listening /\ got < MaxPackets
        /\ got' = got + 1
        /\ lock' = Locked(p)
        /\ IF Locked(p).ssrc # p.ssrc
           THEN UNCHANGED <<rx, todo, fua, broken>>
           ELSE /\ fua' = IF p.kind # "fu" THEN f ELSE IF whole THEN NoFua ELSE after
                /\ todo' = IF whole THEN <<p.type>>
                           ELSE IF p.kind \in {"single", "stap"} THEN p.units ELSE <<>>
                /\ rx' = IF todo' # <<>> THEN "push" ELSE rx
                /\ broken' = (broken \/ (whole /\ ~Whole(after.buf, p)))
        /\ UNCHANGED <<stage, sid, idr, localStop, queueVars, dec, stop, tries, keyed, headless>>

\* receiveLoop and processRtpPayload for one packet
Receive(p) ==
    LET relocked == lock.ssrc # 0 /\ lock.ssrc # p.ssrc /\ Locked(p).ssrc = p.ssrc
        f == IF relocked THEN Dropped ELSE fua
        after == Reassembled(p, f)
        whole == Completes(p, f)
    IN  /\ Listening /\ got < MaxPackets
        /\ got' = got + 1
        /\ lock' = Locked(p)
        /\ IF Locked(p).ssrc # p.ssrc
           THEN UNCHANGED <<rx, todo, fua, broken>>
           ELSE /\ fua' = IF p.kind # "fu" THEN f ELSE IF whole THEN NoFua ELSE after
                /\ todo' = IF whole THEN <<p.type>>
                           ELSE IF p.kind \in {"single", "stap"} THEN p.units ELSE <<>>
                /\ rx' = IF todo' # <<>> THEN "push" ELSE rx
                /\ broken' = (broken \/ (whole /\ ~Whole(after.buf, p)))
        /\ UNCHANGED <<stage, sid, idr, localStop, queueVars, dec, stop, tries, keyed, headless>>

\* passesIdrGate: until the keyframe, slices that need it are dropped.
PassesIdrGate(type) == idr \/ type # "slice"

\* Mutant: a full queue is waited for although it is finished.
PushWaits ==
    LET type == Head(todo)
        pass == PassesIdrGate(type)
    IN  /\ rx = "push"
        /\ pass => Len(queue) < QueueCap
        /\ queue' = IF pass /\ ~finished THEN Append(queue, type) ELSE queue
        /\ idr' = (idr \/ type = "idr")
        /\ headless' = (headless \/ (pass /\ type = "slice" /\ ~keyed))
        /\ keyed' = (keyed \/ type = "idr")
        /\ todo' = Tail(todo)
        /\ rx' = IF Len(todo) = 1 THEN "recv" ELSE rx
        /\ UNCHANGED <<stage, sid, finished, fua, lock, dec, stop, localStop, got, tries, broken>>

\* pushNalUnit and NalQueue::push: it waits while the queue is full and not finished.
Push ==
    LET type == Head(todo)
        pass == PassesIdrGate(type)
    IN  /\ rx = "push"
        /\ pass => Len(queue) < QueueCap \/ finished
        /\ queue' = IF pass /\ ~finished THEN Append(queue, type) ELSE queue
        /\ idr' = (idr \/ type = "idr")
        /\ headless' = (headless \/ (pass /\ type = "slice" /\ ~keyed))
        /\ keyed' = (keyed \/ type = "idr")
        /\ todo' = Tail(todo)
        /\ rx' = IF Len(todo) = 1 THEN "recv" ELSE rx
        /\ UNCHANGED <<stage, sid, finished, fua, lock, dec, stop, localStop, got, tries, broken>>

\* The loop ends: told to stop, RTCP BYE, a socket error, or nothing for RTSP_RECV_TIMEOUT_SEC.
\* An unfinished reassembly is dropped.
LeaveLoop ==
    /\ rx = "recv"
    /\ rx' = "out" /\ fua' = NoFua
    /\ UNCHANGED <<stage, sid, lock, idr, localStop, got, queueVars, todo, dec, stop, tries,
                   ghostVars>>

\* The thread's last act: markFinished
ReceiverDone ==
    /\ rx = "out" /\ rx' = "done" /\ finished' = TRUE
    /\ UNCHANGED <<stage, clientVars, queue, todo, dec, stop, tries, ghostVars>>

-----------------------------------------------------------------------------
(* The decode loop, on the pipeline thread. *)

\* NalQueue::pop; the loop goes on, or leaves for a stop, a fault or too many parse errors.
Pop ==
    /\ dec = "pop" /\ queue # <<>>
    /\ queue' = Tail(queue)
    /\ dec' \in IF stop THEN {"out"} ELSE {"pop", "out"}
    /\ UNCHANGED <<stage, clientVars, finished, rx, todo, stop, tries, ghostVars>>

\* Nothing left and nothing to come
PopEnds ==
    /\ dec = "pop" /\ queue = <<>> /\ finished
    /\ dec' = "out"
    /\ UNCHANGED <<stage, clientVars, queueVars, rx, todo, stop, tries, ghostVars>>

\* After decodeStream: markFinished and requestStop
DecodeDone ==
    /\ dec = "out" /\ stage = "up"
    /\ stage' = "ended" /\ finished' = TRUE /\ localStop' = TRUE
    /\ UNCHANGED <<sid, fua, lock, idr, got, queue, threadVars, stop, tries, ghostVars>>

\* The receive thread is joined and the client destroyed.
Join ==
    /\ stage = "ended" /\ rx = "done"
    /\ stage' = "idle" /\ sid' = FALSE /\ rx' = "off" /\ dec' = "off"
    /\ UNCHANGED <<fua, lock, idr, localStop, got, queueVars, todo, stop, tries, ghostVars>>

\* A signal
Stop ==
    /\ ~stop /\ stop' = TRUE
    /\ UNCHANGED <<stage, clientVars, queueVars, threadVars, tries, ghostVars>>

-----------------------------------------------------------------------------
RtspNext ==
    \/ Dial \/ Describe \/ Setup \/ SetupFails \/ Play
    \/ (\E p \in Packets : Receive(p)) \/ Push \/ LeaveLoop \/ ReceiverDone
    \/ Pop \/ PopEnds \/ DecodeDone \/ Join \/ Stop

\* Both threads are scheduled; a silent or stopped receive loop ends by its time-outs.
RtspFairness ==
    /\ WF_sessionVars(Describe) /\ WF_sessionVars(Setup) /\ WF_sessionVars(Play)
    /\ WF_sessionVars(Push) /\ WF_sessionVars(LeaveLoop) /\ WF_sessionVars(ReceiverDone)
    /\ WF_sessionVars(Pop) /\ WF_sessionVars(PopEnds) /\ WF_sessionVars(DecodeDone) /\ WF_sessionVars(Join)

RtspSpec == RtspInit /\ [][RtspNext]_sessionVars /\ RtspFairness

-----------------------------------------------------------------------------
RtspTypeOK ==
    /\ stage \in {"idle", "dialled", "described", "ready", "up", "ended"}
    /\ rx \in {"off", "recv", "push", "out", "done"} /\ (rx = "push" <=> todo # <<>>)
    /\ Len(queue) <= QueueCap /\ \A i \in DOMAIN queue : queue[i] \in {"param", "idr", "slice"}
    /\ fua.on => fua.buf # <<>> /\ lock.misses < MismatchLimit
    /\ stage = "ready" => sid

(* A unit rebuilt from fragments is all the fragments of one unit, in      *)
(* order and from one source, whatever the network loses, repeats or       *)
(* reorders and whenever the camera restarts with another SSRC             *)
(* (processRtpPayload, receiveLoop).                                       *)
UnitsWhole == ~broken

(* No slice reaches the decoder before a keyframe of its session, so a     *)
(* reconnected camera is never judged on frames that cannot be decoded     *)
(* (passesIdrGate; the gate is reset with the session).                    *)
GateHolds == ~headless

(* A session that comes up ends once its camera goes silent, says BYE or   *)
(* the process stops: neither thread is left waiting on the queue, however *)
(* full or empty it is (NalQueue, runStreamPipeline).                      *)
SessionEnds == stage = "up" ~> stage = "idle"
=============================================================================
