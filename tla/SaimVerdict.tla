----------------------------- MODULE SaimVerdict -----------------------------
(***************************************************************************)
(* The verdict the Safety AI Monitor (SAIM) keeps about one camera in      *)
(* ACTIVE mode, and the reporter thread that mirrors it to PSS             *)
(* (safety_monitor.cpp, nvdec_decoder.cpp, frame_quality_analyzer_gpu.cpp, *)
(* safety_event_reporter.cpp).                                             *)
(*                                                                         *)
(* Three threads write the camera's slot: "decode" (runStreamPipeline and  *)
(* the decoder callbacks it runs), "rtsp" (receiveLoop, whose FU-A alert   *)
(* and gate watchdog report too) and "reporter" (its reinforcement).  A    *)
(* producer first moves the shared flag sensorInvalid_, then reads the     *)
(* clock, then enters update_slot: three steps others interleave with.     *)
(*                                                                         *)
(* Only the order of two timestamps matters: order lists the threads that  *)
(* have read the clock for an update not applied yet, oldest first.  One   *)
(* that a younger update overtook is not listed and update_slot drops it.  *)
(* Two equal readings, and a clock that fails, are left out.               *)
(***************************************************************************)
EXTENDS Integers, Sequences, SequencesExt

CONSTANTS
    CounterMax,    \* counter_max of the alert counter
    MaxStep,       \* max_increment and max_decrement: the largest step of the counter
    MaxErrors,     \* kMaxConsecutiveAnalyzerErrors
    MaxReinits,    \* kMaxAnalyzerReinitAttempts
    MaxSendFails,  \* bound: reports PSS refuses
    MaxSessions    \* bound: RTSP sessions that come up

VARIABLES
    flag,      \* sensorInvalid_
    slot,      \* the reporter's slot for the camera: [state, cause]
    dirty,     \* Slot::dirty
    pend,      \* the update each thread is in the middle of
    order,     \* threads with a timestamp taken and not applied, oldest first
    pc,        \* the pipeline thread: init, connect, stream, down; left, when it was told to stop
    counter,   \* alertCounter_
    errors,    \* consecutive_errors_ of the analyzer
    reinits,   \* reinit_attempts_
    fault,     \* analyzerPermanentFault_
    dwell,     \* the FU-A alert is in its cool-down
    idrSeen,   \* the session has had a keyframe: its IDR gate is open
    watch,     \* gate watchdog: [done, idr, seed]
    work,      \* haveWork_
    retry,     \* a retry deadline is set
    due,       \* the reinforcement interval has passed
    rpc,       \* the reporter thread: wait, drain, send, passed, reinforce, done
    evt,       \* the event it sends
    told,      \* g_stopFlag: a signal told the process to stop
    stopping,  \* stopFlag_ of the reporter
    linked,    \* the socket registerPSS opened still leads to PSS
    pss,       \* what PSS last accepted about the camera
    left,      \* what is left of the bounds: [fails, sessions]
    good,      \* history: good frames since the session came up
    since      \* history: whether the verdict was re-asserted since the stream went

flagVars == <<flag, pend, order>>
slotVars == <<slot, dirty, work>>
decoderVars == <<told, pc, counter, errors, reinits, fault, good>>
rtspVars == <<dwell, idrSeen, watch>>
reporterVars == <<retry, due, rpc, evt, stopping, linked, pss>>
vars == <<flag, slot, dirty, pend, order, pc, counter, errors, reinits, fault, dwell, idrSeen,
          watch, work, retry, due, rpc, evt, told, stopping, linked, pss, left, good, since>>

Threads == {"decode", "rtsp", "reporter"}
Causes == {"init", "degraded", "internal", "disconnect", "drop", "unknown", "healthy"}
Idle == [at |-> "idle", state |-> "none", cause |-> "none"]
NoEvent == [state |-> "none", cause |-> "none"]

\* registerSensor: the seed of a new slot; the flag starts invalid.
Seed == [state |-> "INVALID", cause |-> "init"]

\* buildEventFromSlotLocked
BuildEvent(s) ==
    [state |-> s.state,
     cause |-> IF s.state = "VALID" THEN "healthy"
               ELSE IF s.cause = "healthy" THEN "unknown" ELSE s.cause]

Init ==
    /\ flag = TRUE /\ slot = Seed /\ dirty = TRUE /\ work = TRUE
    /\ pend = [t \in Threads |-> Idle] /\ order = <<>>
    /\ pc = "init" /\ counter = 0 /\ errors = 0 /\ reinits = 0 /\ fault = FALSE
    /\ dwell = FALSE /\ idrSeen = FALSE
    /\ watch = [done |-> FALSE, idr |-> "unset", seed |-> "unset"]
    /\ retry = FALSE /\ due = FALSE /\ rpc = "wait" /\ evt = NoEvent
    /\ told = FALSE /\ stopping = FALSE
    /\ linked = TRUE /\ pss = NoEvent
    /\ left = [fails |-> MaxSendFails, sessions |-> MaxSessions]
    /\ good = 0 /\ since = "no"

-----------------------------------------------------------------------------
(* Moving the flag and handing a verdict to the reporter. *)

Free(t) == pend[t] = Idle

Owes(t, s, c) == pend' = [pend EXCEPT ![t] = [at |-> "marked", state |-> s, cause |-> c]]

\* compare_exchange of the flag from false to true, and the INVALID that follows a success.
EdgeInvalid(t, c) ==
    /\ flag' = TRUE
    /\ IF flag THEN UNCHANGED pend ELSE Owes(t, "INVALID", c)

\* monotonic_now_ns, in the argument list of update_slot
Stamp(t) ==
    /\ pend[t].at = "marked"
    /\ pend' = [pend EXCEPT ![t].at = "stamped"]
    /\ order' = Append(order, t)
    /\ UNCHANGED <<flag, slotVars, decoderVars, rtspVars, reporterVars, left, since>>

IsStale(t) == ~\E i \in DOMAIN order : order[i] = t
Overtaken(t) == {order[i] : i \in {j \in DOMAIN order : \E k \in DOMAIN order : order[k] = t /\ j <= k}}

\* update_slot, update_slot_impl: an update older than the slot is dropped.
UpdateSlot(t) ==
    /\ pend[t].at = "stamped"
    /\ pend' = [pend EXCEPT ![t] = Idle]
    /\ IF IsStale(t) THEN UNCHANGED <<slot, dirty, work, order>>
       ELSE /\ slot' = [state |-> pend[t].state,
                        cause |-> IF pend[t].cause = "keep" THEN slot.cause ELSE pend[t].cause]
            /\ order' = SelectSeq(order, LAMBDA u : u \notin Overtaken(t))
            /\ dirty' = TRUE /\ work' = TRUE
    /\ rpc' = IF t = "reporter" THEN "wait" ELSE rpc
    /\ since' = IF t = "reporter" /\ since = "begun" THEN "yes" ELSE since
    /\ UNCHANGED <<flag, decoderVars, rtspVars, retry, due, evt, stopping, linked, pss, left>>

-----------------------------------------------------------------------------
(* The pipeline thread. *)

\* runStreamPipeline up to its loop: a failure ends the thread and reports nothing.
InitPipeline ==
    /\ pc = "init" /\ pc' \in {"connect", "down"}
    /\ UNCHANGED <<flagVars, slotVars, told, counter, errors, reinits, fault, good, rtspVars,
                   reporterVars, left, since>>

\* connectToServer or setupRTSPSession fails; ACTIVE never gives up.
ConnectFails ==
    /\ pc = "connect" /\ Free("decode") /\ ~flag
    /\ EdgeInvalid("decode", "disconnect")
    /\ UNCHANGED <<order, slotVars, decoderVars, rtspVars, reporterVars, left, since>>

\* init fails again and again for a bad URL (onRetriesExhausted), under which no session
\* ever came up.
GiveUp ==
    /\ pc = "connect" /\ Free("decode") /\ left.sessions = MaxSessions
    /\ pc' = "down" /\ EdgeInvalid("decode", "disconnect")
    /\ UNCHANGED <<order, slotVars, told, counter, errors, reinits, fault, good, rtspVars,
                   reporterVars, left, since>>

\* signalHandler
Signal ==
    /\ ~told /\ told' = TRUE
    /\ UNCHANGED <<flagVars, slotVars, pc, counter, errors, reinits, fault, good, rtspVars,
                   reporterVars, left, since>>

\* The loop of runStreamPipeline ends between two sessions: nothing is reported.
LeaveLoop ==
    /\ pc = "connect" /\ Free("decode") /\ told
    /\ pc' = "down"
    /\ UNCHANGED <<flagVars, slotVars, told, counter, errors, reinits, fault, good, rtspVars,
                   reporterVars, left, since>>

\* The session is set up, createParser succeeds and the RTSP thread starts; its FU-A
\* alert has a cool-down of its own.
CreateParser ==
    /\ pc = "connect" /\ Free("decode") /\ left.sessions > 0
    /\ counter' = CounterMax
    /\ EdgeInvalid("decode", "disconnect")
    /\ pc' = "stream" /\ good' = 0 /\ since' = "no" /\ dwell' = FALSE /\ idrSeen' = FALSE
    /\ left' = [left EXCEPT !.sessions = @ - 1]
    /\ UNCHANGED <<order, slotVars, told, errors, reinits, fault, watch, reporterVars>>

\* createParser fails: the thread ends.
ParserFails ==
    /\ pc = "connect" /\ Free("decode")
    /\ counter' = CounterMax
    /\ EdgeInvalid("decode", "disconnect") /\ pc' = "down"
    /\ UNCHANGED <<order, slotVars, told, errors, reinits, fault, good, rtspVars, reporterVars,
                   left, since>>

Streaming == pc = "stream" /\ Free("decode")
SeesFrames == Streaming /\ idrSeen /\ ~fault

Larger(a, b) == IF a > b THEN a ELSE b
Smaller(a, b) == IF a < b THEN a ELSE b

\* The alert counter after a frame: a bad frame raises it, a good one drains it, a frame
\* between the thresholds leaves it.
Counted(score, step) ==
    CASE score = "low" -> Smaller(counter + step, CounterMax)
      [] score = "high" -> Larger(counter - step, 0)
      [] OTHER -> counter

\* HandlePictureDisplay for a frame the analyzer could judge
Frame(score, step) ==
    /\ SeesFrames
    /\ counter' = Counted(score, step)
    /\ good' = IF score = "high" THEN Smaller(good + 1, CounterMax) ELSE good
    /\ errors' = 0
    /\ \/ /\ counter' >= CounterMax /\ score = "low"
          /\ EdgeInvalid("decode", "degraded")
       \/ /\ counter' <= 0 /\ score = "high"
          /\ flag' = FALSE
          /\ IF flag THEN Owes("decode", "VALID", "healthy") ELSE UNCHANGED pend
       \/ /\ ~(counter' >= CounterMax /\ score = "low")
          /\ ~(counter' <= 0 /\ score = "high")
          /\ UNCHANGED <<flag, pend>>
    /\ UNCHANGED <<order, slotVars, told, pc, reinits, fault, rtspVars, reporterVars, left, since>>

\* handleFrameFailure: the analyzer failed on a frame.  From MaxErrors failures in a row on
\* it marks the camera and rebuilds itself, as long as its budget lasts.
FrameFailure(rebuilt) ==
    /\ SeesFrames
    /\ IF errors + 1 < MaxErrors
       THEN errors' = errors + 1 /\ UNCHANGED <<flag, pend, reinits, fault>>
       ELSE /\ EdgeInvalid("decode", "internal")
            /\ IF reinits >= MaxReinits
               THEN fault' = TRUE /\ errors' = errors + 1 /\ UNCHANGED reinits
               ELSE /\ reinits' = reinits + 1
                    /\ fault' = ~rebuilt
                    /\ errors' = IF rebuilt THEN 0 ELSE errors + 1
    /\ UNCHANGED <<order, slotVars, told, pc, counter, good, rtspVars, reporterVars, left, since>>

\* HandleVideoSequence: the analyzer starts anew for the sequence.
SequenceStarts ==
    /\ Streaming /\ errors > 0 /\ errors' = 0
    /\ UNCHANGED <<flagVars, slotVars, told, pc, counter, reinits, fault, good, rtspVars,
                   reporterVars, left, since>>

\* HandleVideoSequence: it cannot start.  The flag is stored, not exchanged, and the first
\* such fault is reported whatever the flag was.
SequenceRefused ==
    /\ Streaming /\ ~fault
    /\ flag' = TRUE /\ fault' = TRUE
    /\ Owes("decode", "INVALID", "internal")
    /\ UNCHANGED <<order, slotVars, told, pc, counter, errors, reinits, good, rtspVars,
                   reporterVars, left, since>>

\* Mutant: the loss of a stream is not reported.
StreamEndsSilent ==
    /\ Streaming /\ Free("rtsp")
    /\ pc' = IF told THEN "left" ELSE IF fault THEN "down" ELSE "connect"
    /\ since' = "no"
    /\ UNCHANGED <<flagVars, slotVars, told, counter, errors, reinits, fault, good, rtspVars,
                   reporterVars, left>>

\* decodeStream returned and the RTSP thread is joined.  A process told to stop leaves
\* without a report, whatever the flag says; a permanent fault ends the thread; otherwise the
\* loss is reported and the camera dialled again.
StreamEnds ==
    /\ Streaming /\ Free("rtsp")
    /\ \/ told /\ pc' = "left" /\ UNCHANGED <<flag, pend>>
       \/ ~told /\ fault /\ pc' = "down" /\ UNCHANGED <<flag, pend>>
       \/ ~told /\ ~fault /\ pc' = "connect" /\ EdgeInvalid("decode", "disconnect")
    /\ since' = "no"
    /\ UNCHANGED <<order, slotVars, told, counter, errors, reinits, fault, good, rtspVars,
                   reporterVars, left>>

-----------------------------------------------------------------------------
(* The RTSP thread while a session is up. *)

\* The callback of setupFuaCallback, on every fifth NAL unit lost to a gap
FuaAlert ==
    /\ pc = "stream" /\ Free("rtsp") /\ ~dwell /\ ~flag
    /\ EdgeInvalid("rtsp", "drop") /\ dwell' = TRUE
    /\ UNCHANGED <<order, slotVars, decoderVars, idrSeen, watch, reporterVars, left, since>>

\* The cool-down of the alert runs out.
DwellEnds ==
    /\ dwell /\ dwell' = FALSE
    /\ UNCHANGED <<flagVars, slotVars, decoderVars, idrSeen, watch, reporterVars, left, since>>

\* passesIdrGate lets the first keyframe of the session through, and all that follows.
GateOpens ==
    /\ pc = "stream" /\ Free("rtsp") /\ ~idrSeen /\ idrSeen' = TRUE
    /\ UNCHANGED <<flagVars, slotVars, decoderVars, dwell, watch, reporterVars, left, since>>

\* noteStreamGateState reads the clock before it looks at anything.  The parameter sets of
\* the session description tick it from the pipeline thread, before the session is up.
GateTick(t) ==
    LET open == idrSeen /\ t = "rtsp" IN
    /\ ~watch.done /\ Free(t)
    /\ \/ t = "rtsp" /\ pc = "stream"
       \/ t = "decode" /\ pc = "connect"
    /\ pend' = [pend EXCEPT ![t] = [at |-> IF open THEN "open" ELSE "shut",
                                    state |-> "INVALID",
                                    cause |-> IF open THEN "degraded" ELSE "disconnect"]]
    /\ order' = Append(order, t)
    /\ UNCHANGED <<flag, slotVars, decoderVars, rtspVars, reporterVars, left, since>>

\* What it then decides: nothing to watch any more, a deadline to start or to wait for, or
\* reportInitSeedFault, with the clock reading it came in with.
GateDecide(t) ==
    LET open == pend[t].at = "open"
        deadline == IF open THEN watch.seed ELSE watch.idr
        late == deadline = "passed" /\ ~(open /\ ~flag)
    IN  /\ pend[t].at \in {"open", "shut"}
        /\ watch' = IF open /\ ~flag THEN [watch EXCEPT !.done = TRUE]
                    ELSE IF late THEN [watch EXCEPT !.done = TRUE]
                    ELSE IF deadline = "unset" /\ open THEN [watch EXCEPT !.seed = "running"]
                    ELSE IF deadline = "unset" THEN [watch EXCEPT !.idr = "running"]
                    ELSE watch
        /\ IF late THEN pend' = [pend EXCEPT ![t].at = "stamped"] /\ UNCHANGED order
           ELSE pend' = [pend EXCEPT ![t] = Idle] /\ order' = SelectSeq(order, LAMBDA u : u # t)
        /\ UNCHANGED <<flag, slotVars, decoderVars, dwell, idrSeen, reporterVars, left, since>>

\* Time runs past one of the watchdog's deadlines.
DeadlinePasses ==
    /\ \/ watch.idr = "running" /\ watch' = [watch EXCEPT !.idr = "passed"]
       \/ watch.seed = "running" /\ watch' = [watch EXCEPT !.seed = "passed"]
    /\ UNCHANGED <<flagVars, slotVars, decoderVars, dwell, idrSeen, reporterVars, left, since>>

-----------------------------------------------------------------------------
(* The reporter thread: runLoop. *)

ReinforceDue ==
    /\ ~due /\ due' = TRUE
    /\ UNCHANGED <<flagVars, slotVars, decoderVars, rtspVars, retry, rpc, evt, stopping, linked,
                   pss, left, since>>

\* The wait ends: work, a stop, the retry deadline or the reinforcement deadline.
Wake ==
    /\ rpc = "wait" /\ (work \/ stopping \/ retry \/ due)
    /\ work' = FALSE /\ rpc' = "drain"
    /\ UNCHANGED <<flagVars, slot, dirty, decoderVars, rtspVars, retry, due, evt, stopping,
                   linked, pss, left, since>>

Drain ==
    /\ rpc = "drain"
    /\ dirty' = FALSE
    /\ IF dirty THEN evt' = BuildEvent(slot) /\ rpc' = "send"
       ELSE rpc' = "passed" /\ UNCHANGED evt
    /\ UNCHANGED <<flagVars, slot, work, decoderVars, rtspVars, retry, due, stopping,
                   linked, pss, left, since>>

\* sendWithRetry: an attempt PSS accepts.  The client library only ever uses the socket of
\* the registration.
SendOk ==
    /\ rpc = "send" /\ linked
    /\ pss' = evt /\ evt' = NoEvent /\ retry' = FALSE /\ rpc' = "passed"
    /\ UNCHANGED <<flagVars, slotVars, decoderVars, rtspVars, due, stopping, linked, left, since>>

\* All its attempts fail; over a live socket the last may have reached PSS all the same, over
\* a dead one nothing does.
SendFails ==
    /\ rpc = "send"
    /\ \/ linked /\ left.fails > 0 /\ pss' \in {pss, evt} /\ left' = [left EXCEPT !.fails = @ - 1]
       \/ ~linked /\ UNCHANGED <<pss, left>>
    /\ dirty' = TRUE /\ evt' = NoEvent /\ retry' = TRUE /\ rpc' = "passed"
    /\ UNCHANGED <<flagVars, slot, work, decoderVars, rtspVars, due, stopping, linked, since>>

\* Mutant: nothing is re-asserted.
PassEndsOnly ==
    /\ rpc = "passed"
    /\ rpc' = IF stopping THEN "done" ELSE "wait"
    /\ due' = FALSE
    /\ UNCHANGED <<flagVars, slotVars, decoderVars, rtspVars, retry, evt, stopping, linked, pss,
                   left, since>>

\* The end of a pass: leave if asked to, reinforce if it is time, else wait.  Reinforcing,
\* emitReinforcement reads the clock first.
PassEnds ==
    /\ rpc = "passed"
    /\ rpc' = IF stopping THEN "done" ELSE IF due THEN "reinforce" ELSE "wait"
    /\ IF ~stopping /\ due
       THEN /\ due' = FALSE /\ order' = Append(order, "reporter")
            /\ since' = IF pc \in {"connect", "down"} /\ Free("decode") THEN "begun" ELSE since
       ELSE UNCHANGED <<due, order, since>>
    /\ UNCHANGED <<flag, pend, slotVars, decoderVars, rtspVars, retry, evt, stopping, linked, pss,
                   left>>

\* emitReinforcement reads the flag; the cause of the slot is kept.
Reinforce ==
    /\ rpc = "reinforce" /\ Free("reporter")
    /\ pend' = [pend EXCEPT !["reporter"] =
                  [at |-> "stamped", state |-> IF flag THEN "INVALID" ELSE "VALID",
                   cause |-> "keep"]]
    /\ UNCHANGED <<flag, order, slotVars, decoderVars, rtspVars, reporterVars, left, since>>

\* main, once every pipeline thread is joined: SafetyEventReporter::stop
StopReporter ==
    /\ pc \in {"down", "left"} /\ Free("decode") /\ ~stopping
    /\ stopping' = TRUE /\ work' = TRUE
    /\ UNCHANGED <<flagVars, slot, dirty, decoderVars, rtspVars, retry, due, rpc, evt, linked,
                   pss, left, since>>

\* PSS restarts and knows nothing of the camera.  The socket of the registration died with
\* it, registerPSS runs only once and heartbeatLoop only logs that its heartbeats fail.
PssRestarts ==
    /\ linked /\ linked' = FALSE
    /\ pss' = NoEvent
    /\ UNCHANGED <<flagVars, slotVars, decoderVars, rtspVars, retry, due, rpc, evt, stopping,
                   left, since>>

-----------------------------------------------------------------------------
DecodeStep ==
    \/ InitPipeline \/ ConnectFails \/ GiveUp \/ LeaveLoop \/ CreateParser \/ ParserFails
    \/ \E score \in {"low", "mid", "high"}, step \in 1..MaxStep : Frame(score, step)
    \/ \E rebuilt \in BOOLEAN : FrameFailure(rebuilt)
    \/ SequenceStarts \/ SequenceRefused \/ StreamEnds

RtspStep ==
    \/ FuaAlert \/ DwellEnds \/ GateOpens \/ DeadlinePasses
    \/ \E t \in {"decode", "rtsp"} : GateTick(t) \/ GateDecide(t)

ReportStep == \E t \in Threads : Stamp(t) \/ UpdateSlot(t)

ReporterStep == Wake \/ Drain \/ SendOk \/ SendFails \/ PassEnds \/ Reinforce

Next ==
    \/ DecodeStep \/ RtspStep \/ ReportStep \/ ReporterStep
    \/ ReinforceDue \/ Signal \/ StopReporter \/ PssRestarts

\* Threads inside update_slot and the reporter thread are scheduled, a report is answered or
\* fails, and the reinforcement interval passes.
Fairness ==
    /\ \A t \in Threads : WF_vars(Stamp(t)) /\ WF_vars(UpdateSlot(t))
    /\ WF_vars(Wake) /\ WF_vars(Drain) /\ WF_vars(SendOk \/ (~linked /\ SendFails))
    /\ WF_vars(PassEnds) /\ WF_vars(Reinforce) /\ WF_vars(ReinforceDue)

Spec == Init /\ [][Next]_vars /\ Fairness

-----------------------------------------------------------------------------
Events == [state : {"INVALID", "VALID", "none"}, cause : Causes \cup {"none", "keep"}]

SaimTypeOK ==
    /\ flag \in BOOLEAN /\ dirty \in BOOLEAN /\ work \in BOOLEAN
    /\ slot \in [state : {"INVALID", "VALID"}, cause : Causes]
    /\ \A t \in Threads : [state |-> pend[t].state, cause |-> pend[t].cause] \in Events
    /\ \A i, j \in DOMAIN order : order[i] = order[j] => i = j
    /\ pc \in {"init", "connect", "stream", "down", "left"}
    /\ counter \in 0..CounterMax /\ errors \in 0..MaxErrors /\ reinits \in 0..MaxReinits
    /\ evt \in Events /\ pss \in Events

(* What the reporter leaves behind when it rests or ends without anything  *)
(* owed is what PSS has, unless PSS restarted since: no verdict is lost to *)
(* a failed send or to an update that comes while one is being sent.       *)
Mirrored == ~dirty /\ rpc \in {"wait", "done"} => pss \in {NoEvent, BuildEvent(slot)}

(* A verdict PSS does not have yet always has something that will wake the *)
(* reporter: runLoop never sleeps on a dirty slot up to its 30 s timer.    *)
DirtyWakes == dirty /\ rpc = "wait" => work \/ retry

(* A camera is trusted only after enough good frames of this very session  *)
(* to drain the counter from its top (createParser).                       *)
TrustEarned == ~flag /\ pc = "stream" => good * MaxStep >= CounterMax

(* Once its stream is gone and a whole reinforcement has run, the camera's *)
(* slot says INVALID, whichever thread reported last (emitReinforcement):  *)
(* between sessions and after a thread that gave up.  A process told to    *)
(* stop in the middle of a session (pc = "left") promises nothing: it      *)
(* leaves the flag as it was.                                              *)
LostStreamHeld == pc \in {"connect", "down"} /\ since = "yes" => slot.state = "INVALID"

(* After a permanent fault of its analyzer no camera becomes trusted again *)
(* (analyze, handleFrameFailure).                                          *)
FaultFinal == [][fault => fault' /\ (flag => flag')]_vars

(* A verdict that stays is the one PSS ends up with, through refused       *)
(* reports and races of the producers, while the connection to PSS lasts   *)
(* (runLoop, emitReinforcement).                                           *)
Healed ==
    \A b \in BOOLEAN :
        <>[](flag = b /\ ~stopping /\ linked) => <>[](pss.state = IF b THEN "INVALID" ELSE "VALID")

(* What the header of the reporter says of its 30 s timer, "self-healing   *)
(* after PSS restarts": a verdict that stays is the one PSS ends up with,  *)
(* whatever became of PSS in between.                                      *)
SelfHealing ==
    \A b \in BOOLEAN :
        <>[](flag = b /\ ~stopping) => <>[](pss.state = IF b THEN "INVALID" ELSE "VALID")

(* Once no update is in progress, slot and flag say the same.              *)
Agrees == (\A t \in Threads : Free(t)) => (slot.state = "INVALID" <=> flag)

(* The comment of setupFuaCallback: with the flag already set "PSS already *)
(* knows we are INVALID": the slot says so once no update is in progress.  *)
SuppressionKnown ==
    flag /\ (\A t \in Threads : Free(t)) => slot.state = "INVALID"
=============================================================================
