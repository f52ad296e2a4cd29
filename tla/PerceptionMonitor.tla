-------------------------- MODULE PerceptionMonitor --------------------------
(***************************************************************************)
(* The perception monitor (PCM) in ACTIVE mode: the container-health       *)
(* thread, the data validation monitor (DVM) over its Kafka source, and    *)
(* the evaluator that combines their latest reports once a second into the *)
(* AI_PIPELINE verdict told to PSS.                                        *)
(*                                                                         *)
(* What Docker answers and what Kafka delivers are inputs.  Report ages    *)
(* are counted in evaluator ticks.  A camera's window keeps its frame, bad *)
(* and fresh counts, capped at WindowFrames.                               *)
(***************************************************************************)
EXTENDS Integers, FiniteSets

CONSTANTS
    Containers,    \* the listed containers
    Cameras,       \* the cameras of the baseline
    Strangers,     \* cameras not in the baseline
    BadTicks, GoodTicks, InitialTicks, MaxReportAge, ResendTicks,  \* pcm_monitor.cfg
    BadPercent,    \* bad_frames_percent
    MinFresh,      \* the fresh frames a window needs: half the learned rate
    DecodeLimit,   \* kMaxConsecutiveDecodeFailures
    WindowFrames,  \* bound: frames of a camera in a window
    MaxSendFails   \* bound: reports PSS refuses

VARIABLES
    checks,     \* the checks that run: enabled, with a container list and with a baseline
    boxes,      \* per container: [seen, starting, faulted]
    source,     \* the DVM thread: [down, cut, corrupt, corruptWin, fails]
    counts,     \* the window: per camera [total, bad, fresh]
    firstSeen,  \* per baseline camera: never, now (this window), before
    report,     \* per check: [has, verdict, age, new]
    check,      \* the evaluator's view of a check: [stuck, contributing, owes]
    state,      \* Starting, Valid, Invalid
    badRun, goodRun,
    sent,       \* the reporter: [has, invalid, ago]
    told,       \* what PSS was last told
    sendFails,
    blamed,     \* history: checks seen bad while Invalid and not good since
    garbled,    \* history: undecodable data since the last decoded frame
    lost,       \* history: an outage since the last decoded frame
    gap         \* history: the source was unavailable in this window

ghosts == <<garbled, lost, gap>>
dvmVars == <<source, counts, firstSeen, ghosts>>
evalVars == <<checks, check, state, badRun, goodRun, blamed>>
tellVars == <<sent, told, sendFails>>
vars == <<checks, boxes, source, counts, firstSeen, report, check, state, badRun, goodRun, sent, told,
          sendFails, blamed, garbled, lost, gap>>

AllChecks == {"health", "dvm"}
NoFrames == [total |-> 0, bad |-> 0, fresh |-> 0]

Init ==
    /\ checks \in SUBSET AllChecks
    /\ boxes = [c \in Containers |-> [seen |-> FALSE, starting |-> "no", faulted |-> FALSE]]
    /\ source = [down |-> FALSE, cut |-> FALSE, corrupt |-> FALSE, corruptWin |-> FALSE,
                 fails |-> 0]
    /\ counts = [s \in Cameras \cup Strangers |-> NoFrames]
    /\ firstSeen = [s \in Cameras |-> "never"]
    /\ report = [k \in checks |-> [has |-> FALSE, verdict |-> "Off", age |-> 0, new |-> FALSE]]
    /\ check = [k \in checks |-> [stuck |-> FALSE, contributing |-> FALSE, owes |-> FALSE]]
    /\ state = "Starting" /\ badRun = 0 /\ goodRun = 0
    /\ sent = [has |-> FALSE, invalid |-> FALSE, ago |-> 0]
    /\ told = "nothing" /\ sendFails = 0 /\ blamed = {} /\ garbled = FALSE
    /\ lost = FALSE /\ gap = FALSE

\* PcmFaultAggregator::record
Record(k, verdict) ==
    report' = [report EXCEPT ![k] = [has |-> TRUE, verdict |-> verdict, age |-> 0, new |-> TRUE]]

-----------------------------------------------------------------------------
(* The container-health thread.  Docker answers for a container: gone,     *)
(* fault (isLifecycleFault), starting or ok; or for none of them.          *)

\* A container that reports starting is given containerStartupGraceMs.
StartingNext(box, answer) ==
    IF answer # "starting" THEN {"no"}
    ELSE IF box.starting = "no" THEN {"new"}
    ELSE IF box.starting = "late" THEN {"late"} ELSE {"new", "late"}

\* Whether a container seen in this run is at fault
BoxFault(box, answer, starting) ==
    \/ answer \in {"gone", "fault"}
    \/ answer = "starting" /\ (box.faulted \/ starting = "late")

\* ContainerHealthChecker::check with an answer for every container
CheckHealth(answer) ==
    /\ "health" \in checks
    /\ \E starting \in [Containers -> {"no", "new", "late"}] :
        LET Seen(c) == boxes[c].seen \/ answer[c] # "gone"
            Fault(c) == Seen(c) /\ BoxFault(boxes[c], answer[c], starting[c])
            Waiting(c) == Seen(c) /\ answer[c] = "starting" /\ ~Fault(c)
        IN  /\ \A c \in Containers :
                  starting[c] \in IF Seen(c) THEN StartingNext(boxes[c], answer[c]) ELSE {"no"}
            /\ boxes' = [c \in Containers |->
                  [seen |-> Seen(c), starting |-> starting[c],
                   faulted |-> IF Waiting(c) THEN boxes[c].faulted ELSE Fault(c)]]
            /\ Record("health", IF \E c \in Containers : Fault(c) THEN "Bad"
                                ELSE IF ~(\E c \in Containers : Seen(c))
                                        \/ (\E c \in Containers : Waiting(c)) THEN "Off"
                                ELSE "Good")
    /\ UNCHANGED <<dvmVars, evalVars, tellVars>>

\* The Docker socket is unreachable or its API fails: no verdict.
DockerFails ==
    /\ "health" \in checks
    /\ Record("health", "Off")
    /\ UNCHANGED <<boxes, dvmVars, evalVars, tellVars>>

-----------------------------------------------------------------------------
(* The DVM thread. *)

\* runLoop, a decoded frame.  isFreshObservation: a repeated or late frame of a camera is not
\* progress.  evaluateFrame: an unknown camera's frames are all bad.
Frame(s, bad, fresh) ==
    /\ "dvm" \in checks /\ counts[s].total < WindowFrames
    /\ s \in Strangers => bad
    /\ source' = [source EXCEPT !.down = FALSE, !.corrupt = FALSE, !.fails = 0]
    /\ garbled' = FALSE /\ lost' = FALSE /\ UNCHANGED gap
    /\ firstSeen' = IF s \in Cameras /\ firstSeen[s] = "never"
                    THEN [firstSeen EXCEPT ![s] = "now"] ELSE firstSeen
    /\ counts' = [counts EXCEPT ![s] = [total |-> @.total + 1,
                                        bad |-> @.bad + (IF bad THEN 1 ELSE 0),
                                        fresh |-> @.fresh + (IF fresh THEN 1 ELSE 0)]]
    /\ UNCHANGED <<boxes, report, evalVars, tellVars>>

\* KafkaFrameSource::poll, a message that cannot be decoded: a data fault after DecodeLimit
Undecodable ==
    LET fails == IF source.fails < DecodeLimit THEN source.fails + 1 ELSE source.fails
        fault == fails >= DecodeLimit
    IN  /\ "dvm" \in checks
        /\ source' = [source EXCEPT !.fails = fails, !.corrupt = @ \/ fault,
                                    !.corruptWin = @ \/ fault]
        /\ garbled' = (garbled \/ fault)
        /\ UNCHANGED <<boxes, counts, firstSeen, report, evalVars, tellVars, lost, gap>>

\* poll: the consumer cannot be created, or a receive fails and it is destroyed
Disconnected ==
    /\ "dvm" \in checks
    /\ source' \in {[source EXCEPT !.down = TRUE, !.cut = TRUE],
                    [source EXCEPT !.down = TRUE, !.cut = TRUE, !.fails = 0]}
    /\ lost' = TRUE /\ gap' = TRUE
    /\ UNCHANGED <<boxes, counts, firstSeen, report, evalVars, tellVars, garbled>>

\* percentageReached
PercentageReached(bad, total) == total # 0 /\ bad * 100 >= total * BadPercent

\* checkFrameRate: a camera that was sending before this window has sent too little
LowRate == \E s \in Cameras : firstSeen[s] = "before" /\ counts[s].fresh < MinFresh

\* closeWindow
WindowVerdict ==
    IF source.down THEN "Off"
    ELSE IF \/ \E s \in DOMAIN counts : PercentageReached(counts[s].bad, counts[s].total)
            \/ LowRate
    THEN "Bad"
    ELSE IF \A s \in Cameras : firstSeen[s] = "never" THEN "Off" ELSE "Good"

Verdict == IF source.corruptWin THEN "Bad" ELSE IF source.cut THEN "Off" ELSE WindowVerdict

\* runLoop, a window of kDvmWindowMs is over
CloseWindow ==
    /\ "dvm" \in checks
    /\ Record("dvm", Verdict)
    /\ source' = [source EXCEPT !.cut = source.down, !.corruptWin = source.corrupt]
    /\ counts' = [s \in DOMAIN counts |-> NoFrames]
    /\ firstSeen' = [s \in Cameras |-> IF firstSeen[s] = "now" THEN "before" ELSE firstSeen[s]]
    /\ gap' = lost
    /\ UNCHANGED <<boxes, evalVars, tellVars, garbled, lost>>

-----------------------------------------------------------------------------
(* The evaluator. *)

Stuck(k) == report[k].age > MaxReportAge

\* What a check contributes to this tick
Contribution(k) ==
    IF Stuck(k) \/ ~report[k].has \/ report[k].verdict = "Off" THEN "None"
    ELSE IF report[k].verdict = "Good" /\ ~report[k].new THEN "GoodNoNewReport"
    ELSE report[k].verdict

\* Mutant: a check that loses its verdict owes nothing.
AssessForgives(k) ==
    [stuck |-> Stuck(k), contributing |-> Contribution(k) # "None", owes |-> FALSE]

\* assessCheck: a check that stops contributing while Invalid owes a good report.
Assess(k) ==
    LET contributes == Contribution(k) # "None"
        owes == check[k].owes \/ (state = "Invalid" /\ check[k].contributing /\ ~contributes)
    IN  [stuck |-> Stuck(k), contributing |-> contributes,
         owes |-> owes /\ Contribution(k) # "Good"]

AnyBad == \E k \in checks : Contribution(k) = "Bad"

\* A tick that counts towards Valid: some check is good, none is bad, unrenewed, unheard of,
\* stuck or owing.
GoodTick ==
    /\ ~AnyBad /\ \E k \in checks : Contribution(k) = "Good"
    /\ \A k \in checks : /\ Contribution(k) # "GoodNoNewReport"
                         /\ report[k].has /\ ~Assess(k).stuck /\ ~Assess(k).owes

MaxOf(a, b) == IF a > b THEN a ELSE b
BadRun == IF AnyBad THEN (IF badRun < BadTicks THEN badRun + 1 ELSE badRun) ELSE 0

GoodRun == IF AnyBad THEN 0
           ELSE IF GoodTick /\ goodRun < MaxOf(GoodTicks, InitialTicks) THEN goodRun + 1
           ELSE goodRun

StateNext ==
    IF state # "Invalid" /\ BadRun >= BadTicks THEN "Invalid"
    ELSE IF state = "Starting" /\ GoodRun > 0 /\ GoodRun >= InitialTicks THEN "Valid"
    ELSE IF state = "Invalid" /\ GoodRun > 0 /\ GoodRun >= GoodTicks THEN "Valid"
    ELSE state

\* reportIfStateChanged: the first verdict, every change, and repeats
ReportDue(invalid) == ~sent.has \/ invalid # sent.invalid \/ sent.ago >= ResendTicks

Tell(s) ==
    LET invalid == s = "Invalid"
        aged == [sent EXCEPT !.ago = IF @ < ResendTicks THEN @ + 1 ELSE @]
    IN  IF s = "Starting" \/ ~ReportDue(invalid)
        THEN sent' = aged /\ UNCHANGED <<told, sendFails>>
        ELSE \/ /\ sent' = [has |-> TRUE, invalid |-> invalid, ago |-> 1]
                /\ told' = s /\ UNCHANGED sendFails
             \/ /\ sendFails < MaxSendFails /\ sendFails' = sendFails + 1
                /\ sent' = aged /\ UNCHANGED told

\* evaluateTick
Tick ==
    /\ check' = [k \in checks |-> Assess(k)]
    /\ report' = [k \in checks |->
                    [report[k] EXCEPT !.new = FALSE,
                                      !.age = IF @ <= MaxReportAge THEN @ + 1 ELSE @]]
    /\ badRun' = BadRun /\ goodRun' = GoodRun /\ state' = StateNext
    /\ blamed' = {k \in checks : \/ Contribution(k) = "Bad" /\ state = "Invalid"
                                 \/ k \in blamed /\ Contribution(k) # "Good"}
    /\ Tell(StateNext)
    /\ UNCHANGED <<checks, boxes, dvmVars>>

-----------------------------------------------------------------------------
Answers == {"gone", "fault", "starting", "ok"}

HealthNext == (\E a \in [Containers -> Answers] : CheckHealth(a)) \/ DockerFails
DvmNext ==
    \/ \E s \in Cameras \cup Strangers, bad, fresh \in BOOLEAN : Frame(s, bad, fresh)
    \/ Undecodable \/ Disconnected \/ CloseWindow

Next == HealthNext \/ DvmNext \/ Tick

\* The evaluator ticks for as long as the process lives.
Spec == Init /\ [][Next]_vars /\ WF_vars(Tick)

-----------------------------------------------------------------------------
PcmTypeOK ==
    /\ state \in {"Starting", "Valid", "Invalid"}
    /\ badRun \in 0..BadTicks /\ goodRun \in 0..MaxOf(GoodTicks, InitialTicks)
    /\ source.fails \in 0..DecodeLimit
    /\ \A k \in checks : report[k].age \in 0..(MaxReportAge + 1)
    /\ told \in {"nothing", "Valid", "Invalid"} /\ (told = "nothing" <=> ~sent.has)

(* The pipeline recovers only once every check that was seen bad while it  *)
(* was invalid has reported good again: a check that goes off or silent    *)
(* does not take its fault with it (assessCheck).                          *)
RecoveryEarned == [][state = "Invalid" /\ state' = "Valid" => blamed' = {}]_vars

(* The pipeline never becomes valid on a tick at which an enabled check    *)
(* has never reported or has been silent for longer than max_report_age    *)
(* (evaluateTick).                                                         *)
SilenceBlocks ==
    [][state # "Valid" /\ state' = "Valid"
         => \A k \in checks : report[k].has /\ report[k].age <= MaxReportAge]_vars

\* A step that closes a window with another report than the last
Closes == "dvm" \in checks /\ report'["dvm"] # report["dvm"] /\ report'["dvm"].new

(* Undecodable data stays a fault until a frame is decoded, through        *)
(* silence and outages: every window report in between is bad (runLoop).   *)
CorruptionStands == [][garbled /\ Closes => report'["dvm"].verdict = "Bad"]_vars

(* A window in which the source was unavailable, or that began in an       *)
(* outage, blames no camera: without undecodable data its report is off    *)
(* (runLoop, closeWindow).                                                 *)
OutageBlameless ==
    [][gap /\ ~source.corruptWin /\ Closes => report'["dvm"].verdict = "Off"]_vars

(* A check that goes on reporting bad gets PSS told, and kept told, that   *)
(* the pipeline is invalid, although PSS may refuse a report               *)
(* (evaluateTick, reportIfStateChanged).                                   *)
StandingFaultTold ==
    <>[](\E k \in checks : report[k].has /\ report[k].verdict = "Bad" /\ ~Stuck(k))
        => <>[](told = "Invalid")
=============================================================================
