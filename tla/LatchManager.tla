----------------------------- MODULE LatchManager -----------------------------
(***************************************************************************)
(* The safety-latch manager (safety_latch_manager.py) beside an ATL SDM: it *)
(* follows the SDM's log, rebuilds from its lines why the safe state is     *)
(* latched, and asks the command receiver for a release, by itself or for   *)
(* an operator (safety_latch_panel.py) who presses a button.                *)
(*                                                                         *)
(* The SDM is here only through its log (the actions Sdm...); a line has,   *)
(* as history, the state the SDM was in when it wrote it.  The manager has  *)
(* a main thread (Observe, Tick) and a request thread (Press) under one     *)
(* lock.  Time is abstract: a recovered cause settles (its dwell is over),  *)
(* and a first press ripens (CONFIRM_MIN_SEC) and expires, at any moment.   *)
(***************************************************************************)
EXTENDS Integers, Sequences, FiniteSets

CONSTANTS
    AutoCauses,    \* CAUSES with auto=True, beside "sensors"
    ManualCauses,  \* CAUSES with auto=False
    Pipelines,     \* the safety cameras
    MaxPersons,    \* bound: persons the SDM counts
    MaxUnread,     \* bound: lines of the log the manager is behind
    MaxAttempts    \* --max-attempts

ASSUME LatchAssumption ==
    /\ MaxPersons \in Nat /\ MaxUnread \in Nat \ {0} /\ MaxAttempts \in Nat \ {0}
    /\ {"sensors", "unnamed"} \cap (AutoCauses \cup ManualCauses) = {} /\ AutoCauses \cap ManualCauses = {}

Autos == AutoCauses \cup {"sensors"}
Causes == Autos \cup ManualCauses
Unknown == -1

VARIABLES
    sdmState,      \* the SDM: latch, active causes, failed cameras, occupancy
    log,      \* lines the manager has not read
    snap,     \* the SDM at the last decision snapshot in the log, <<>> before the first
    onWire,     \* a release is on its way to the SDM
    m,        \* LatchReleaser
    seen,     \* history: the SDM when it wrote the last line read
    faults,   \* history: the kinds of release sent without what should have warranted them
    looked    \* history: a first press stands, and no doubt was read since

latchVars == <<sdmState, log, snap, onWire, m, seen, faults, looked>>

-----------------------------------------------------------------------------
(* The SDM's log.                                                           *)

\* History: crossed, a forklift crossing was logged since the last latch or cause began; had,
\* the manual causes of this latch; again, one of them has begun a second time.
StartSdm == [latched |-> FALSE, active |-> {}, failed |-> {}, forklift |-> FALSE, persons |-> 0,
             violation |-> FALSE, crossed |-> TRUE, had |-> {}, again |-> FALSE]

Line(kind, what, s) == [kind |-> kind, what |-> what, sdm |-> s]

\* The SDM changes to s and writes lines; the manager is not so far behind.
Write(s, lines) ==
    /\ Len(log) + Len(lines) <= MaxUnread
    /\ sdmState' = s /\ log' = log \o lines
    /\ snap' = IF lines # <<>> /\ lines[1].kind = "snapshot" /\ ~m.backfilled THEN <<s>> ELSE snap
    /\ UNCHANGED <<m, seen, faults, looked>>

Begin(s, c) ==
    [s EXCEPT !.active = @ \cup {c}, !.latched = TRUE, !.crossed = FALSE,
              !.had = @ \cup ({c} \cap ManualCauses), !.again = @ \/ c \in s.had]

\* A cause none of CAUSES names (a lost source, an AI pipeline verdict): the log shows a latch.
SdmUnnamed ==
    /\ "unnamed" \notin sdmState.active
    /\ LET s == [sdmState EXCEPT !.active = @ \cup {"unnamed"}, !.latched = TRUE,
                            !.crossed = @ /\ sdmState.latched, !.had = @ \cup {"unnamed"}]
       IN  Write(s, <<Line("latch", {}, s)>>)
    /\ UNCHANGED onWire

\* A cause begins and ends; the end of a manual or unnamed one is in no line CAUSES matches.
SdmOnset(c) ==
    /\ c \in (AutoCauses \cup ManualCauses) \ sdmState.active
    /\ Write(Begin(sdmState, c), <<Line("onset", c, Begin(sdmState, c))>>) /\ UNCHANGED onWire

SdmRecovery(c) ==
    /\ c \in AutoCauses \cap sdmState.active
    /\ LET s == [sdmState EXCEPT !.active = @ \ {c}] IN Write(s, <<Line("recovery", c, s)>>)
    /\ UNCHANGED onWire

SdmClears(c) ==
    /\ c \in (ManualCauses \cup {"unnamed"}) \cap sdmState.active
    /\ Write([sdmState EXCEPT !.active = @ \ {c}], <<>>) /\ UNCHANGED onWire

\* A camera fails; when it is the last, the all-failed condition follows on a line of its own.
SdmCameraFails(p) ==
    /\ p \in Pipelines \ sdmState.failed
    /\ LET s == [sdmState EXCEPT !.failed = @ \cup {p}]
           all == s.failed = Pipelines
       IN  Write(IF all THEN Begin(s, "sensors") ELSE s,
                 <<Line("failed", p, s)>>
                 \o (IF all THEN <<Line("onset", "sensors", Begin(s, "sensors"))>> ELSE <<>>))
    /\ UNCHANGED onWire

\* One recovers; the all-failed condition ends with the first.
SdmCameraRecovers(p) ==
    /\ p \in sdmState.failed
    /\ LET s == [sdmState EXCEPT !.failed = @ \ {p}]
           t == [s EXCEPT !.active = @ \ {"sensors"}]
       IN  Write(t, <<Line("recovered", p, s)>>
                    \o (IF "sensors" \in sdmState.active THEN <<Line("recovery", "sensors", t)>> ELSE <<>>))
    /\ UNCHANGED onWire

\* The scene, logged also while latched.
SdmForklift ==
    /\ LET s == [sdmState EXCEPT !.forklift = ~@, !.crossed = TRUE] IN Write(s, <<Line("forklift", s.forklift, s)>>)
    /\ UNCHANGED onWire

SdmPersons(n) ==
    /\ n \in 0..MaxPersons /\ n \in {sdmState.persons - 1, sdmState.persons + 1}
    /\ LET s == [sdmState EXCEPT !.persons = n] IN Write(s, <<Line("persons", n, s)>>)
    /\ UNCHANGED onWire

SdmViolation ==
    /\ LET s == [sdmState EXCEPT !.violation = ~@] IN Write(s, <<Line("violation", s.violation, s)>>)
    /\ UNCHANGED onWire

\* The decision snapshot comes only without a latch, and not with a decision to mute; the
\* safe-hold line only with a latch.
SdmSays ==
    /\ sdmState.latched \/ ~sdmState.forklift \/ sdmState.persons > 0 \/ sdmState.violation
    /\ Write(sdmState, <<Line(IF sdmState.latched THEN "latch" ELSE "snapshot", {}, sdmState)>>) /\ UNCHANGED onWire

\* A release arrives: denied, or accepted, which forgets the occupancy, with or without a latch.
SdmAnswer ==
    /\ onWire /\ onWire' = FALSE
    /\ LET s == [StartSdm EXCEPT !.failed = sdmState.failed, !.crossed = sdmState.crossed] IN
       IF sdmState.active # {} THEN Write(sdmState, <<Line("denied", {}, sdmState)>>)
       ELSE Write(s, <<Line(IF sdmState.latched THEN "accepted" ELSE "noLatch", {}, s)>>)

\* The command is lost on the way, or its answer cannot be sent and the latch stays.
Lose == onWire /\ onWire' = FALSE /\ UNCHANGED <<sdmState, log, snap, m, seen, faults, looked>>

-----------------------------------------------------------------------------
(* Observation: _observe.                                                   *)

\* reset(): one episode.
Episode(r) ==
    [live |-> r.live, failed |-> r.failed, forklift |-> r.forklift, persons |-> r.persons,
     violation |-> r.violation, latched |-> FALSE, causes |-> [c \in Causes |-> "none"],
     backfilled |-> r.backfilled,
     unverified |-> FALSE, confirm |-> "none", gaveUp |-> FALSE, attempts |-> 0]

NewReleaser ==
    Episode([live |-> FALSE, failed |-> {}, forklift |-> Unknown, persons |-> Unknown, violation |-> Unknown,
             backfilled |-> FALSE])

Bit(b) == IF b THEN 1 ELSE 0

\* _observe_scene
Scene(r, l) ==
    CASE l.kind = "snapshot" -> [r EXCEPT !.forklift = Bit(l.sdm.forklift), !.persons = l.sdm.persons,
                                          !.violation = Bit(l.sdm.violation)]
      [] l.kind = "forklift" -> [r EXCEPT !.forklift = Bit(l.what), !.unverified = FALSE]
      [] l.kind = "persons" -> [r EXCEPT !.persons = l.what]
      [] l.kind = "violation" -> [r EXCEPT !.violation = Bit(l.what)]
      [] OTHER -> r

\* _doubt_forklift
DoubtForklift(r) == [r EXCEPT !.unverified = TRUE, !.confirm = "none"]

\* _note_cause: an onset of a cause not already pending is a new episode of it.
NoteCause(r, c) ==
    IF r.causes[c] = "pending" THEN r
    ELSE [DoubtForklift(r) EXCEPT !.latched = TRUE, !.causes[c] = "pending", !.gaveUp = FALSE]

\* The line "... entering safe hold", alone or as part of an onset.
NoteLatch(r) == IF r.latched THEN r ELSE DoubtForklift([r EXCEPT !.latched = TRUE])

\* The SDM accepted a release: the episode is over, and the SDM forgot the occupancy.
ReleaseAccepted(r) == Episode([r EXCEPT !.forklift = 0, !.persons = 0, !.violation = 0])

After(r, l) ==
    CASE l.kind = "failed" -> [r EXCEPT !.failed = @ \cup {l.what}]
      [] l.kind = "recovered" -> [r EXCEPT !.failed = @ \ {l.what}]
      [] l.kind = "accepted" -> ReleaseAccepted(r)
      [] l.kind = "onset" -> NoteLatch(NoteCause(r, l.what))
      [] l.kind = "recovery" -> [r EXCEPT !.causes[l.what] = IF @ = "pending" THEN "recovered" ELSE @]
      [] l.kind = "latch" -> NoteLatch(r)
      [] OTHER -> Scene(r, l)    \* a denial or a no-op ends a wait for the reply, and changes nothing else

\* One line; history builds state, and a recent line arms the releases.
Observe(old) ==
    /\ log # <<>>
    /\ old => ~m.live
    /\ log' = Tail(log)
    /\ m' = After([m EXCEPT !.live = @ \/ ~old], Head(log))
    /\ seen' = Head(log).sdm
    /\ looked' = (looked /\ m'.confirm # "none" /\ (seen'.crossed \/ ~seen.crossed) /\ seen'.latched)
    /\ UNCHANGED <<sdmState, snap, onWire, faults>>

\* Time: the dwell of a recovery, the ripening and the expiry of a press.
Settle ==
    /\ m' \in {[m EXCEPT !.causes[c] = "settled"] : c \in {x \in Causes : m.causes[x] = "recovered"}}
    /\ UNCHANGED <<sdmState, log, snap, onWire, seen, faults, looked>>

Ripen ==
    /\ m.confirm = "fresh" /\ m' = [m EXCEPT !.confirm = "ripe"]
    /\ UNCHANGED <<sdmState, log, snap, onWire, seen, faults, looked>>

Expire ==
    /\ m.confirm = "ripe" /\ m' = [m EXCEPT !.confirm = "none"] /\ looked' = FALSE
    /\ UNCHANGED <<sdmState, log, snap, onWire, seen, faults>>

-----------------------------------------------------------------------------
(* The gates.                                                               *)

SceneKnown == m.forklift # Unknown /\ m.persons # Unknown /\ m.violation # Unknown

\* _occupied: unknown is not occupied; the operator's look may stand for the forklift.
Occupied(ignoreForklift) ==
    (m.forklift = 1 /\ ~ignoreForklift) \/ m.persons > 0 \/ m.violation = 1

\* _sensors_blind
SensorsBlind == m.failed # {}

Known == {c \in Causes : m.causes[c] # "none"}

\* Mutant: the doubt about the forklift holds back no automatic release.
SafeToReleaseDoubtful ==
    /\ m.live /\ Known # {} /\ Known \subseteq Autos
    /\ \A c \in Known : m.causes[c] = "settled"
    /\ ~SensorsBlind /\ SceneKnown /\ ~Occupied(FALSE)

\* _safe_to_release
SafeToRelease ==
    /\ m.live /\ Known # {} /\ Known \subseteq Autos
    /\ \A c \in Known : m.causes[c] = "settled"
    /\ ~SensorsBlind /\ ~m.unverified
    /\ SceneKnown /\ ~Occupied(FALSE)

\* _can_operator_release
CanOperatorRelease == m.latched /\ m.live /\ ~Occupied(m.unverified) /\ ~SensorsBlind

\* _needs_confirm
NeedsConfirm == m.unverified \/ ~SceneKnown

-----------------------------------------------------------------------------
(* What the manager does.                                                   *)

\* What warrants a release, judged on the SDM as it was when it wrote the last line read.
AutoGround ==
    /\ seen.active \subseteq {"unnamed"} /\ seen.failed = {} /\ seen.crossed
    /\ ~seen.forklift /\ seen.persons = 0 /\ ~seen.violation

OperatorGround ==
    /\ seen.failed = {} /\ seen.persons = 0 /\ ~seen.violation
    /\ seen.crossed \/ looked \/ seen.again

\* The word reaches the receiver, which sends the command to the SDM (make_releaser).
Send(lacking) == onWire' = TRUE /\ faults' = faults \cup lacking

\* Or nothing reads its FIFO: no attempt is spent.
NotSent == UNCHANGED <<onWire, faults>>

\* Only what is still unknown is filled.
Fill(old, new) == IF old = Unknown THEN new ELSE old

\* backfill_scene: once, from the last snapshot in the log.
BackfillScene ==
    /\ m.live /\ ~m.backfilled
    /\ m' = IF snap = <<>> THEN [m EXCEPT !.backfilled = TRUE]
         ELSE [m EXCEPT !.backfilled = TRUE, !.forklift = Fill(@, Bit(snap[1].forklift)),
                        !.persons = Fill(@, snap[1].persons), !.violation = Fill(@, Bit(snap[1].violation))]
    /\ snap' = <<>>    \* not read again
    /\ UNCHANGED <<sdmState, log, onWire, seen, faults, looked>>

\* _tick: the gate holds the latch; a cause for a human, or none in time, is handed over ...
TickHold ==
    /\ m.latched /\ m.live /\ ~m.gaveUp /\ ~SafeToRelease
    /\ \E late \in BOOLEAN :    \* --identify-sec is over
           m' = [m EXCEPT !.gaveUp = (Known = {} /\ late) \/ ~(Known \subseteq Autos)]
    /\ UNCHANGED <<sdmState, log, snap, onWire, seen, faults, looked>>

\* ... as is one the SDM refused too often ...
TickGiveUp ==
    /\ m.latched /\ m.live /\ ~m.gaveUp /\ SafeToRelease /\ m.attempts >= MaxAttempts
    /\ m' = [m EXCEPT !.gaveUp = TRUE]
    /\ UNCHANGED <<sdmState, log, snap, onWire, seen, faults, looked>>

\* ... and otherwise it is released.
TickRelease ==
    /\ m.latched /\ m.live /\ ~m.gaveUp /\ SafeToRelease /\ m.attempts < MaxAttempts
    /\ \/ Send((IF AutoGround THEN {} ELSE {"auto"})
                \cup (IF "unnamed" \in seen.had THEN {"unnamed"} ELSE {})) /\ m' = [m EXCEPT !.attempts = @ + 1]
       \/ NotSent /\ UNCHANGED m
    /\ UNCHANGED <<sdmState, log, snap, seen, looked>>

\* _confirm_step: a press too early, too late or alone only arms the next one.
Arm ==
    /\ CanOperatorRelease /\ NeedsConfirm /\ m.confirm # "ripe"
    /\ m' = [m EXCEPT !.confirm = "fresh"] /\ looked' = TRUE
    /\ UNCHANGED <<sdmState, log, snap, onWire, seen, faults>>

\* request_manual_release, confirmed where it must be.
Press ==
    /\ CanOperatorRelease
    /\ NeedsConfirm => m.confirm = "ripe"
    /\ looked' = FALSE
    /\ \/ /\ Send((IF OperatorGround THEN {} ELSE {"operator"})
                \cup (IF seen.crossed \/ looked THEN {} ELSE {"doubt"}))
          /\ m' = [m EXCEPT !.attempts = IF @ < MaxAttempts THEN @ + 1 ELSE @,
                            !.confirm = "none", !.gaveUp = FALSE]
       \/ NotSent /\ m' = [m EXCEPT !.confirm = IF NeedsConfirm THEN "none" ELSE @]
    /\ UNCHANGED <<sdmState, log, snap, seen>>

-----------------------------------------------------------------------------

LatchInit ==
    /\ sdmState = StartSdm /\ log = <<>> /\ snap = <<>> /\ onWire = FALSE
    /\ m = NewReleaser /\ seen = StartSdm
    /\ faults = {} /\ looked = FALSE

ManagerNext ==
    \/ \E old \in BOOLEAN : Observe(old)
    \/ BackfillScene \/ Settle \/ Ripen \/ Expire
    \/ TickHold \/ TickGiveUp \/ TickRelease \/ Arm \/ Press

SdmNext ==
    \/ \E c \in AutoCauses \cup ManualCauses : SdmOnset(c) \/ SdmRecovery(c)
    \/ \E c \in ManualCauses \cup {"unnamed"} : SdmClears(c)
    \/ \E p \in Pipelines : SdmCameraFails(p) \/ SdmCameraRecovers(p)
    \/ \E n \in 0..MaxPersons : SdmPersons(n)
    \/ SdmUnnamed \/ SdmForklift \/ SdmViolation \/ SdmSays \/ SdmAnswer \/ Lose

LatchNext == SdmNext \/ ManagerNext

LatchSpec == LatchInit /\ [][LatchNext]_latchVars

-----------------------------------------------------------------------------
(* Properties.                                                              *)

\* The type invariant, with what an episode is: causes and doubt belong to a latch.
LatchTypeOK ==
    /\ m.failed \subseteq Pipelines /\ m.attempts \in 0..MaxAttempts
    /\ m.causes \in [Causes -> {"none", "pending", "recovered", "settled"}]
    /\ Known # {} \/ m.unverified \/ m.gaveUp => m.latched
    /\ m.confirm # "none" => m.live

\* An automatic release is warranted by the log: when the SDM wrote the last line the
\* manager had read, no cause that the log names was active, no camera had failed, the trailer was empty, and a forklift crossing
\* had been logged since the last cause or latch began.
AutoWarranted == "auto" \notin faults

\* An operator's release never happens on a failed camera or a person the log shows, and
\* where the log leaves the forklift in doubt the operator pressed before, after the doubt.
\* (A manual cause that begins again raises no doubt: see DoubtRenewed.)
OperatorWarranted == "operator" \notin faults

\* No release goes out without what warrants it, sent by the manager itself or by the
\* operator through it.
ReleaseWarranted == AutoWarranted /\ OperatorWarranted

\* Every cause that begins puts the forklift in doubt again, so that an operator's release
\* after it needs a crossing or a confirming press (_doubt_forklift: "Any cause can hide a
\* crossing").  A manual cause stays pending for the manager, which takes its second
\* beginning for a duplicate.
DoubtRenewed == "doubt" \notin faults

\* A latch with a cause the log does not name waits for a human (main: "plus any latch whose
\* cause does not appear in the log"), also when a cause it does name has come and gone.
UnnamedHeld == "unnamed" \notin faults

\* Once the manager has read every line, it knows the failed cameras, and believes the trailer
\* no emptier than the SDM does: no order of backfill, answers and events hides an occupant.
BeliefCurrent ==
    log = <<>> =>
        /\ m.failed = sdmState.failed
        /\ m.forklift = 0 => ~sdmState.forklift
        /\ m.persons = Unknown \/ m.persons >= sdmState.persons
        /\ m.violation = 0 => ~sdmState.violation
=============================================================================
