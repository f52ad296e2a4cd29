----------------------------- MODULE FusionHealth -----------------------------
(***************************************************************************)
(* The fusion-health fault of the safety event integrator daemon           *)
(* (NvPSSFusionHealthLatch): raised when a stage has failed Threshold      *)
(* times in a row, cleared when every stage is healthy.  Each stage runs   *)
(* on one thread.  The streak counters are lock-free; the raise and the    *)
(* clear are taken under edgeMutex_.  One step is one access to shared     *)
(* memory, or one critical section that makes a single access.             *)
(***************************************************************************)
EXTENDS Integers

CONSTANTS
    Threads,      \* the input-queue loop and the fusion loop
    NoThread,     \* edgeMutex_ is free
    Stages,       \* FusionStage
    Owner,        \* the thread a stage runs on
    ErrorMs,      \* fusionFailureErrorMs_: how long a stage may fail
    PeriodUs,     \* period of the loop a stage runs in
    StreakWidth,  \* 2^32: streak_ is a uint32_t
    MaxStreak     \* bound: no stage fails again once its streak is MaxStreak

ASSUME FusionConstants ==
    /\ NoThread \notin Threads
    /\ Owner \in [Stages -> Threads]
    /\ ErrorMs \in Nat
    /\ PeriodUs \in [Stages -> Nat]
    /\ StreakWidth \in Nat /\ StreakWidth > 2
    /\ MaxStreak \in Nat

VARIABLES
    streak,   \* streak_[stage]
    error,    \* error_
    holder,   \* the thread in edgeMutex_, if any
    pc,       \* where each thread is in noteFailure or noteSuccess
    stage,    \* the stage a thread is reporting
    todo      \* stages noteSuccess has still to find healthy

vars == <<streak, error, holder, pc, stage, todo>>

\* NvPSSFusionFailureStreakThreshold: at least two failures in a row.
StreakThreshold(errorMs, periodUs) ==
    LET iterations == (errorMs * 1000) \div periodUs
    IN  IF periodUs = 0 \/ iterations < 2 THEN 2
        ELSE IF iterations >= StreakWidth THEN StreakWidth - 1 ELSE iterations

Threshold == [s \in Stages |-> StreakThreshold(ErrorMs, PeriodUs[s])]

Init ==
    /\ streak = [s \in Stages |-> 0]
    /\ error = FALSE
    /\ holder = NoThread
    /\ pc = [t \in Threads |-> "idle"]
    /\ stage \in [Threads -> Stages]
    /\ todo = [t \in Threads |-> {}]

\* fetch_add on a uint32_t.
Bump(n) == IF n + 1 = StreakWidth THEN 0 ELSE n + 1

-----------------------------------------------------------------------------
(* noteFailure *)

\* The count; below the threshold that is all.
FailureCounted(t, s) ==
    /\ pc[t] = "idle" /\ Owner[s] = t
    /\ streak[s] < MaxStreak
    /\ streak' = [streak EXCEPT ![s] = Bump(@)]
    /\ stage' = [stage EXCEPT ![t] = s]
    /\ pc' = [pc EXCEPT ![t] = IF Bump(streak[s]) < Threshold[s] THEN "idle" ELSE "raise"]
    /\ UNCHANGED <<error, holder, todo>>

\* Mutation: the rising edge taken without edgeMutex_.
RaiseLockFree(t) ==
    /\ pc[t] = "raise"
    /\ error' = TRUE
    /\ pc' = [pc EXCEPT ![t] = "idle"]
    /\ UNCHANGED <<streak, holder, stage, todo>>

\* The rising edge, under the mutex.
Raise(t) ==
    /\ pc[t] = "raise" /\ holder = NoThread
    /\ error' = TRUE
    /\ pc' = [pc EXCEPT ![t] = "idle"]
    /\ UNCHANGED <<streak, holder, stage, todo>>

-----------------------------------------------------------------------------
(* noteSuccess *)

\* A healthy stage costs one load; otherwise its streak ends here.
StreakEnds(t, s) ==
    /\ pc[t] = "idle" /\ Owner[s] = t
    /\ streak[s] # 0
    /\ streak' = [streak EXCEPT ![s] = 0]
    /\ stage' = [stage EXCEPT ![t] = s]
    /\ pc' = [pc EXCEPT ![t] = "load"]
    /\ UNCHANGED <<error, holder, todo>>

\* Mutation: the clear is only attempted when edgeMutex_ is free (try_lock).
LoadErrorTryLock(t) ==
    /\ pc[t] = "load"
    /\ pc' = [pc EXCEPT ![t] = IF error /\ holder = NoThread THEN "lock" ELSE "idle"]
    /\ UNCHANGED <<streak, error, holder, stage, todo>>

LoadError(t) ==
    /\ pc[t] = "load"
    /\ pc' = [pc EXCEPT ![t] = IF error THEN "lock" ELSE "idle"]
    /\ UNCHANGED <<streak, error, holder, stage, todo>>

LockEdge(t) ==
    /\ pc[t] = "lock" /\ holder = NoThread
    /\ holder' = t
    /\ todo' = [todo EXCEPT ![t] = Stages]
    /\ pc' = [pc EXCEPT ![t] = "scan"]
    /\ UNCHANGED <<streak, error, stage>>

\* One load of the all-healthy loop; a failing stage ends it.
ScanStage(t, s) ==
    /\ pc[t] = "scan" /\ s \in todo[t]
    /\ IF streak[s] # 0
       THEN pc' = [pc EXCEPT ![t] = "unlock"] /\ UNCHANGED todo
       ELSE todo' = [todo EXCEPT ![t] = @ \ {s}] /\ UNCHANGED pc
    /\ UNCHANGED <<streak, error, holder, stage>>

ClearError(t) ==
    /\ pc[t] = "scan" /\ todo[t] = {}
    /\ error' = FALSE
    /\ pc' = [pc EXCEPT ![t] = "unlock"]
    /\ UNCHANGED <<streak, holder, stage, todo>>

Unlock(t) ==
    /\ pc[t] = "unlock"
    /\ holder' = NoThread
    /\ todo' = [todo EXCEPT ![t] = {}]
    /\ pc' = [pc EXCEPT ![t] = "idle"]
    /\ UNCHANGED <<streak, error, stage>>

-----------------------------------------------------------------------------
ThreadStep(t) ==
    \/ Raise(t) \/ LoadError(t) \/ LockEdge(t) \/ ClearError(t) \/ Unlock(t)
    \/ \E s \in Stages : ScanStage(t, s)

Next ==
    \E t \in Threads :
        \/ ThreadStep(t)
        \/ \E s \in Stages : FailureCounted(t, s) \/ StreakEnds(t, s)

Spec == Init /\ [][Next]_vars

-----------------------------------------------------------------------------
(* Properties *)

\* Streaks fit their counter, a thread is at a point of the two functions, and
\* edgeMutex_ is held exactly by the thread that is in or leaves the all-healthy loop.
TypeOK ==
    /\ streak \in [Stages -> Nat]
    /\ error \in BOOLEAN
    /\ holder \in Threads \cup {NoThread}
    /\ pc \in [Threads -> {"idle", "raise", "load", "lock", "scan", "unlock"}]
    /\ stage \in [Threads -> Stages]
    /\ todo \in [Threads -> SUBSET Stages]
    /\ \A t \in Threads : pc[t] \in {"scan", "unlock"} <=> holder = t

\* noteFailure has counted the failure of s and is about to raise.
Raising(s) == pc[Owner[s]] = "raise" /\ stage[Owner[s]] = s

\* The fault is up whenever a stage is past its threshold, except in the moment
\* between counting that failure and raising: no concurrent all-healthy clear
\* removes it (the race the NvPSSFusionHealthLatch comment describes).
FaultHeld ==
    \A s \in Stages : streak[s] >= Threshold[s] => error \/ Raising(s)

\* The fault does not outlive the failures: with every stage healthy and no call
\* in progress it is down, although a healthy stage never looks at it again
\* (the early return of noteSuccess).
FaultReleased ==
    (\A s \in Stages : streak[s] = 0) /\ (\A t \in Threads : pc[t] = "idle") => ~error

=============================================================================
