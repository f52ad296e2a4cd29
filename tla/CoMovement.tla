----------------------------- MODULE CoMovement -----------------------------
(***************************************************************************)
(* Whether one tracked object is carried by another: the MDX client's      *)
(* CoMovementTracker and its use by evaluateCoMovementRulesForFrame.  The  *)
(* decision modules do not stop a vehicle for a rider, so a report must be *)
(* earned and must lapse.                                                  *)
(*                                                                         *)
(* Frames arrive one per tick; ages count ticks.  An observation is        *)
(* [car, off, box]: the carrier's place and the rider's offset on a line,  *)
(* and the containment of the rider's box.  A pair out of sight or beyond  *)
(* max_distance is not observed at all.  Each pair belongs to one rule,    *)
(* P(p) = [window, minSamples, minSpan, sd, travel, box, enter, exit,      *)
(* latch], whose times are in ticks.                                       *)
(***************************************************************************)
EXTENDS Integers, Sequences, FiniteSets, FiniteSetsExt, SequencesExt

CONSTANTS
    PairOrder,        \* the pairs in the order a frame's loops reach them
    Params,           \* pair -> the parameters of its rule
    Inputs,           \* pair -> the observations it may yield
    kMaxTrackedPairs, \* the tracker's capacity
    NoObs             \* a pair that a frame does not show

VARIABLES
    states,    \* states_: pair -> [window, pass, fail, reported, left, seen]
    carried,   \* the pairs the last frame reported
    history    \* pair -> observations accepted, by age, NoObs where none

coVars == <<states, carried, history>>

CoPairs == ToSet(PairOrder)
Horizon(p) == Params[p].latch + (Params[p].enter * Params[p].window) + 1

CoInit ==
    /\ states = <<>>
    /\ carried = {}
    /\ history = [p \in CoPairs |-> [i \in 1..Horizon(p) |-> NoObs]]

\* medianContainment: nth_element at size/2
Rank(w, v) == Cardinality({i \in DOMAIN w : w[i].box < v})
Median(w) ==
    Max({w[i].box : i \in {j \in DOMAIN w : Rank(w, w[j].box) <= Len(w) \div 2}})

\* Root-mean-square deviation of the offset within the tolerance, times Len^2.
OffsetSteady(w, sd) ==
    LET sum == FoldLeft(LAMBDA a, s : a + s.off, 0, w)
        squares == FoldLeft(LAMBDA a, s : a + s.off * s.off, 0, w)
    IN  (Len(w) * squares) - (sum * sum) <= sd * sd * Len(w) * Len(w)

CarrierTravel(w) == LET at == {w[i].car : i \in DOMAIN w} IN Max(at) - Min(at)

\* evaluate: w is a window of samples [age, car, off, box], oldest first.
Evaluate(w, q) ==
    IF w = <<>> \/ Len(w) < q.minSamples \/ w[1].age - w[Len(w)].age < q.minSpan
    THEN "indeterminate"
    ELSE IF /\ OffsetSteady(w, q.sd)
            /\ CarrierTravel(w) >= q.travel \/ (q.box > 0 /\ Median(w) >= q.box)
         THEN "pass" ELSE "fail"

\* Mutant: a stutter of detection does not end a run of passes.
SettleLenient(s, verdict, q) ==
    LET pass == IF verdict = "pass" THEN Min({s.pass + 1, q.enter})
                ELSE IF verdict = "fail" THEN 0 ELSE s.pass
        fail == IF verdict = "pass" THEN 0
                ELSE IF verdict = "fail" THEN Min({s.fail + 1, q.exit}) ELSE s.fail
        on == verdict = "pass" /\ pass >= q.enter
        off == verdict = "fail" /\ fail >= q.exit
        left == IF on THEN q.latch ELSE IF off THEN -1 ELSE s.left
    IN  [s EXCEPT !.pass = pass, !.fail = fail, !.left = left,
                  !.reported = on \/ (s.reported /\ ~off /\ left >= 0)]

\* The hysteresis of observe; left is reportedUntilMs less now.
Settle(s, verdict, q) ==
    LET pass == IF verdict = "pass" THEN Min({s.pass + 1, q.enter}) ELSE 0
        fail == IF verdict = "pass" THEN 0
                ELSE IF verdict = "fail" THEN Min({s.fail + 1, q.exit}) ELSE s.fail
        on == verdict = "pass" /\ pass >= q.enter
        off == verdict = "fail" /\ fail >= q.exit
        left == IF on THEN q.latch ELSE IF off THEN -1 ELSE s.left
    IN  [s EXCEPT !.pass = pass, !.fail = fail, !.left = left,
                  !.reported = on \/ (s.reported /\ ~off /\ left >= 0)]

Fresh == [window |-> <<>>, pass |-> 0, fail |-> 0, reported |-> FALSE, left |-> -1, seen |-> 0]
StaleAfter(p) == Params[p].window + Params[p].latch

\* dropStalePairs
DropStalePairs(st, caller) == [p \in {r \in DOMAIN st : st[r].seen <= StaleAfter(r)} |-> st[p]]

\* observe, for one pair: acc is [st, out, ok], the tracker, the pairs reported
\* and the pairs whose observation was taken.
Observe(acc, p, o) ==
    LET kept == DropStalePairs(acc.st, p)
        q == Params[p]
        s == IF p \in DOMAIN kept THEN kept[p] ELSE Fresh
        sample == [age |-> 0, car |-> o.car, off |-> o.off, box |-> o.box]
        w == SelectSeq(Append(s.window, sample), LAMBDA x : x.age <= q.window)
        n == [Settle([s EXCEPT !.window = w, !.seen = 0], Evaluate(w, q), q) EXCEPT !.window = w]
    IN  IF p \notin DOMAIN kept /\ Cardinality(DOMAIN kept) >= kMaxTrackedPairs
        THEN [acc EXCEPT !.st = kept]
        ELSE [st |-> [r \in DOMAIN kept \cup {p} |-> IF r = p THEN n ELSE kept[r]],
              out |-> IF n.reported THEN acc.out \cup {p} ELSE acc.out,
              ok |-> acc.ok \cup {p}]

\* A tick passes for every entry.  An age saturates once nothing can tell it from a
\* greater one: past the window a sample is dropped when the pair is next observed.
Aged(st) ==
    [p \in DOMAIN st |->
        [st[p] EXCEPT !.window = [i \in DOMAIN @ |->
                                    [@[i] EXCEPT !.age = Min({@ + 1, Params[p].window + 1})]],
                      !.seen = Min({@ + 1, StaleAfter(p) + 1}), !.left = Max({@ - 1, -1})]]

\* evaluateCoMovementRulesForFrame: obs maps each pair to what the frame shows.
CoFrame(obs) ==
    LET shown == SelectSeq(PairOrder, LAMBDA p : obs[p] # NoObs)
        r == FoldLeft(LAMBDA acc, p : Observe(acc, p, obs[p]),
                      [st |-> Aged(states), out |-> {}, ok |-> {}], shown)
    IN  /\ states' = r.st
        /\ carried' = r.out
        /\ history' = [p \in CoPairs |->
                         [i \in 1..Horizon(p) |->
                            IF i > 1 THEN history[p][i - 1]
                            ELSE IF p \in r.ok THEN obs[p] ELSE NoObs]]

CoNext == \E obs \in [CoPairs -> UNION {Inputs[p] : p \in CoPairs} \cup {NoObs}] :
            /\ \A p \in CoPairs : obs[p] \in Inputs[p] \cup {NoObs}
            /\ CoFrame(obs)

-----------------------------------------------------------------------------
CoTypeOK ==
    /\ DOMAIN states \subseteq CoPairs
    /\ Cardinality(DOMAIN states) <= kMaxTrackedPairs
    /\ \A p \in DOMAIN states :
          /\ states[p].pass \in 0..Params[p].enter /\ states[p].fail \in 0..Params[p].exit
          /\ states[p].left \in -1..Params[p].latch
    /\ carried \subseteq CoPairs

\* The window a pair had d ticks ago, from its history.
Samples(p, d) == {i \in 1..Horizon(p) : /\ i - 1 \in d..(d + Params[p].window)
                                        /\ history[p][i] # NoObs}
WindowThen(p, d) ==
    LET at == SetToSortSeq(Samples(p, d), >)
    IN  [k \in DOMAIN at |-> [age |-> at[k] - 1 - d, car |-> history[p][at[k]].car,
                              off |-> history[p][at[k]].off, box |-> history[p][at[k]].box]]
PassedThen(p, d) == history[p][d + 1] # NoObs /\ Evaluate(WindowThen(p, d), Params[p]) = "pass"
Moments(p, d) == {e \in d..(Horizon(p) - 1 - Params[p].window) : history[p][e + 1] # NoObs}

\* A report is earned and fresh: no longer ago than latch_ms the pair passed, and it
\* passed at enter_frames consecutive observations, the windows taken from what was
\* seen and not from what the tracker kept.
CarriageProven ==
    \A p \in carried :
        \E d \in 0..Params[p].latch :
            \E run \in SUBSET Moments(p, d) :
                /\ Cardinality(run) = Params[p].enter
                /\ d \in run
                /\ \A e \in run : PassedThen(p, e)
                /\ \A e \in Moments(p, d) : e < Max(run) => e \in run

\* "a single sweep using the caller's values would delete another group's still-live
\* history" (dropStalePairs): a pair seen within its own rule's retention is kept.
HistoryKept ==
    \A p \in CoPairs :
        (\E i \in 1..Min({StaleAfter(p) + 1, Horizon(p)}) : history[p][i] # NoObs) => p \in DOMAIN states
=============================================================================
