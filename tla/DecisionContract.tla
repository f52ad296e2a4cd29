-------------------------- MODULE DecisionContract --------------------------
(***************************************************************************)
(* The perception monitor's view of the same frames: which rules of the    *)
(* event mapping the configured decision modules depend on                 *)
(* (perception-monitor/src/decision_contract.cpp), and whether a frame     *)
(* carries every field those rules need (decisionFault of                  *)
(* data_validation_monitor.cpp).                                           *)
(*                                                                         *)
(* A subscription is the set of events one decision module binds.  The     *)
(* contract is [ok, roi, pairs]: an area rule is [id, type, confined], a   *)
(* pair [types, warning] with the widest threshold that is selected.       *)
(***************************************************************************)
EXTENDS FramesParser

\* Whether readRule can express a selected rule.
Expressible(r) ==
    \/ r.src = "mdx-events" /\ r.kind = "tripwire" /\ r.id # NoId /\ r.type \notin {"", "any"}
    \/ /\ r.src = "mdx-frames" /\ r.kind = "roi"
       /\ r.id # NoId /\ r.type \notin {"", "any"}
       /\ (r.restricted = "") # (r.confined = "")
       /\ {r.restricted, r.confined} \subseteq Filters
    \/ /\ r.src = "mdx-frames" /\ r.kind = "social_distancing" /\ r.prox # ""
       /\ TypePair(r) \cap {"", "any"} = {}
       /\ r.id # NoId /\ ~HasViolationFilter(r)
       /\ IF r.prox = "true" THEN r.dist > 0 ELSE r.dist = NoDist

RoiRules(rules) ==
    {[id |-> r.id, type |-> r.type, confined |-> r.restricted = ""] : r \in {q \in rules : q.kind = "roi"}}

PairRules(rules) ==
    LET pairs == {r \in rules : r.kind = "social_distancing"}
    IN  {[types |-> p, warning |-> Max({r.dist : r \in {q \in pairs : TypePair(q) = p}})] :
            p \in {TypePair(r) : r \in pairs}}

(***************************************************************************)
(* loadDvmDecisionContract: two decision modules may not bind the same     *)
(* event, every subscribed event must be in the mapping, and a pair needs  *)
(* a threshold.  Without any subscription every rule is selected.          *)
(***************************************************************************)
LoadContract(mapping, subscriptions) ==
    LET selected == UNION subscriptions
        disjoint == \A a, b \in subscriptions : a = b \/ a \cap b = {}
        rules == {r \in Rules(mapping) : selected = {} \/ r.out \in selected}
        pairs == PairRules(rules)
    IN  [ok |-> /\ mapping # <<>>
                /\ disjoint
                /\ \A r \in Rules(mapping) : r.out # ""
                /\ \A r \in rules : Expressible(r)
                /\ selected # {} => {r.out : r \in rules} = selected
                /\ \A p \in pairs : p.warning > 0,
         roi |-> RoiRules(rules), pairs |-> pairs]

\* Mutant: an entry that names no object is accepted.
RoiFaultLenient(f, rule, roi) ==
    LET value == IF rule.confined THEN roi.confined ELSE roi.restricted
    IN  value = "bad"

\* decisionFault, one area entry against one rule of the contract.
RoiFault(f, rule, roi) ==
    LET value == IF rule.confined THEN roi.confined ELSE roi.restricted
        numbers == {roi.refs[i][1] : i \in 1..Len(roi.refs)}
    IN  \/ value = "bad"
        \/ /\ value = "true" \/ rule.confined
           /\ \/ roi.refs = <<>>
              \/ \E i \in 1..Len(roi.refs) : ~Numeric(roi.refs[i]) \/ ~Resolves(f, roi, roi.refs[i])
              \/ Cardinality(numbers) # Len(roi.refs)

ProximityFault(f) ==
    \/ f.sd.threshold <= 0 \/ f.sd.detections < 0
    \/ f.sd.violation \notin {"true", "false"}
    \/ (f.sd.detections = 0) # (f.sd.violation = "false")

PairFault(f, pair) ==
    \/ f.sd.threshold < pair.warning
    \/ /\ pair.types \subseteq {o.type : o \in Objects(f)}
       /\ \E i \in 1..Len(f.objects) : f.objects[i].type \in pair.types /\ i \notin ProximityObjects(f)

\* The requireProximity of both callers: a LEARN run passes whether the contract has pairs, and
\* ACTIVE refuses a baseline whose proximityRequired says anything else.
RequireProximity(contract) == contract.pairs # {}

\* decisionFault.  A frame without a proximity report is at fault only where one is required.
DecisionFault(f, contract, requireProximity) ==
    \/ \E roi \in Rois(f), rule \in contract.roi :
          /\ IdMatches(rule.id, roi.id) /\ roi.type = rule.type
          /\ RoiFault(f, rule, roi)
    \/ contract.pairs # {} /\ ~f.sd.present /\ requireProximity
    \/ /\ contract.pairs # {} /\ f.sd.present
       /\ ProximityFault(f) \/ \E pair \in contract.pairs : PairFault(f, pair)
=============================================================================
