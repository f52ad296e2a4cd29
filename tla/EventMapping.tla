---------------------------- MODULE EventMapping ----------------------------
(***************************************************************************)
(* The rules that turn what perception reports into PSS safety events      *)
(* (mdx-client/src/EventMapping.cpp and EventMappingValidation.hpp): how a *)
(* configured rule is classified, when a mapping is refused as unsafe, the *)
(* tiers of an object pair, and which rule a candidate alert matches       *)
(* (ruleMatches of SafetyEventReporter.cpp).                               *)
(*                                                                         *)
(* A rule is a record                                                      *)
(*   [src, kind, event, type, id, restricted, confined, social, primary,   *)
(*    secondary, prox, dist, scale, params, out]                           *)
(* src and kind are message_source and alert_type; a filter and prox are   *)
(* "" when absent; dist is the distance threshold, NoDist when absent;     *)
(* params says whether the co-movement parameters are in range.  Object    *)
(* types compare case-insensitively in the code and are equal up to case   *)
(* here.  An area identifier is [base, case, suffix]: identifiers that     *)
(* differ only in letter case share a base, and suffix is what follows ":" *)
(* ("" for none).                                                          *)
(***************************************************************************)
EXTENDS Integers, Sequences

NoDist == 0
NoId == [base |-> "", case |-> "", suffix |-> ""]
Rules(mapping) == {mapping[i] : i \in 1..Len(mapping)}

\* canonicalProximityTypePair, and readRule's primaryType
Primary(r) == IF r.primary = "" THEN r.type ELSE r.primary
Secondary(r) == IF r.secondary = "" THEN Primary(r) ELSE r.secondary
TypePair(r) == {Primary(r), Secondary(r)}

HasViolationFilter(r) == r.restricted # "" \/ r.confined # "" \/ r.social # ""

\* isCoMovementAlertType, isProximityPairRule
IsCoMovementRule(r) == r.kind = "co_movement"
IsPairRule(r) ==
    /\ ~IsCoMovementRule(r)
    /\ r.prox # "" \/ r.dist # NoDist \/ r.primary # "" \/ r.secondary # "" \/ r.kind = "no_violation"

ValidRuleId(r) == r.id # NoId

\* isValidProximityPairRule
ValidPairRule(r) ==
    /\ ~HasViolationFilter(r)
    /\ Primary(r) # ""
    /\ r.prox # ""
    /\ r.src = "mdx-frames"
    /\ r.kind = "social_distancing"
    /\ IF r.prox = "false" THEN r.dist = NoDist ELSE r.dist > 0

\* isValidCoMovementRule with isValidCoMovementParams (isUsableCoMovementRule)
UsableCoMovementRule(r) ==
    /\ IsCoMovementRule(r)
    /\ r.src = "mdx-frames"
    /\ ~HasViolationFilter(r) /\ r.prox = "" /\ r.dist = NoDist
    /\ Primary(r) # "" /\ r.secondary # "" /\ r.out # "" /\ Primary(r) # r.secondary
    /\ ValidRuleId(r)
    /\ r.params

UsablePairRule(r) == IsPairRule(r) /\ ValidPairRule(r) /\ ValidRuleId(r)

Filters == {"", "any", "true", "false"}

\* isValidViolationRuleScope
ValidScope(r) ==
    LET used == {f \in {"restricted", "confined", "social"} : r[f] # ""}
    IN  /\ \A f \in {"restricted", "confined", "social"} : r[f] \in Filters
        /\ \/ used = {}
           \/ /\ \E f \in used : used = {f}
              /\ r.src = "mdx-frames"
              /\ r.kind = IF "social" \in used THEN "social_distancing" ELSE "roi"

(***************************************************************************)
(* validateEventMapping.  Rule identifiers are unique over pair and        *)
(* co-movement rules, up to letter case; so are the type pairs of          *)
(* co-movement rules, the thresholds of a type pair and its one            *)
(* no-violation rule.                                                      *)
(***************************************************************************)
Clash(r, s) ==
    \/ /\ IsCoMovementRule(r) \/ IsPairRule(r)
       /\ IsCoMovementRule(s) \/ IsPairRule(s)
       /\ r.id.base = s.id.base /\ r.id.suffix = s.id.suffix
    \/ IsCoMovementRule(r) /\ IsCoMovementRule(s) /\ TypePair(r) = TypePair(s)
    \/ /\ IsPairRule(r) /\ IsPairRule(s)
       /\ TypePair(r) = TypePair(s) /\ r.prox = s.prox /\ r.dist = s.dist

ValidateEventMapping(mapping) ==
    /\ \A r \in Rules(mapping) :
          /\ ValidScope(r)
          /\ IsPairRule(r) => UsablePairRule(r)
          /\ IsCoMovementRule(r) => UsableCoMovementRule(r)
    /\ \A i, j \in 1..Len(mapping) : i # j => ~Clash(mapping[i], mapping[j])

\* buildProximityPairGroups: one group per unordered type pair.
PairGroups(mapping) ==
    LET usable == {r \in Rules(mapping) : UsablePairRule(r)}
    IN  {[types |-> p,
          thresholds |-> {r.dist : r \in {q \in usable : TypePair(q) = p /\ q.prox = "true"}},
          hasNoViolationRule |-> \E r \in usable : TypePair(r) = p /\ r.prox = "false"] :
            p \in {TypePair(r) : r \in usable}}

\* buildCoMovementGroups
CoMovementGroups(mapping) ==
    {[carrier |-> Primary(r), rider |-> r.secondary] :
        r \in {q \in Rules(mapping) : UsableCoMovementRule(q)}}

\* How the reporter compares a rule's area with a reported one: the whole
\* identifier whatever its case, or the rule's own spelling followed by ":".
IdMatches(rule, reported) ==
    \/ rule.base = reported.base /\ rule.suffix = reported.suffix
    \/ /\ rule.suffix = "" /\ reported.suffix # ""
       /\ rule.base = reported.base /\ rule.case = reported.case

\* matchesConfiguredStringCondition: an absent condition matches everything.
Condition(configured, value) == configured = "" \/ configured = value
Holds(filter, flag) == filter \in {"", "any"} \/ filter = flag

(***************************************************************************)
(* ruleMatches.  A candidate is                                            *)
(*   [kind, src, alert, event, type, type2, id, flag, thr, obj, obj2]      *)
(* kind is its AlertCandidateKind, flag the violation flag its kind is     *)
(* about ("true" or "false"), thr the selected threshold of a pair (NoDist *)
(* for a pair in no violation).                                            *)
(***************************************************************************)
KindFits(r, c) ==
    /\ r.restricted # "" => c.kind = "restricted"
    /\ r.confined # "" => c.kind = "confined"
    /\ r.social # "" => c.kind = "social"

PairFits(r, c) ==
    /\ UsablePairRule(r)
    /\ c.kind = "pair"
    /\ TypePair(r) = {c.type, c.type2}
    /\ IF r.prox = "true" THEN c.thr = r.dist ELSE c.thr = NoDist

CoMovementFits(r, c) ==
    /\ UsableCoMovementRule(r)
    /\ c.kind = "co_movement"
    /\ Primary(r) = c.type /\ r.secondary = c.type2

PlainFits(r, c) ==
    /\ c.kind \notin {"pair", "co_movement"}
    /\ Condition(r.type, c.type)
    /\ r.id = NoId \/ (c.id # NoId /\ IdMatches(r.id, c.id))

RuleMatches(r, c) ==
    /\ IF IsCoMovementRule(r) THEN CoMovementFits(r, c)
       ELSE IF IsPairRule(r) THEN PairFits(r, c) ELSE PlainFits(r, c)
    /\ ValidScope(r)
    /\ KindFits(r, c)
    /\ Condition(r.src, c.src)
    /\ Condition(r.kind, c.alert)
    /\ Condition(r.event, c.event)
    /\ Holds(r.restricted, IF c.kind = "restricted" THEN c.flag ELSE "false")
    /\ Holds(r.confined, IF c.kind = "confined" THEN c.flag ELSE "false")
    /\ Holds(r.social, IF c.kind \in {"social", "pair"} THEN c.flag ELSE "false")

\* reportAlert's search: the first rule that matches, in configuration order.
Matching(mapping, c) == {i \in 1..Len(mapping) : RuleMatches(mapping[i], c)}
FirstMatch(mapping, c) ==
    CHOOSE i \in Matching(mapping, c) : \A j \in Matching(mapping, c) : i <= j
=============================================================================
