--------------------------- MODULE SdmRequestState ---------------------------
(***************************************************************************)
(* What one validated DecisionRequest says about PSS and its sources, as   *)
(* the pure functions every safety decision module shares                  *)
(* (sdm_decision_request_state.h).  Bit masks are sets.                    *)
(*                                                                         *)
(* A request is [mode, evs].  An event is                                  *)
(*   [type, cause, id, stale, healthy, trusted, sensor, names]             *)
(* where names is the set of sources its objectID[0] carries.  A presence  *)
(* report has, beside these, the sets present, expected, unusable and      *)
(* confirmed (the two halves of objectID[0] and objectID[1]).              *)
(***************************************************************************)
EXTENDS Integers, Sequences

CONSTANTS
    Sources,   \* the sources PSS tracks: monitors and MDX client instances
    GroupOf,   \* the sub-cause the loss of a source raises
    Requests   \* the requests the gateway may forward

LostCauses == {"MONITOR_LOST", "PM_LOST", "MDX_LOST"}
SubCauses == LostCauses \cup {"MODE_ERROR", "GATEWAY_COMM", "SW_FAIL", "INPUT_UNUSABLE"}

ASSUME SourceAssumption == GroupOf \in [Sources -> LostCauses]

Events(r) == {r.evs[i] : i \in 1..Len(r.evs)}
SwFails(r) == {ev \in Events(r) : ev.type = "SW_FAIL"}

\* SdmDecisionRequestIsNoopOnly
IsNoopOnly(r) == Len(r.evs) = 1 /\ r.evs[1].type = "PSS_STATUS_NOOP"

\* SdmDecisionRequestContainsSwFail
ContainsSwFail(r) == SwFails(r) # {}

\* SdmDecisionRequestIsGatewayCommRecovered
IsGatewayCommRecovered(r) ==
    IsNoopOnly(r) /\ r.mode # "ERROR" /\ r.evs[1].cause = "PSS_COMM_RECOVERED"

\* SdmDecisionRequestClearsPssModeError
ClearsPssModeError(r) == r.mode # "ERROR"

\* SdmDecisionRequestClearsPssSwFail
ClearsPssSwFail(r) == r.mode # "ERROR" /\ ~IsNoopOnly(r) /\ ~ContainsSwFail(r)

\* SdmEventCauseIsGatewayComm
GatewayCommCauses == {"PSS_ERROR", "PSS_REQUEST_SEQUENCE_GAP", "PSS_REQUEST_ID_INVALID"}

\* SdmSwFailSubCause: the sub-cause of one SW_FAIL; the source-lost causes keep their name.
SwFailSubCause(ev) ==
    CASE ev.cause \in GatewayCommCauses -> "GATEWAY_COMM"
      [] ev.cause \in LostCauses -> ev.cause
      [] ev.cause = "CLIENT_INPUT_UNUSABLE" /\ ev.names # {} -> "INPUT_UNUSABLE"
      [] OTHER -> "SW_FAIL"

\* SdmSwFailSubCausesRaised
SwFailSubCausesRaised(r) == {SwFailSubCause(ev) : ev \in SwFails(r)}

\* SdmPssSubCausesEvaluate
PssSubCausesEvaluate(r) ==
    IF r.mode = "ERROR"
    THEN [raised |-> {"MODE_ERROR"} \cup SwFailSubCausesRaised(r), cleared |-> {}]
    ELSE IF IsNoopOnly(r)
    THEN [raised |-> {},
          cleared |-> {"MODE_ERROR"} \cup
                      (IF IsGatewayCommRecovered(r) THEN {"GATEWAY_COMM"} ELSE {})]
    ELSE IF ClearsPssSwFail(r)
    THEN [raised |-> {}, cleared |-> {"MODE_ERROR", "SW_FAIL", "GATEWAY_COMM"}]
    ELSE [raised |-> SwFailSubCausesRaised(r), cleared |-> {"MODE_ERROR"}]

IsReport(ev) == ev.type = "PSS_STATUS_NOOP" /\ ev.cause = "SOURCE_PRESENCE"
HasReport(r) == \E ev \in Events(r) : IsReport(ev)

\* SdmDecisionRequestFindPresenceReport: the last one.
FindPresenceReport(r) ==
    r.evs[CHOOSE i \in 1..Len(r.evs) :
            /\ IsReport(r.evs[i])
            /\ \A j \in (i + 1)..Len(r.evs) : ~IsReport(r.evs[j])]

\* What the gateway validates before it forwards a request, and how PSS fills one in: a
\* sequence of events, masks of known sources, a lost client under its own cause.
ASSUME RequestAssumption ==
    \A r \in Requests :
        /\ Len(r.evs) \in Nat
        /\ \A ev \in Events(r) :
             /\ ev.names \subseteq Sources
             /\ ev.cause \in LostCauses /\ ev.type = "SW_FAIL" =>
                  \A s \in ev.names : GroupOf[s] = ev.cause
             /\ IsReport(ev) => ev.present \cup ev.expected \cup ev.unusable \subseteq Sources

\* SdmPresenceGroupMask
Group(g) == {s \in Sources : GroupOf[s] = g}

\* Mutant: only the report's expected set is held against the sources present.
SourcePresenceForgetful(seen, r) ==
    LET fails == {ev \in SwFails(r) : ev.cause \in LostCauses}
        failed == {ev.cause : ev \in fails}
        rep == FindPresenceReport(r)
    IN  IF ~HasReport(r)
        THEN [seen |-> seen, raised |-> failed, cleared |-> {}]
        ELSE [seen |-> seen,
              raised |-> failed \cup {g \in LostCauses : (rep.expected \cap Group(g)) \ rep.present # {}},
              cleared |-> IF r.mode = "ERROR" THEN {}
                          ELSE {g \in LostCauses \ failed : Group(g) \cap rep.present # {}}]

\* SdmSourcePresenceEvaluate: seen is what this SDM knows of, all its life.
SourcePresenceEvaluate(seen, r) ==
    LET fails == {ev \in SwFails(r) : ev.cause \in LostCauses}
        named == seen \cup UNION {ev.names : ev \in fails}
        failed == {ev.cause : ev \in fails}
    IN  IF ~HasReport(r)
        THEN [seen |-> named, raised |-> failed, cleared |-> {}]
        ELSE LET rep == FindPresenceReport(r)
                 known == named \cup rep.expected
                 missing == {g \in LostCauses : (known \cap Group(g)) \ rep.present # {}}
             IN  [seen |-> known \cup rep.present,
                  raised |-> failed \cup missing,
                  cleared |-> IF r.mode = "ERROR" THEN {}
                              ELSE {g \in LostCauses \ (failed \cup missing) :
                                       Group(g) \cap rep.present # {}}]

\* History: lost by a SW_FAIL or by a report that omits it, back by one that names it.
GoneAfter(gone, r) ==
    LET named == UNION {ev.names : ev \in {e \in SwFails(r) : e.cause \in LostCauses}}
        rep == FindPresenceReport(r)
    IN  IF HasReport(r) THEN ((gone \cup rep.expected) \ rep.present) \cup named
        ELSE gone \cup named

\* SdmSourceInputStateEvaluate: held is the set of sources the cause is held for.
SourceInputStateEvaluate(held, r) ==
    LET fromSwFail == UNION {ev.names : ev \in {e \in SwFails(r) : e.cause = "CLIENT_INPUT_UNUSABLE"}}
        rep == FindPresenceReport(r)
        after == IF ~HasReport(r) THEN held \cup fromSwFail
                 ELSE (held \cup fromSwFail \cup rep.unusable)
                      \ (IF r.mode = "ERROR" THEN {}
                         ELSE rep.confirmed \ (rep.unusable \cup fromSwFail))
    IN  [held |-> after,
         raised |-> IF after # {} THEN {"INPUT_UNUSABLE"} ELSE {},
         cleared |-> IF after = {} /\ held # {} THEN {"INPUT_UNUSABLE"} ELSE {}]

\* SdmAiPipelineVerdictApply: the verdicts of a request, in order.
AiVerdicts(r) ==
    {i \in 1..Len(r.evs) :
        ~r.evs[i].stale /\ r.evs[i].type \in {"AI_PIPELINE_INVALID", "AI_PIPELINE_VALID"}}

AiPipelineVerdictApply(invalidActive, r) ==
    LET Invalids == {i \in AiVerdicts(r) : r.evs[i].type = "AI_PIPELINE_INVALID"}
        ActiveAt(n) ==    \* the flag once the events before n are applied
            \/ invalidActive /\ \A j \in AiVerdicts(r) : j >= n
            \/ \E i \in Invalids : i < n /\ \A j \in AiVerdicts(r) : j <= i \/ j >= n
    IN  [active |-> ActiveAt(Len(r.evs) + 1),
         saw |-> Invalids # {},
         entered |-> \E i \in Invalids : ~ActiveAt(i)]
=============================================================================
