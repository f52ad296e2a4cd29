---------------------------- MODULE AtlProximitySdm ----------------------------
(***************************************************************************)
(* The combined ATL and proximity decision module (AtlProximityControl.cpp) *)
(* : the threads of SdmControl and the pair table they fold requests into. *)
(*                                                                         *)
(* A proximity event has a pair <<x, y>> of objects, each [id, person].    *)
(***************************************************************************)
EXTENDS SdmControl, PairFusion

VARIABLES
    pairs,    \* atlProximityPairTable
    moment,   \* atlProximityMonotonicMs
    latest,   \* history: the newest observation of every pair since the last release
    refused   \* history: the table was full and refused or evicted a pair

pairVars == <<pairs, moment, latest, refused>>

TierToCommand(tier) == CASE tier = 3 -> "STOP" [] tier = 2 -> "REDUCE" [] OTHER -> "NORMAL"

ASSUME AtlProximityAssumption == "REDUCE" \in Commands /\ \A r \in Requests : PairBatch(r)

\* Under decisionSendMtx and atlProximityStateMtx: fold, derive, send.
AtlProximityDecide ==
    LET f == Fold(pairs, latest, req, moment)[Len(req.evs)]
    IN  /\ pc["listener"] = "decide"
        /\ pairs' = f.table
        /\ latest' = f.newest /\ refused' = (refused \/ f.full)
        /\ IF f.any THEN Decide(TierToCommand(Aggregate(f.table, moment))) ELSE NoDecision
        /\ UNCHANGED moment

\* Mutant: the command is repeated without decisionSendMtx.
AtlProximityReassertUnlocked ==
    /\ active' = TierToCommand(Aggregate(pairs, moment))
    /\ Send(IF MustHold THEN "STOP" ELSE active')
    /\ pairs' = Reclaim(pairs, moment)
    /\ UNCHANGED <<moment, latest, refused, faultVars, miss, overdue, sourceVars, locks, pc, local>>

\* atlProximityPeriodicDecisionLoop derives the command anew.
AtlProximityReassert ==
    /\ IF MustHold THEN Reassert(active) /\ UNCHANGED pairs
       ELSE /\ Reassert(TierToCommand(Aggregate(pairs, moment)))
            /\ pairs' = Reclaim(pairs, moment)
    /\ UNCHANGED <<moment, latest, refused>>

\* resetAtlProximityStateFromPlcSafeRelease drops the pairs with the latch.
AtlProximityRelease ==
    \/ (ReleaseRequested \/ ReleaseCheck \/ ReleaseAnswer) /\ UNCHANGED pairVars
    \/ /\ ReleaseClear
       /\ IF snap = {} \/ latch' = {}
          THEN pairs' = EmptyTable /\ latest' = <<>> /\ refused' = FALSE
          ELSE UNCHANGED <<pairs, latest, refused>>
       /\ UNCHANGED moment

PairTick ==
    /\ moment < LastMoment /\ moment' = moment + 1
    /\ UNCHANGED <<pairs, latest, refused, controlVars>>

\* The steps of SdmControl, from AtlProximityControl.cpp.
ApxReceive(r, gap) == Receive(r, gap)
ApxAiVerdicts == ApplyAiVerdicts
ApxSourcePresence == ApplySourcePresence
ApxSourceInputState == ApplySourceInputState
ApxSensorHealth == UpdateSensorHealth
ApxPssMode == ApplyMode \/ ApplyModeError
ApxSwFailEvents == ApplySwFailEvents
ApxHeartbeatWatchdog == HbWatchdog
ApxFreshnessWatchdog == FreshnessWatchdog

ApxControl ==
    \/ \E r \in Requests, gap \in BOOLEAN : ApxReceive(r, gap)
    \/ ApxAiVerdicts \/ ApxSourcePresence \/ ApxSourceInputState \/ ApxSensorHealth
    \/ ApxPssMode \/ ApxSwFailEvents \/ ApxHeartbeatWatchdog
    \/ Timeout \/ ApxFreshnessWatchdog

AtlProximityInit ==
    /\ ControlInit
    /\ pairs = EmptyTable /\ moment = 1 /\ latest = <<>> /\ refused = FALSE

AtlProximityNext ==
    \/ AtlProximityDecide \/ AtlProximityReassert \/ AtlProximityRelease \/ PairTick
    \/ ApxControl /\ UNCHANGED pairVars

AtlProximitySpec == AtlProximityInit /\ [][AtlProximityNext]_<<pairVars, controlVars>>

-----------------------------------------------------------------------------
(* Properties. *)

AtlProximityTypeOK ==
    /\ moment \in 1..LastMoment
    /\ \A i \in Slots : pairs[i] # NoEntry => pairs[i].tier \in 1..3 /\ pairs[i].at <= moment

\* The worst tier among the newest observations that have not expired.
WorstLive ==
    LET tiers == {latest[k].tier : k \in {j \in DOMAIN latest : ~Expired(latest[j].at, moment)}} \cup {0}
    IN  CHOOSE m \in tiers : \A n \in tiers : n <= m

(* The table answers as if it had kept every pair: newest within a pair,    *)
(* worst across pairs, gone after the TTL, as long as it was never full     *)
(* (AtlPxcPairFusionObserve, AtlPxcPairFusionAggregate).                    *)
PairsWorstCase == ~refused => Aggregate(pairs, moment) = WorstLive

(* Full or not, the command derived from a batch is at least what the       *)
(* newest observation of each pair in it asks for.                          *)
BatchNotUnderstated ==
    pc["listener"] = "decide" =>
        \A i \in PairEvents(req) :
            (\A j \in PairEvents(req) :
                j > i => PairKey(req.evs[j].pair) # PairKey(req.evs[i].pair))
              => Aggregate(Fold(pairs, latest, req, moment)[Len(req.evs)].table, moment) >= PairTier(req.evs[i].type)

(* The pair table decides for the worst live pair: exactly as long as it    *)
(* was never full, and never below its batch when it was.                   *)
PairsHonoured == PairsWorstCase /\ BatchNotUnderstated

(* "dropping it cannot lower the command": a pair the full table refused    *)
(* and that is still live asks for no more than the command derived.        *)
RefusedHarmless == Aggregate(pairs, moment) >= WorstLive
=============================================================================
