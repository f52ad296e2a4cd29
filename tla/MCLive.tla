------------------------------- MODULE MCLive -------------------------------
(***************************************************************************)
(* What must eventually happen, in two scenes: the sender of the daemon    *)
(* drains its lanes; the ATL module brings the PLC to the hold.            *)
(***************************************************************************)
EXTENDS MCAtl

CONSTANTS VerdictSlots, CriticalDepth, OperationalDepth, BatchMax, RefusedPendingMax, RetryBudget,
          MaxAttempts, RequestIdMax, BaseModes, Kinds, MaxReports, MaxNoops
VARIABLES lane, refused, readmitMax, overflow, enqSeq, delivery, nextId, sender, psdLast,
          produced, told

Pss == INSTANCE PssDelivery

pssVars == <<lane, refused, readmitMax, overflow, enqSeq, delivery, nextId, sender, psdLast,
             produced, told>>
LiveVars == <<vars, scenario, pssVars>>
InAtl == scenario = "atl"
InPss == scenario = "pss"

LiveInit == Init /\ Pss!SenderInit /\ scenario \in {"atl", "pss"}
LiveNext ==
    /\ UNCHANGED scenario
    /\ \/ InAtl /\ Next /\ UNCHANGED pssVars
       \/ InPss /\ Pss!SenderNext /\ UNCHANGED vars

\* The fairness of the two modules, of the steps a scene has.
LiveSpec ==
    /\ LiveInit /\ [][LiveNext]_LiveVars
    /\ WF_vars(InAtl /\ Next /\ PeriodicWake) /\ WF_vars(InAtl /\ Next /\ Evaluate("periodic"))
    /\ WF_vars(InAtl /\ Next /\ Evaluate("listener"))
    /\ WF_vars(InAtl /\ Next /\ pc["listener"] # "idle" /\ pc'["listener"] # pc["listener"])
    /\ WF_vars(InAtl /\ Next /\ pc["release"] # "idle" /\ pc'["release"] # pc["release"])
    /\ WF_pssVars(InPss /\ Pss!SenderStep)
    /\ WF_pssVars(InPss /\ Pss!GateExpires)
    /\ WF_pssVars(InPss /\ Pss!BackoffExpires)

\* Every lane is empty again and again: no refused, failed or backed-off request keeps
\* the events behind it for good.
LanesDrain == Pss!LanesDrain
=============================================================================
