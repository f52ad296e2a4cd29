-------------------------------- MODULE MCRpc --------------------------------
(***************************************************************************)
(* Scenes whose state spaces add.  Four are of the RPC server and its      *)
(* clients:                                                                *)
(*   presence: two Safety Monitors contend for the identity, each with its *)
(*     own connections; heartbeats, ticks, crashes, evictions, no reports; *)
(*   reports:  one required MDX client with good and bad reports;          *)
(*   late:     one client, any answer may come after the deadline;         *)
(*   crowd:    more connections than slots, and no heartbeats.             *)
(* Five are of the latch manager, which shares nothing with them: failing  *)
(* cameras; a link fault that flaps, with persons; the same with a fault   *)
(* the log does not name; a restricted area; a fault only a human may      *)
(* release.                                                                *)
(***************************************************************************)
EXTENDS RpcClient, LatchManager, TLC
CONSTANTS sm, sm2, mdx
VARIABLE scene

MCIdentity == [c \in {sm, sm2, mdx} |-> IF c = mdx THEN "MDX1" ELSE "SM"]
Ev == [type |-> "event", valid |-> TRUE, pipeline |-> 1, own |-> TRUE, confident |-> TRUE, trusted |-> TRUE]
MCReports == {Ev, [Ev EXCEPT !.valid = FALSE], [Ev EXCEPT !.type = "sensor"]}

Cast == CASE scene = "presence" -> {sm, sm2} [] scene = "reports" -> {mdx} [] scene = "late" -> {mdx}
          [] scene = "crowd" -> {sm, sm2, mdx}

RpcScenes == {"presence", "reports", "late", "crowd"}
LatchScenes == {"cameras", "link", "unnamed", "area", "human"}

\* The presence scene starts when the startup budget is over and the absence of MDX is reported.
MCInit ==
    /\ scene \in RpcScenes \cup LatchScenes
    /\ LET up == scene = "presence"
           absent == IF up THEN Required ELSE {}
       IN  RpcStart(absent, IF up THEN MaxHbFailures + 1 ELSE 0) /\ ClientInit
    /\ LatchInit

RpcStep ==
    \/ \E c \in Cast :
         \/ Connect(c) \/ Receive(c) \/ Crash(c)
         \/ scene # "crowd" /\ SendHeartbeat(c)
         \/ scene \in {"reports", "late"} /\ (ReportSafetyEvent(c) \/ TerminateClient(c))
         \/ (scene = "late" \/ Peer(c) \in cut) /\ GiveUp(c)
    \/ (ServerNext \/ (scene \in {"presence", "reports"} /\ TickNext)) /\ UNCHANGED clientVars

Faults ==
    \/ scene = "cameras" /\ \E p \in Pipelines : SdmCameraFails(p) \/ SdmCameraRecovers(p)
    \/ scene \in {"link", "unnamed", "area"} /\ \E c \in AutoCauses : SdmOnset(c) \/ SdmRecovery(c)
    \/ scene = "unnamed" /\ SdmUnnamed
    \/ scene = "human" /\ \E c \in ManualCauses : SdmOnset(c) \/ SdmClears(c)

People ==
    \/ scene # "area" /\ SdmForklift
    \/ scene = "link" /\ \E n \in 0..MaxPersons : SdmPersons(n)
    \/ scene = "area" /\ SdmViolation

MCNext ==
    /\ UNCHANGED scene
    /\ \/ scene \in RpcScenes /\ RpcStep /\ UNCHANGED latchVars
       \/ /\ scene \in LatchScenes /\ UNCHANGED vars
          /\ Faults \/ People \/ SdmSays \/ SdmAnswer \/ Lose \/ ManagerNext

SmSymmetry == Permutations({sm, sm2})
MCvars == <<vars, latchVars, scene>>
MCSpec == MCInit /\ [][MCNext]_MCvars
=============================================================================
