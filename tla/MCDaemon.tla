------------------------------ MODULE MCDaemon ------------------------------
(***************************************************************************)
(* Parts of the safety event integrator daemon that share no state, each   *)
(* in scenes of its own, so that their state spaces add: the fusion-health *)
(* fault; the trust verdicts (how events name their source, reports that   *)
(* come too late with restarts of the decision module, a camera group);    *)
(* the link to the PSD.                                                    *)
(***************************************************************************)
EXTENDS FusionHealth, TrustVerdicts, PsdLink, TLC

VARIABLE scene

MCvars == <<vars, tvVars, psdVars, scene>>

\* Two threads; the input loop runs one stage, the fusion loop two.
MCThreads == {"input", "fusion"}
MCStages == {"process", "perform", "handle"}
MCOwner == "process" :> "input" @@ "perform" :> "fusion" @@ "handle" :> "fusion"
MCFirst == "input" :> "process" @@ "fusion" :> "perform"
MCPeriodUs == "process" :> 500 @@ "perform" :> 2000 @@ "handle" :> 333

Budget(c, d, l, s, e) == [crashes |-> c, deaths |-> d, lapses |-> l, sends |-> s, stops |-> e]
MCBudgets == {Budget(1, 0, 1, 2, 0), Budget(0, 1, 0, 2, 1), Budget(1, 1, 1, 0, 0), Budget(0, 2, 0, 2, 0)}

TrustScenes == {"names", "late", "group"}

MCInit ==
    /\ Init /\ TrustInit /\ PsdInit
    /\ scene \in {"fusion", "link"} \cup TrustScenes
    /\ scene # "fusion" => stage = MCFirst
    /\ scene # "link" => left = Budget(0, 2, 0, 2, 0)
    /\ scene \in {"names", "link", "fusion"} => members = {}
    /\ scene = "group" => members = Cams

TrustStep ==
    /\ TrustNext
    /\ scene # "names" => \A e \in Range(rpc') \cup Range(queue') : e.named = "right"
    /\ scene # "late" => budget'.restarts = 0 /\ \A e \in Range(rpc') : ~e.late
    /\ scene = "late" => budget'.data = 0 /\ ~aiInvalid'
    /\ scene # "group" => budget'.reports <= 2

MCNext ==
    /\ UNCHANGED scene
    /\ \/ scene = "fusion" /\ Next /\ UNCHANGED <<tvVars, psdVars>>
       \/ scene \in TrustScenes /\ TrustStep /\ UNCHANGED <<vars, psdVars>>
       \/ scene = "link" /\ PsdNext /\ UNCHANGED <<vars, tvVars>>

\* TrustFairness and PsdFairness, of the steps a scene has.
MCSpec ==
    /\ MCInit /\ [][MCNext]_MCvars
    /\ WF_tvVars(scene \in TrustScenes /\ Append1)
    /\ WF_tvVars(scene \in TrustScenes /\ Snapshot)
    /\ WF_tvVars(scene \in TrustScenes /\ PushSnapshot)
    /\ WF_tvVars(scene \in TrustScenes /\ HandleEvent)
    /\ \A l \in {"critical", "operational"} : WF_tvVars(scene \in TrustScenes /\ Deliver(l))
    /\ WF_psdVars(scene = "link" /\ ServerNext) /\ WF_psdVars(scene = "link" /\ SenderNext)
    /\ WF_psdVars(scene = "link" /\ GatewayNext) /\ WF_psdVars(scene = "link" /\ DaemonStart)

\* Rerouted, where the link runs: while daemon and gateway stay, every event type is
\* routed to the gateway's connection again, whatever was lost on the way.
LinkRerouted == scene = "link" => Rerouted
=============================================================================
