------------------------------- MODULE MCLinks -------------------------------
(***************************************************************************)
(* The link of each of the four decision modules to the gateway, and the   *)
(* command channel from a module to its receiver, in scenes whose state    *)
(* spaces add.  On that channel, in one scene a living SDM latches (ATL    *)
(* and proximity), in the other the crossing SDM falls silent.             *)
(***************************************************************************)
EXTENDS SdmLink, PlcReceiver

VARIABLE scene

InLink == scene = "link"
InReceiver == scene \in {"faults", "silence"}

MCInit ==
    /\ scene \in {"link", "faults", "silence"}
    /\ LinkInit /\ ReceiverInit
    /\ InReceiver => module = "atl" /\ options = "ok" /\ maxHb = 3 /\ ~gateway
    /\ (scene = "silence") <=> app = "crossing"
    /\ InLink => app = "atl"

Scene ==
    /\ UNCHANGED <<linkVars, scene>>
    /\ \/ /\ scene = "faults"
          /\ silent' = 0 /\ sdmAlive' /\ rxRunning' /\ "HEARTBEAT" \notin down'
          /\ sdmLatch /\ sdmLatch' => decision' = decision
       \/ scene = "silence" /\ latches' = 0 /\ decision' = decision

MCNext ==
    \/ InLink /\ LinkNext /\ UNCHANGED <<receiverVars, scene>>
    \/ InReceiver /\ ReceiverNext /\ Scene

MCvars == <<linkVars, receiverVars, scene>>

\* LinkFairness and ReceiverFairness, of the steps a scene has.
MCSpec ==
    /\ MCInit /\ [][MCNext]_MCvars
    /\ WF_linkVars(InLink /\ (MainArgs \/ LaunchCheck \/ LaunchOpen \/ LaunchReset \/ LoopTop
                              \/ RetryRegistration \/ Poll \/ Reconnect \/ Shutdown))
    /\ WF_linkVars(InLink /\ WatchdogTick) /\ WF_linkVars(InLink /\ Elapse)
    /\ WF_linkVars(InLink /\ RetryComesDue)
    /\ SF_receiverVars(InReceiver /\ SdmRepeats /\ Out \subseteq down' /\ Scene)
    /\ WF_receiverVars(InReceiver /\ CauseEnds /\ Scene)
    /\ WF_receiverVars(InReceiver /\ HandleReceive("SW_ERROR") /\ Scene)
    /\ WF_receiverVars(InReceiver /\ (HandleReceive("STOP") \/ HandleReceive("UNMUTE")) /\ Scene)
    /\ WF_receiverVars(InReceiver /\ (\E c \in Lesser : HandleReceive(c)) /\ Scene)
    /\ WF_receiverVars(InReceiver /\ WindowedEvaluator /\ Scene)
    /\ WF_receiverVars(InReceiver /\ OperatorReleases /\ up' /\ Scene)
    /\ WF_receiverVars(InReceiver /\ AnswerRelease /\ Scene)
    /\ WF_receiverVars(InReceiver /\ UpstreamHeartbeatWatchdog /\ Scene)
    /\ WF_receiverVars(InReceiver /\ RxElapse /\ Scene)
=============================================================================
