----------------------------- MODULE PlcReceiver -----------------------------
(***************************************************************************)
(* The UDP command receivers (cmd_rx.cpp of the three applications) at the *)
(* far end of an SDM's command channel: the evaluation window, the         *)
(* heartbeat watchdog, the operator's release and the release sent at      *)
(* start-up.  UDP loses, repeats and reorders: a direction of the channel  *)
(* is the set of commands under way.                                       *)
(*                                                                         *)
(* The SDM is reduced to what the channel sees of SdmControl: a hold while *)
(* latched, the decision otherwise, and the answer to a release.           *)
(***************************************************************************)
EXTENDS Integers, FiniteSets

CONSTANTS
    RxStale,     \* the age of a heartbeat at which the first miss counts, in ticks
    RxPeriod,    \* ticks per further miss
    RxMaxHb,     \* g_maxHbFailures
    MaxLatches,  \* bound: faults of the SDM
    MaxCopies,   \* bound: repeated packets
    MaxUnderWay  \* bound: commands under way at once

ASSUME ReceiverAssumption ==
    /\ RxStale \in Nat /\ RxPeriod \in Nat \ {0} /\ RxMaxHb \in Nat \ {0}
    /\ MaxLatches \in Nat /\ MaxCopies \in Nat /\ MaxUnderWay \in Nat

VARIABLES
    app,       \* which application
    decision,  \* the SDM's decision
    cause,     \* a cause is active at the SDM
    sdmLatch,  \* the SDM is latched
    sdmAlive,  \* the SDM runs
    down,      \* commands on their way to the receiver
    up,        \* a release request is on its way to the SDM
    window,    \* window_cmds_
    action,    \* last_action_
    prompt,    \* safe_release_prompt_ready_
    sender,    \* have_last_sender_
    startup,   \* startupSafeReleaseLoop: wait, settle, done
    silent,    \* ticks since last_hb_time_
    rxRunning, \* running_
    latches, copies

receiverVars == <<app, decision, cause, sdmLatch, sdmAlive, down, up, window, action, prompt,
                  sender, startup, silent, rxRunning, latches, copies>>
sdmSide == <<decision, cause, sdmLatch, sdmAlive, latches>>

Apps == {"atl", "proximity", "crossing"}

\* The decisions of an application's SDM, the safest last, and its safe output.
Decisions == CASE app = "atl" -> {"MUTE", "UNMUTE"}
               [] app = "proximity" -> {"NORMAL", "REDUCE", "STOP"}
               [] app = "crossing" -> {"NORMAL", "ALARM"}
Rest == IF app = "atl" THEN "UNMUTE" ELSE "NORMAL"
HoldPair == {IF app = "atl" THEN "UNMUTE" ELSE "STOP", "SW_ERROR"}

-----------------------------------------------------------------------------
(* The SDM's end. *)

Out == IF sdmLatch THEN HoldPair ELSE {decision}

\* sendto over UDP: any of it may be lost, and is if the channel is full.
Emit(S) == down' \in {down \cup T : T \in SUBSET S} /\ Cardinality(down') <= MaxUnderWay

\* Mutant: the periodic thread repeats the decision although the SDM is latched.
SdmRepeatsDecision ==
    /\ sdmAlive /\ Emit({decision})
    /\ UNCHANGED <<app, sdmSide, up, window, action, prompt, sender, startup, silent, rxRunning, copies>>

SdmRepeats ==
    /\ sdmAlive /\ Emit(Out)
    /\ UNCHANGED <<app, sdmSide, up, window, action, prompt, sender, startup, silent, rxRunning, copies>>

SdmDecides ==
    /\ sdmAlive /\ decision' \in Decisions
    /\ Emit(IF sdmLatch THEN HoldPair ELSE {decision'})
    /\ UNCHANGED <<app, cause, sdmLatch, sdmAlive, latches, up, window, action, prompt, sender,
                   startup, silent, rxRunning, copies>>

SdmLatches ==
    /\ sdmAlive /\ latches < MaxLatches /\ latches' = latches + 1
    /\ cause' = TRUE /\ sdmLatch' = TRUE /\ Emit(HoldPair)
    /\ UNCHANGED <<app, decision, sdmAlive, up, window, action, prompt, sender, startup, silent,
                   rxRunning, copies>>

CauseEnds ==
    /\ cause /\ cause' = FALSE
    /\ UNCHANGED <<app, decision, sdmLatch, sdmAlive, latches, down, up, window, action, prompt,
                   sender, startup, silent, rxRunning, copies>>

\* heartbeatTransmitter
HeartbeatTransmitter ==
    /\ sdmAlive /\ Emit({"HEARTBEAT"})
    /\ UNCHANGED <<app, sdmSide, up, window, action, prompt, sender, startup, silent, rxRunning, copies>>

\* handleSafeReleaseRequest: denied with the hold while a cause is active; otherwise the
\* latch, if any, and the decision state go.
AnswerRelease ==
    /\ sdmAlive /\ up /\ up' = FALSE
    /\ IF cause
       THEN Emit({"RELEASE_DENIED"} \cup HoldPair) /\ UNCHANGED <<decision, sdmLatch>>
       ELSE Emit({"RELEASE_ACK", Rest}) /\ decision' = Rest /\ sdmLatch' = FALSE
    /\ UNCHANGED <<app, cause, sdmAlive, latches, window, action, prompt, sender, startup, silent,
                   rxRunning, copies>>

SdmDies ==
    /\ sdmAlive /\ sdmAlive' = FALSE
    /\ UNCHANGED <<app, decision, cause, sdmLatch, latches, down, up, window, action, prompt, sender,
                   startup, silent, rxRunning, copies>>

-----------------------------------------------------------------------------
(* handleReceive *)

PromptSet == {"SW_ERROR", "RELEASE_DENIED"}

\* Mutant: every command of an ongoing hold takes the prompt away again.
PromptClearedByHold == {"RELEASE_ACK", "NORMAL", "REDUCE", "ALARM", "MUTE", "STOP"}

\* The commands that say the SDM runs normally.  UNMUTE is also half of ATL's hold.
PromptCleared == {"RELEASE_ACK", "NORMAL", "REDUCE", "ALARM", "MUTE"}

\* The commands the window takes; the ATL receiver evaluates none.
Buffered == IF app = "atl" THEN {} ELSE {"STOP", "REDUCE", "ALARM", "NORMAL", "SW_ERROR"}

HandleReceive(c) ==
    /\ rxRunning /\ c \in down
    /\ \/ down' = down \ {c} /\ UNCHANGED copies
       \/ copies < MaxCopies /\ copies' = copies + 1 /\ UNCHANGED down
    /\ sender' = TRUE
    /\ silent' = IF c = "HEARTBEAT" THEN 0 ELSE silent
    /\ prompt' = IF c \in PromptSet THEN TRUE ELSE IF c \in PromptCleared THEN FALSE ELSE prompt
    /\ window' = window \cup ({c} \cap Buffered)
    /\ UNCHANGED <<app, sdmSide, up, action, startup, rxRunning>>

WorstOfWindow ==
    CASE "SW_ERROR" \in window -> "SW_ERROR"
      [] "STOP" \in window -> "STOP"
      [] "ALARM" \in window -> "ALARM"
      [] "REDUCE" \in window -> "REDUCE"
      [] OTHER -> "NORMAL"

\* windowedEvaluator; an empty window leaves the action.
WindowedEvaluator ==
    /\ rxRunning /\ window # {}
    /\ action' = WorstOfWindow /\ window' = {}
    /\ UNCHANGED <<app, sdmSide, down, up, prompt, sender, startup, silent, rxRunning, copies>>

-----------------------------------------------------------------------------
(* Releases. *)

\* sendSafeReleaseRequest: to the last sender, if it arrives.
SendSafeRelease == sender /\ up' \in {up, TRUE}

\* safeReleaseInputLoop: the operator answers the prompt.
OperatorReleases ==
    /\ rxRunning /\ prompt /\ SendSafeRelease
    /\ UNCHANGED <<app, sdmSide, down, window, action, prompt, sender, startup, silent, rxRunning, copies>>

\* startupSafeReleaseLoop: once, some time after the first packet, whatever the prompt.
StartupSafeRelease ==
    /\ rxRunning /\ sender
    /\ \/ startup = "wait" /\ startup' = "settle" /\ UNCHANGED up
       \/ startup = "settle" /\ startup' = "done" /\ SendSafeRelease
    /\ UNCHANGED <<app, sdmSide, down, window, action, prompt, sender, silent, rxRunning, copies>>

-----------------------------------------------------------------------------
(* upstreamHeartbeatWatchdog *)

\* missCountFromElapsedMs
MissCount(elapsed) ==
    IF elapsed <= RxStale THEN 0
    ELSE LET m == 1 + (elapsed - RxStale) \div RxPeriod IN IF m > RxMaxHb THEN RxMaxHb ELSE m

UpstreamHeartbeatWatchdog ==
    /\ rxRunning /\ MissCount(silent) >= RxMaxHb
    /\ rxRunning' = FALSE
    /\ UNCHANGED <<app, sdmSide, down, up, window, action, prompt, sender, startup, silent, copies>>

RxLongest == RxStale + RxMaxHb * RxPeriod
RxElapse ==
    /\ rxRunning /\ silent < RxLongest /\ silent' = silent + 1
    /\ UNCHANGED <<app, sdmSide, down, up, window, action, prompt, sender, startup, rxRunning, copies>>

\* signalHandler, requestStop
RxStop ==
    /\ rxRunning /\ rxRunning' = FALSE
    /\ UNCHANGED <<app, sdmSide, down, up, window, action, prompt, sender, startup, silent, copies>>

-----------------------------------------------------------------------------
ReceiverInit ==
    /\ app \in Apps /\ decision = Rest
    /\ cause = FALSE /\ sdmLatch = FALSE /\ sdmAlive = TRUE /\ latches = 0
    /\ down = {} /\ up = FALSE /\ window = {} /\ action = "NORMAL" /\ prompt = FALSE
    /\ sender = FALSE /\ startup = "wait" /\ silent = 0 /\ rxRunning = TRUE /\ copies = 0

SdmEnd == \/ SdmRepeats
          \/ SdmDecides \/ SdmLatches \/ CauseEnds \/ HeartbeatTransmitter \/ AnswerRelease \/ SdmDies

\* The three receivers, each from its own source.
AtlHandleReceive(c) == HandleReceive(c)
AtlReleaseInput == OperatorReleases
AtlStartupRelease == StartupSafeRelease
AtlHbWatchdog == UpstreamHeartbeatWatchdog
AtlRx == (\E c \in down : AtlHandleReceive(c)) \/ AtlReleaseInput \/ AtlStartupRelease \/ AtlHbWatchdog

CjsHandleReceive(c) == HandleReceive(c)
CjsEvaluator == WindowedEvaluator
CjsReleaseInput == OperatorReleases
CjsStartupRelease == StartupSafeRelease
CjsHbWatchdog == UpstreamHeartbeatWatchdog
CjsRx == \/ \E c \in down : CjsHandleReceive(c)
         \/ CjsEvaluator \/ CjsReleaseInput \/ CjsStartupRelease \/ CjsHbWatchdog

PxRx == \/ \E c \in down : HandleReceive(c)
        \/ WindowedEvaluator \/ OperatorReleases \/ StartupSafeRelease \/ UpstreamHeartbeatWatchdog

ReceiverNext ==
    \/ SdmEnd \/ RxElapse \/ RxStop
    \/ app = "atl" /\ AtlRx
    \/ app = "crossing" /\ CjsRx
    \/ app = "proximity" /\ PxRx

Lesser == {"MUTE", "NORMAL", "REDUCE", "ALARM", "RELEASE_ACK", "RELEASE_DENIED"}

\* The SDM repeats its command while it lives, a datagram sent again and again arrives,
\* the receiver's threads run and time passes.  The operator, once prompted for good,
\* answers; a cause ends.
ReceiverFairness ==
    /\ SF_receiverVars(SdmRepeats /\ Out \subseteq down')
    /\ WF_receiverVars(CauseEnds)
    /\ WF_receiverVars(HandleReceive("SW_ERROR"))
    /\ WF_receiverVars(HandleReceive("STOP") \/ HandleReceive("UNMUTE"))
    /\ WF_receiverVars(\E c \in Lesser : HandleReceive(c))
    /\ WF_receiverVars(WindowedEvaluator)
    /\ WF_receiverVars(OperatorReleases /\ up') /\ WF_receiverVars(AnswerRelease)
    /\ WF_receiverVars(UpstreamHeartbeatWatchdog) /\ WF_receiverVars(RxElapse)

ReceiverSpec == ReceiverInit /\ [][ReceiverNext]_receiverVars /\ ReceiverFairness

-----------------------------------------------------------------------------
(* Properties. *)

ReceiverTypeOK ==
    /\ app \in Apps /\ decision \in Decisions
    /\ window \subseteq Buffered /\ action \in {"NORMAL", "REDUCE", "ALARM", "STOP", "SW_ERROR"}
    /\ silent \in 0..RxLongest /\ startup \in {"wait", "settle", "done"}
    /\ prompt => sender

(* A window that holds any command of the safe hold is never evaluated to   *)
(* less (windowedEvaluator), whatever else arrived in it, early or late.    *)
HoldWinsWindow ==
    [][(window # {} /\ window' = {} /\ window \cap HoldPair # {}) => action' \in HoldPair]_receiverVars

(* The machine comes to rest: a receiver that keeps running sees the hold of *)
(* a latched SDM, though UDP may lose any one of its packets and bring older *)
(* commands after them.                                                     *)
HoldArrives ==
    (sdmLatch /\ app # "atl") ~> (action \in HoldPair \/ ~sdmLatch \/ ~sdmAlive \/ ~rxRunning)

(* A latch can be released: the prompt reaches the operator and the request *)
(* reaches the SDM, unless one of the processes is gone.                    *)
ReleaseSucceeds == sdmLatch ~> (~sdmLatch \/ ~sdmAlive \/ ~rxRunning)

(* A receiver whose SDM is gone stops, also if late heartbeats still come.  *)
SilenceStops == ~sdmAlive ~> ~rxRunning
=============================================================================
