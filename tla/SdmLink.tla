------------------------------- MODULE SdmLink -------------------------------
(***************************************************************************)
(* The link of a decision module to the gateway: launch, registration,     *)
(* heartbeat, loss of the connection and shutdown.  The four SDMs carry    *)
(* copies of this code; module says whose runs, and the differences        *)
(* between the copies are named where they matter.  What the heartbeat     *)
(* fault does to the command is in SdmControl.                             *)
(*                                                                         *)
(* Of the gateway only its end of this link is here: it comes and goes,    *)
(* accepts or refuses a registration, drops a connection and sends         *)
(* heartbeats to a registered one.  PsdGateway is the gateway itself.      *)
(***************************************************************************)
EXTENDS Integers

CONSTANTS
    HbStale,       \* g_hbStaleMs, in ticks
    HbPeriod,      \* g_hbPeriodMs, in ticks
    MaxHbChoices,  \* the values of --max_hb_failures tried
    MaxTrouble     \* bound: faults of the gateway and refused sends

ASSUME LinkAssumption ==
    HbStale \in Nat /\ HbPeriod \in Nat \ {0} /\ MaxTrouble \in Nat /\ MaxHbChoices \subseteq Nat

VARIABLES
    module,       \* which decision module
    options,   \* what is wrong with the options of the launch, "ok" if nothing
    maxHb,     \* g_maxHbFailuresCfg
    gateway,   \* the gateway runs
    gwConn,      \* gwTransport: none, live, or dead: the gateway's end is closed
    enrolled,  \* the gateway has this connection registered
    regDue,    \* lastRegistrationTime is REG_RETRY_INTERVAL_MS ago
    attempts,  \* regrTier2AttemptsRemaining
    quiet,     \* ticks since hbLastRecvTime
    lastMiss,  \* g_lastGatewayHbMissCount, and prevMiss of the watchdog
    hbFault,   \* hbFaultLatched
    latchedElse, \* another cause is in safeStateLatchCauses
    ackDue,    \* hbAckPending
    lpc,       \* where the launching thread, later the listener, is
    signalled, \* g_signal_received
    stopping,  \* signalShutdownRequested
    inbox,     \* what the gateway sent and the listener has not read
    asked,     \* history: a stop signal came since the handlers were installed
    spent,     \* history: registrations tried in this stay in tier 2
    trouble    \* faults so far

linkVars == <<module, options, maxHb, gateway, gwConn, enrolled, regDue, attempts, quiet, lastMiss,
              hbFault, latchedElse, ackDue, lpc, signalled, stopping, inbox, asked, spent, trouble>>
gatewaySide == <<gateway, inbox, trouble>>
config == <<module, options, maxHb>>

Modules == {"atl", "proximity", "crossing", "atlProximity"}
Warn == maxHb \div 2
Ended == lpc \in {"refused", "closed"}

-----------------------------------------------------------------------------
(* Launch. *)

\* The options a launch refuses, beside a heartbeat limit of zero.
Checked(s) ==
    {"ports", "repeat", "timing", "freshness", "address"}
    \cup (CASE s = "proximity" -> {"binding", "halo", "sensors"}
            [] s = "atl" -> {"binding", "sensors"}
            [] s = "crossing" -> {"halo", "junction"}
            [] s = "atlProximity" -> {"sensors", "ttl"})

LinkInit ==
    /\ module \in Modules /\ options \in {"ok", "usage"} \cup Checked(module) /\ maxHb \in MaxHbChoices
    /\ gateway \in BOOLEAN /\ gwConn = "none" /\ enrolled = FALSE /\ regDue = FALSE
    /\ attempts = 0 /\ quiet = 0 /\ lastMiss = 0 /\ hbFault = FALSE /\ latchedElse = FALSE
    /\ ackDue = FALSE /\ lpc = "args" /\ signalled = FALSE /\ stopping = FALSE
    /\ inbox = {} /\ asked = FALSE /\ spent = 0 /\ trouble = 0

\* main: an option it does not know, or cannot read, ends the process.
MainArgs ==
    /\ lpc = "args"
    /\ lpc' = IF options = "usage" THEN "refused" ELSE "launch"
    /\ UNCHANGED <<config, gatewaySide, gwConn, enrolled, regDue, attempts, quiet, lastMiss, hbFault,
                   latchedElse, ackDue, signalled, stopping, asked, spent>>

LaunchAccepts == options = "ok" /\ maxHb > 0

\* The checks of the launch, in whatever order: any of them refuses it.
LaunchCheck ==
    /\ lpc = "launch"
    /\ lpc' = IF LaunchAccepts THEN "open" ELSE "refused"
    /\ UNCHANGED <<config, gatewaySide, gwConn, enrolled, regDue, attempts, quiet, lastMiss, hbFault,
                   latchedElse, ackDue, signalled, stopping, asked, spent>>

\* sendGatewayRegistration on an open connection: the gateway takes it, answers REGX,
\* or the send is refused.  ok is what the function returns.
Enrol(ok) ==
    \/ ok /\ enrolled' = TRUE /\ UNCHANGED <<inbox, trouble>>
    \/ ok /\ trouble < MaxTrouble /\ trouble' = trouble + 1
       /\ inbox' = inbox \cup {"REGX"} /\ UNCHANGED enrolled
    \/ ~ok /\ trouble < MaxTrouble /\ trouble' = trouble + 1 /\ UNCHANGED <<enrolled, inbox>>

\* openGatewayTransport and the first REGR.  The combined module closes a connection it
\* could not register on; the others keep it for the event loop to register.
LaunchOpen ==
    /\ lpc = "open" /\ lpc' = "reset"
    /\ \/ gateway /\ Enrol(TRUE) /\ gwConn' = "live" /\ regDue' = FALSE
       \/ gateway /\ Enrol(FALSE) /\ regDue' = TRUE
          /\ gwConn' = IF module = "atlProximity" THEN "none" ELSE "live"
       \/ ~gateway /\ gwConn' = "none" /\ regDue' = TRUE /\ UNCHANGED <<enrolled, inbox, trouble>>
    /\ UNCHANGED <<config, gateway, attempts, quiet, lastMiss, hbFault, latchedElse, ackDue,
                   signalled, stopping, asked, spent>>

\* The state the threads start from.  The crossing module clears the signal flag here,
\* after its handlers are installed.
LaunchReset ==
    /\ lpc = "reset" /\ lpc' = "top"
    /\ stopping' = FALSE /\ quiet' = 0 /\ lastMiss' = 0 /\ hbFault' = FALSE /\ attempts' = 0
    /\ signalled' = (signalled /\ module # "crossing")
    /\ UNCHANGED <<config, gatewaySide, gwConn, enrolled, regDue, latchedElse, ackDue, asked, spent>>

-----------------------------------------------------------------------------
(* psdGatewayEventListener. *)

\* The loop's condition, the signal, and flushPendingHbAck: sent, refused for good, or kept.
LoopTop ==
    /\ lpc = "top"
    /\ IF stopping THEN lpc' = "exit" /\ UNCHANGED <<stopping, ackDue>>
       ELSE /\ lpc' = "retry" /\ stopping' = signalled
            /\ ackDue' \in IF gwConn = "none" THEN {ackDue} ELSE {FALSE, ackDue}
    /\ UNCHANGED <<config, gatewaySide, gwConn, enrolled, regDue, attempts, quiet, lastMiss, hbFault,
                   latchedElse, signalled, asked, spent>>

\* Mutant: a latched module does not register.
RegistrationAllowedUnlatched ==
    \/ lastMiss <= Warn
    \/ lastMiss < maxHb /\ attempts > 0

\* The registration may be repeated: while latched, below tier 2, or on tier 2's budget.
RegistrationAllowed ==
    \/ hbFault \/ latchedElse
    \/ lastMiss <= Warn
    \/ lastMiss < maxHb /\ attempts > 0

OnBudget == ~hbFault /\ ~latchedElse /\ lastMiss > Warn

\* One send, without waiting for the socket; on a connection the gateway closed it fails.
RetryRegistration ==
    /\ lpc = "retry" /\ lpc' = "poll"
    /\ IF regDue /\ RegistrationAllowed
       THEN /\ attempts' = IF OnBudget /\ attempts > 0 THEN attempts - 1 ELSE attempts
            /\ spent' = IF OnBudget THEN spent + 1 ELSE spent
            /\ IF gwConn = "live"
               THEN \E ok \in BOOLEAN : Enrol(ok) /\ regDue' = ~ok
               ELSE UNCHANGED <<enrolled, inbox, trouble, regDue>>
       ELSE UNCHANGED <<attempts, spent, enrolled, inbox, trouble, regDue>>
    /\ UNCHANGED <<config, gateway, gwConn, quiet, lastMiss, hbFault, latchedElse, ackDue, signalled,
                   stopping, asked>>

\* Nothing connected, or the gateway's end is gone: close and reconnect.
PollGone ==
    /\ lpc = "poll" /\ gwConn # "live"
    /\ lpc' = "reconnect" /\ gwConn' = "none" /\ enrolled' = FALSE
    /\ UNCHANGED <<config, gatewaySide, regDue, attempts, quiet, lastMiss, hbFault, latchedElse,
                   ackDue, signalled, stopping, asked, spent>>

\* A heartbeat restarts the clock and is acknowledged (emitHbAckTryOnce keeps an ACK the
\* socket would not take; the combined module sends it once).  A refusal is logged.
PollMessage ==
    /\ lpc = "poll" /\ gwConn = "live" /\ lpc' = "top"
    /\ \E m \in inbox :
         /\ inbox' = inbox \ {m}
         /\ IF m = "HB"
            THEN quiet' = 0 /\ ackDue' \in IF module = "atlProximity" THEN {FALSE} ELSE BOOLEAN
            ELSE UNCHANGED <<quiet, ackDue>>
    /\ UNCHANGED <<config, gateway, trouble, gwConn, enrolled, regDue, attempts, lastMiss, hbFault,
                   latchedElse, signalled, stopping, asked, spent>>

PollNothing ==
    /\ lpc = "poll" /\ gwConn = "live" /\ inbox = {} /\ lpc' = "top"
    /\ UNCHANGED <<config, gatewaySide, gwConn, enrolled, regDue, attempts, quiet, lastMiss, hbFault,
                   latchedElse, ackDue, signalled, stopping, asked, spent>>

\* A poll or a receive that fails for another reason, or an oversized message: the loop
\* goes round again.  A failure that never ends is not modelled (MaxTrouble).
PollFails ==
    /\ lpc = "poll" /\ gwConn # "none" /\ lpc' = "top"
    /\ trouble < MaxTrouble /\ trouble' = trouble + 1
    /\ UNCHANGED <<config, gateway, inbox, gwConn, enrolled, regDue, attempts, quiet, lastMiss,
                   hbFault, latchedElse, ackDue, signalled, stopping, asked, spent>>

Poll == PollGone \/ PollMessage \/ PollNothing \/ PollFails

\* reconnectGatewayTransport: one turn of its loop.  A connection that cannot be
\* registered is closed again.
Reconnect ==
    /\ lpc = "reconnect"
    /\ IF stopping THEN lpc' = "exit" /\ UNCHANGED <<gwConn, regDue, enrolled, inbox, trouble, stopping>>
       ELSE /\ stopping' = signalled
            /\ \/ /\ gateway /\ Enrol(TRUE)
                  /\ gwConn' = "live" /\ regDue' = FALSE /\ lpc' = "top"
               \/ gateway /\ Enrol(FALSE) /\ UNCHANGED <<gwConn, regDue, lpc>>
               \/ ~gateway /\ UNCHANGED <<gwConn, regDue, lpc, enrolled, inbox, trouble>>
    /\ UNCHANGED <<config, gateway, attempts, quiet, lastMiss, hbFault, latchedElse, ackDue,
                   signalled, asked, spent>>

\* The listener returned: threads joined, sockets and transport closed.
Shutdown ==
    /\ lpc = "exit" /\ lpc' = "closed"
    /\ gwConn' = "none" /\ enrolled' = FALSE /\ inbox' = {}
    /\ UNCHANGED <<config, gateway, trouble, regDue, attempts, quiet, lastMiss, hbFault, latchedElse,
                   ackDue, signalled, stopping, asked, spent>>

-----------------------------------------------------------------------------
(* gatewayHeartbeatWatchdog, time, signals. *)

\* gatewayMissFromElapsedMs
MissFromElapsed(elapsed) ==
    IF elapsed <= HbStale THEN 0
    ELSE LET m == 1 + (elapsed - HbStale) \div HbPeriod IN IF m > maxHb THEN maxHb ELSE m

Running == lpc \in {"top", "retry", "poll", "reconnect"}

\* The fault goes with the first heartbeat in time; the latch it leaves stays.  Tier 2 is
\* entered from the warning band, with a budget of registrations.
WatchdogTick ==
    LET m == MissFromElapsed(quiet)
        enters == m > Warn /\ m < maxHb /\ lastMiss <= Warn
    IN  /\ Running
        /\ lastMiss' = m
        /\ hbFault' = (IF m >= maxHb THEN TRUE ELSE m # 0 /\ hbFault)
        /\ latchedElse' = (latchedElse \/ m >= maxHb)
        /\ attempts' = IF enters THEN IF maxHb > Warn + 1 THEN maxHb - Warn - 1 ELSE 0 ELSE attempts
        /\ spent' = IF m <= Warn THEN 0 ELSE spent
        /\ UNCHANGED <<config, gatewaySide, gwConn, enrolled, regDue, quiet, ackDue, lpc,
                       signalled, stopping, asked>>

\* A PLC release clears the latch while no cause is active (handleSafeReleaseRequest).
ReleaseLatch ==
    /\ Running /\ latchedElse /\ ~hbFault /\ lastMiss <= Warn
    /\ latchedElse' = FALSE
    /\ UNCHANGED <<config, gatewaySide, gwConn, enrolled, regDue, attempts, quiet, lastMiss, hbFault,
                   ackDue, lpc, signalled, stopping, asked, spent>>

Longest == HbStale + maxHb * HbPeriod
Elapse ==
    /\ Running /\ quiet < Longest /\ quiet' = quiet + 1
    /\ UNCHANGED <<config, gatewaySide, gwConn, enrolled, regDue, attempts, lastMiss, hbFault,
                   latchedElse, ackDue, lpc, signalled, stopping, asked, spent>>

RetryComesDue ==
    /\ Running /\ ~regDue /\ regDue' = TRUE
    /\ UNCHANGED <<config, gatewaySide, gwConn, enrolled, attempts, quiet, lastMiss, hbFault,
                   latchedElse, ackDue, lpc, signalled, stopping, asked, spent>>

\* signalHandler
SignalHandler ==
    /\ ~asked /\ lpc \notin {"args", "launch"} /\ ~Ended
    /\ signalled' = TRUE /\ asked' = TRUE
    /\ UNCHANGED <<config, gatewaySide, gwConn, enrolled, regDue, attempts, quiet, lastMiss, hbFault,
                   latchedElse, ackDue, lpc, stopping, spent>>

-----------------------------------------------------------------------------
(* The gateway. *)

Lost == /\ gwConn' = IF gwConn = "live" THEN "dead" ELSE gwConn
        /\ enrolled' = FALSE /\ inbox' = {}
ours == <<config, regDue, attempts, quiet, lastMiss, hbFault, latchedElse, ackDue, lpc, signalled,
          stopping, asked, spent>>

GatewayCrash ==
    /\ gateway /\ trouble < MaxTrouble /\ trouble' = trouble + 1
    /\ gateway' = FALSE /\ Lost /\ UNCHANGED ours
GatewayStart ==
    /\ ~gateway /\ gateway' = TRUE
    /\ UNCHANGED <<ours, gwConn, enrolled, inbox, trouble>>
GatewayDrops ==
    /\ gwConn = "live" /\ trouble < MaxTrouble /\ trouble' = trouble + 1
    /\ Lost /\ UNCHANGED <<ours, gateway>>
GatewayHeartbeat ==
    /\ gateway /\ enrolled /\ "HB" \notin inbox /\ inbox' = inbox \cup {"HB"}
    /\ UNCHANGED <<ours, gateway, gwConn, enrolled, trouble>>
Gateway == GatewayCrash \/ GatewayStart \/ GatewayDrops \/ GatewayHeartbeat

-----------------------------------------------------------------------------
(* The four SDMs, each from its own source. *)

AtlMainArgs == MainArgs
AtlLaunchCheck == LaunchCheck
AtlLaunchOpen == LaunchOpen
AtlLaunchReset == LaunchReset
AtlRetryRegistration == LoopTop \/ RetryRegistration
AtlPoll == Poll
AtlReconnect == Reconnect
AtlWatchdog == WatchdogTick
AtlShutdown == Shutdown
AtlNext == AtlMainArgs \/ AtlLaunchCheck \/ AtlLaunchOpen \/ AtlLaunchReset \/ AtlRetryRegistration \/ AtlPoll
           \/ AtlReconnect \/ AtlWatchdog \/ AtlShutdown

CjsMainArgs == MainArgs
CjsLaunchCheck == LaunchCheck
CjsLaunchOpen == LaunchOpen
CjsLaunchReset == LaunchReset
CjsRetryRegistration == LoopTop \/ RetryRegistration
CjsPoll == Poll
CjsReconnect == Reconnect
CjsWatchdog == WatchdogTick
CjsShutdown == Shutdown
CjsNext == CjsMainArgs \/ CjsLaunchCheck \/ CjsLaunchOpen \/ CjsLaunchReset \/ CjsRetryRegistration \/ CjsPoll
           \/ CjsReconnect \/ CjsWatchdog \/ CjsShutdown

ApxMainArgs == MainArgs
ApxLaunchCheck == LaunchCheck
ApxLaunchOpen == LaunchOpen
ApxLaunchReset == LaunchReset
ApxRetryRegistration == LoopTop \/ RetryRegistration
ApxPoll == Poll
ApxReconnect == Reconnect
ApxWatchdog == WatchdogTick
ApxShutdown == Shutdown
ApxNext == ApxMainArgs \/ ApxLaunchCheck \/ ApxLaunchOpen \/ ApxLaunchReset \/ ApxRetryRegistration \/ ApxPoll
           \/ ApxReconnect \/ ApxWatchdog \/ ApxShutdown

PxNext == MainArgs \/ LaunchCheck \/ LaunchOpen \/ LaunchReset \/ LoopTop \/ RetryRegistration \/ Poll
          \/ Reconnect \/ WatchdogTick \/ Shutdown

SdmSteps ==
    \/ module = "atl" /\ AtlNext
    \/ module = "crossing" /\ CjsNext
    \/ module = "atlProximity" /\ ApxNext
    \/ module = "proximity" /\ PxNext

LinkNext ==
    SdmSteps \/ ReleaseLatch \/ Elapse \/ RetryComesDue \/ SignalHandler \/ Gateway

\* The main thread and the watchdog keep running and time passes.  A gateway that is down
\* need not come back.
LinkFairness ==
    /\ WF_linkVars(MainArgs \/ LaunchCheck \/ LaunchOpen \/ LaunchReset \/ LoopTop \/ RetryRegistration \/ Poll
                   \/ Reconnect \/ Shutdown)
    /\ WF_linkVars(WatchdogTick) /\ WF_linkVars(Elapse) /\ WF_linkVars(RetryComesDue)

LinkSpec == LinkInit /\ [][LinkNext]_linkVars /\ LinkFairness

-----------------------------------------------------------------------------
(* Properties. *)

LinkTypeOK ==
    /\ module \in Modules /\ maxHb \in MaxHbChoices
    /\ gwConn \in {"none", "live", "dead"} /\ inbox \subseteq {"HB", "REGX"}
    /\ lastMiss \in 0..maxHb /\ quiet \in 0..Longest /\ trouble \in 0..MaxTrouble
    /\ attempts \in 0..maxHb
    /\ enrolled => gwConn = "live"

(* Tier 2 is "bounded REGR": between the entry into the band and the first   *)
(* heartbeat in time no more registrations go out on its account than its   *)
(* budget, though the listener takes from the budget while the watchdog     *)
(* fills it (regrTier2AttemptsRemaining).                                   *)
Tier2Bounded == spent <= (IF maxHb > Warn + 1 THEN maxHb - Warn - 1 ELSE 0)

(* Once the gateway is up for good the SDM is registered again and stays    *)
(* so, unless it was told to stop: not even the heartbeat tiers, an         *)
(* exhausted budget or a refusal keep it out.                               *)
RegisteredAgain == <>[]gateway => <>[](enrolled \/ signalled \/ lpc = "refused")

(* A stop signal ends the process, also while it waits for a gateway that   *)
(* never comes.  The crossing module forgets a signal that comes before its *)
(* launch clears the flag.                                                  *)
StopHonoured == (signalled /\ (module # "crossing" \/ Running)) ~> Ended
=============================================================================
