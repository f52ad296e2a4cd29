------------------------------- MODULE PlcAcks -------------------------------
(***************************************************************************)
(* The numbered commands of an SDM and their acknowledgments: the counter  *)
(* shared by every thread that sends (nextCommandSeq), the commands that   *)
(* wait (pendingCommands) and the loop that matches and expires them       *)
(* (ackHandlerLoop).  The four SDMs carry copies; issuer says whose runs.  *)
(* The network keeps a packet for fewer than SeqMod further commands.      *)
(***************************************************************************)
EXTENDS Integers

CONSTANTS
    SeqMod,       \* 2^16: nextCommandSeq keeps 16 bits of the counter
    AckTimeout,   \* ACK_TIMEOUT_SECONDS, in ticks
    AckCleanup,   \* ACK_CLEANUP_SECONDS
    MaxCommands,  \* bound: commands sent
    LastSecond,   \* bound: ticks
    NoCommandStatus

ASSUME AckAssumption ==
    /\ SeqMod \in Nat \ {0} /\ AckTimeout \in Nat /\ AckCleanup \in Nat
    /\ MaxCommands \in Nat /\ LastSecond \in Nat

VARIABLES
    issuer,       \* which SDM
    cmdSeqNo,     \* cmdSeqNo: commands so far
    pendingCommands,
    wire,         \* packets on their way, each [seq, cmd, nth]
    answers,      \* acknowledgments on their way
    second,       \* the time
    arrived       \* history: the commands the receiver took

ackVars == <<issuer, cmdSeqNo, pendingCommands, wire, answers, second, arrived>>

Issuers == {"atl", "proximity", "crossing", "atlProximity"}
Tracked(s) == CASE s = "atl" -> {"MUTE", "SW_ERROR"} [] s = "crossing" -> {"ALARM", "STOP"}
                [] OTHER -> {"REDUCE", "STOP"}

\* Mutant: the counter is read and advanced in two steps, and two threads take one number.
NextCommandSeqTorn(n) == (n \div 2) % SeqMod

\* nextCommandSeq
NextCommandSeq(n) == n % SeqMod

\* The network has forgotten the packets from SeqMod commands ago.
Recent(packets) == {p \in packets : cmdSeqNo - p.nth < SeqMod}

\* sendDecisionCommand: the entry is made before the packet leaves, and taken back if it
\* could not leave.  A heartbeat takes a number and is not tracked.
SendDecisionCommand(cmd) ==
    LET seq == NextCommandSeq(cmdSeqNo)
        packet == [seq |-> seq, cmd |-> cmd, nth |-> cmdSeqNo]
    IN  /\ cmdSeqNo < MaxCommands /\ cmdSeqNo' = cmdSeqNo + 1
        /\ \/ /\ wire' = Recent(wire) \cup {packet}
              /\ pendingCommands' =
                   IF cmd = "HEARTBEAT" THEN pendingCommands
                   ELSE [pendingCommands EXCEPT ![seq] =
                           [cmd |-> cmd, at |-> second, acked |-> FALSE, nth |-> cmdSeqNo]]
           \/ /\ pendingCommands' = IF cmd = "HEARTBEAT" THEN pendingCommands
                                    ELSE [pendingCommands EXCEPT ![seq] = NoCommandStatus]
              /\ wire' = Recent(wire)
        /\ answers' = Recent(answers)
        /\ UNCHANGED <<issuer, second, arrived>>

\* handleReceive of a receiver takes a packet, perhaps for the second time, and answers all
\* but heartbeats; any of it may be lost.
Arrive(p) ==
    /\ wire' \in {wire, wire \ {p}}
    /\ arrived' = arrived \cup {p.nth}
    /\ answers' \in {answers, IF p.cmd = "HEARTBEAT" THEN answers ELSE answers \cup {p}}
    /\ UNCHANGED <<issuer, cmdSeqNo, pendingCommands, second>>

\* ackHandlerLoop: an acknowledgment counts for the entry of its number if the command agrees.
AckHandler(a) ==
    /\ answers' \in {answers, answers \ {a}}
    /\ LET e == pendingCommands[a.seq]
       IN  pendingCommands' = IF e # NoCommandStatus /\ e.cmd = a.cmd
                              THEN [pendingCommands EXCEPT ![a.seq].acked = TRUE]
                              ELSE pendingCommands
    /\ UNCHANGED <<issuer, cmdSeqNo, wire, second, arrived>>

\* Its scan: what was acknowledged goes after a while, the rest with a warning.
Expires(e) == e # NoCommandStatus /\ second - e.at > (IF e.acked THEN AckCleanup ELSE AckTimeout)
TimeoutScan ==
    /\ \E s \in DOMAIN pendingCommands : Expires(pendingCommands[s])
    /\ pendingCommands' = [s \in DOMAIN pendingCommands |->
                             IF Expires(pendingCommands[s]) THEN NoCommandStatus ELSE pendingCommands[s]]
    /\ UNCHANGED <<issuer, cmdSeqNo, wire, answers, second, arrived>>

SecondPasses ==
    /\ second < LastSecond /\ second' = second + 1
    /\ UNCHANGED <<issuer, cmdSeqNo, pendingCommands, wire, answers, arrived>>

AckInit ==
    /\ issuer \in Issuers /\ cmdSeqNo = 0 /\ second = 0
    /\ pendingCommands = [s \in 0..(SeqMod - 1) |-> NoCommandStatus]
    /\ wire = {} /\ answers = {} /\ arrived = {}

\* The four SDMs, each from its own source.
AtlSend(cmd) == SendDecisionCommand(cmd)
AtlAckHandler == (\E a \in answers : AckHandler(a)) \/ TimeoutScan
CjsSend(cmd) == SendDecisionCommand(cmd)
CjsAckHandler == (\E a \in answers : AckHandler(a)) \/ TimeoutScan
ApxSend(cmd) == SendDecisionCommand(cmd)
ApxAckHandler == (\E a \in answers : AckHandler(a)) \/ TimeoutScan
PxAckHandler == (\E a \in answers : AckHandler(a)) \/ TimeoutScan

AckNext ==
    \/ \E cmd \in Tracked(issuer) \cup {"HEARTBEAT"} :
         \/ issuer = "atl" /\ AtlSend(cmd)
         \/ issuer = "crossing" /\ CjsSend(cmd)
         \/ issuer = "atlProximity" /\ ApxSend(cmd)
         \/ issuer = "proximity" /\ SendDecisionCommand(cmd)
    \/ issuer = "atl" /\ AtlAckHandler
    \/ issuer = "crossing" /\ CjsAckHandler
    \/ issuer = "atlProximity" /\ ApxAckHandler
    \/ issuer = "proximity" /\ PxAckHandler
    \/ \E p \in wire : Arrive(p)
    \/ SecondPasses

AckSpec == AckInit /\ [][AckNext]_ackVars

-----------------------------------------------------------------------------
(* Properties. *)

AckTypeOK ==
    /\ issuer \in Issuers /\ cmdSeqNo \in 0..MaxCommands /\ second \in 0..LastSecond
    /\ \A s \in DOMAIN pendingCommands :
         pendingCommands[s] # NoCommandStatus => pendingCommands[s].cmd \in Tracked(issuer)

(* A command counts as acknowledged only if the receiver took that very     *)
(* command: neither a repeated acknowledgment, nor one of an earlier user   *)
(* of the number, nor one of a heartbeat in between makes it so.            *)
AckGenuine ==
    \A s \in DOMAIN pendingCommands :
        (pendingCommands[s] # NoCommandStatus /\ pendingCommands[s].acked)
          => pendingCommands[s].nth \in arrived
=============================================================================
