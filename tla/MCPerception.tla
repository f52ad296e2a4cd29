---------------------------- MODULE MCPerception ----------------------------
(***************************************************************************)
(* In scenes whose state spaces add: the perception monitor; the RTSP      *)
(* session of the AI monitor.                                              *)
(***************************************************************************)
EXTENDS PerceptionMonitor, RtspSession, TLC

VARIABLE scene

MCvars == <<vars, sessionVars, scene>>

-----------------------------------------------------------------------------
(* The perception monitor. *)

(* With both checks on, Docker knows only good, faulty and missing         *)
(* containers and the DVM only frames, silence and outages: each check     *)
(* alone shows the rest.                                                   *)
Both == checks = AllChecks
MCHealth ==
    \/ \E a \in [Containers -> IF Both THEN {"fault", "ok"} ELSE Answers] :
          CheckHealth(a) /\ (Both => Cardinality({a[c] : c \in Containers}) = 1)
    \/ DockerFails
MCDvm ==
    \/ \E s \in Cameras \cup Strangers, bad, fresh \in BOOLEAN :
          (Both => s \in Cameras /\ fresh) /\ Frame(s, bad, fresh)
    \/ ~Both /\ Undecodable
    \/ Disconnected \/ CloseWindow

-----------------------------------------------------------------------------
(* The RTSP session. *)

Fu(s, q, u, f, n, t) ==
    [ssrc |-> s, seq |-> q, kind |-> "fu", units |-> <<>>, unit |-> u, frag |-> f, last |-> n,
     type |-> t, big |-> FALSE]
Whole1(s, q, k, ts) ==
    [ssrc |-> s, seq |-> q, kind |-> k, units |-> ts, unit |-> 0, frag |-> 0, last |-> 0,
     type |-> "none", big |-> FALSE]

(* Source 1 sends a keyframe of three fragments across the wrap of the    *)
(* sequence numbers, a slice, a slice of two fragments, and parameter sets *)
(* with a slice in one packet; source 2 numbers its fragments so that one  *)
(* follows on source 1's.  No source has two units under one number: the   *)
(* network does not lose a whole cycle of numbers.                         *)
MCPackets ==
    {Fu(1, 4, 1, 1, 3, "idr"), Fu(1, 5, 1, 2, 3, "idr"), Fu(1, 0, 1, 3, 3, "idr"),
     [Fu(1, 5, 1, 2, 3, "idr") EXCEPT !.big = TRUE],
     Whole1(1, 1, "single", <<"slice">>),
     Fu(1, 2, 2, 1, 2, "slice"), Fu(1, 3, 2, 2, 2, "slice"),
     Whole1(1, 1, "stap", <<"param", "slice">>), Whole1(1, 1, "other", <<>>),
     Fu(2, 4, 3, 1, 2, "idr"), Fu(2, 5, 3, 2, 2, "idr")}

-----------------------------------------------------------------------------
MCInit ==
    /\ scene \in {"monitor", "rtsp"}
    /\ Init /\ RtspInit
    /\ scene = "rtsp" => checks = {}

MCNext ==
    /\ UNCHANGED scene
    /\ \/ scene = "monitor" /\ (MCHealth \/ MCDvm \/ Tick) /\ UNCHANGED sessionVars
       \/ scene = "rtsp" /\ RtspNext /\ UNCHANGED vars

\* The fairness of the monitor's tick and of the session's threads, of the steps a scene has.
Session == scene = "rtsp"
MCSpec ==
    /\ MCInit /\ [][MCNext]_MCvars
    /\ WF_vars(scene = "monitor" /\ Tick)
    /\ WF_sessionVars(Session /\ (Describe \/ Setup \/ Play))
    /\ WF_sessionVars(Session /\ Push) /\ WF_sessionVars(Session /\ (LeaveLoop \/ ReceiverDone))
    /\ WF_sessionVars(Session /\ (Pop \/ PopEnds)) /\ WF_sessionVars(Session /\ (DecodeDone \/ Join))
=============================================================================
