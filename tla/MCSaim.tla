------------------------------- MODULE MCSaim -------------------------------
(***************************************************************************)
(* SaimVerdict for TLC.  A behaviour plays one scene: the FU-A alert, the  *)
(* gate watchdog, the analyzer's failures, or a PSS that refuses reports   *)
(* and restarts and a process told to stop, beside the frames of sessions that come and go (one where  *)
(* the gate is watched).                                                    *)
(***************************************************************************)
EXTENDS SaimVerdict

VARIABLE scene

MCvars == <<vars, scene>>

Core ==
    \/ InitPipeline \/ ConnectFails \/ StreamEnds \/ GateOpens
    \/ (scene = "gate" => left.sessions = MaxSessions) /\ CreateParser
    \/ \E score \in {"low", "mid", "high"}, step \in 1..MaxStep : Frame(score, step)
    \/ ReportStep \/ Wake \/ Drain \/ SendOk \/ PassEnds \/ Reinforce \/ ReinforceDue

MCNext ==
    /\ UNCHANGED scene
    /\ \/ Core
       \/ scene # "gate" /\ (GiveUp \/ ParserFails \/ StopReporter)
       \/ scene = "drops" /\ (FuaAlert \/ DwellEnds)
       \/ scene = "gate" /\ \/ DeadlinePasses
                            \/ \E t \in {"decode", "rtsp"} : GateTick(t) \/ GateDecide(t)
       \/ scene = "analyzer" /\ \/ \E rebuilt \in BOOLEAN : FrameFailure(rebuilt)
                                \/ SequenceStarts \/ SequenceRefused
       \/ scene = "pss" /\ (SendFails \/ PssRestarts \/ Signal \/ LeaveLoop)

MCInit == Init /\ scene \in {"drops", "gate", "analyzer", "pss"}
MCSpec == MCInit /\ [][MCNext]_MCvars /\ Fairness

(* While the decode thread of a session is the only one to move the flag,  *)
(* the slot ends up saying what the flag says: neither a reinforcement nor *)
(* the watchdog, which read it unlocked, replaces a later verdict          *)
(* (update_slot_impl and its timestamp).                                   *)
VerdictAgrees == scene # "drops" /\ pc = "stream" => Agrees
=============================================================================
