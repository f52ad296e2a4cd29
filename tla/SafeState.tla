------------------------------- MODULE SafeState -------------------------------
(***************************************************************************)
(* What a safety decision module promises about its safe state: causes     *)
(* become active and inactive as the evidence comes and goes, the latch    *)
(* keeps every cause that was active, and only a release that finds        *)
(* nothing active takes the latch down.                                    *)
(***************************************************************************)
CONSTANT Causes

VARIABLES active, latch

vars == <<active, latch>>

Init == active = {} /\ latch = {}

\* Causes appear and go away; whatever is active is latched and stays so.
Observe ==
    /\ active' \subseteq latch' /\ latch' \subseteq Causes
    /\ latch \subseteq latch'

Release ==
    /\ active = {} /\ latch # {}
    /\ latch' = {} /\ active' = {}

Next == Observe \/ Release

Spec == Init /\ [][Next]_vars
=============================================================================
