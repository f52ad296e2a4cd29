----------------------------- MODULE ProximitySdm -----------------------------
(***************************************************************************)
(* The proximity decision module (ProximityControl.cpp): the event binding *)
(* given at start-up, the worst case over a batch, and the threads of      *)
(* SdmControl around them.                                                 *)
(*                                                                         *)
(* An event has, beside the fields of SdmRequestState, a pair <<x, y>> of  *)
(* objects, each [id, person].                                             *)
(***************************************************************************)
EXTENDS SdmControl

\* The event types that report health and take no part in a decision.
HealthTypes == {"SENSOR_INVALID", "SENSOR_VALID", "AI_PIPELINE_INVALID", "AI_PIPELINE_VALID"}

CONSTANTS
    Configs,     \* the bindings --config may hold: sequences of event types
    Unknown,     \* EVENT_UNKNOWN
    PhysicalEvents  \* EVENT_0 .. EVENT_23

ASSUME ProximityAssumption ==
    /\ "REDUCE" \in Commands
    /\ \A c \in Configs : Len(c) \in Nat /\ DOMAIN c = 1..Len(c)
    /\ PhysicalEvents \cap HealthTypes = {}

VARIABLES
    binding,  \* the event column of PROXIMITY_EVENT_TABLE
    frozen    \* proximityBindingFrozen

proximityVars == <<binding, frozen>>

TiersPerGroup == 3
Tiers == <<"NO_VIOLATION", "WARNING", "CRITICAL">>
Unbound(n) == [i \in 1..n |-> Unknown]

\* The tier column: every group has its three tiers in order.
Tier(i) == Tiers[((i - 1) % TiersPerGroup) + 1]

-----------------------------------------------------------------------------
(* The binding. *)

\* A group has all its tiers or none, each a physical event of its own; one group at least.
BindingAccepted(config) ==
    /\ \E i \in DOMAIN config : config[i] # Unknown
    /\ \A i \in DOMAIN config :
         LET first == ((i - 1) \div TiersPerGroup) * TiersPerGroup + 1
         IN  /\ (config[i] = Unknown) = (config[first] = Unknown)
             /\ config[i] # Unknown =>
                  config[i] \in PhysicalEvents /\ \A j \in 1..(i - 1) : config[i] # config[j]

\* proximitySetSubscribedEvents; a binding that is refused changes nothing.
SetSubscribedEvents(config) ==
    /\ ~frozen /\ BindingAccepted(config)
    /\ binding' = config
    /\ UNCHANGED <<frozen, controlVars>>

\* launchProximityControlAlgo, once a binding is there; it cannot change any more.
Launch ==
    /\ ~frozen /\ \E i \in DOMAIN binding : binding[i] # Unknown
    /\ frozen' = TRUE
    /\ UNCHANGED <<binding, controlVars>>

\* proximityEventDescriptor: the rows of the table an event type is bound to.
Descriptors(type) == {i \in DOMAIN binding : binding[i] # Unknown /\ binding[i] = type}

-----------------------------------------------------------------------------
(* The decision. *)

ProximityRank(command) == CASE command = "STOP" -> 2 [] command = "REDUCE" -> 1 [] OTHER -> 0

TierCommand(tier) ==
    CASE tier = "CRITICAL" -> "STOP" [] tier = "WARNING" -> "REDUCE" [] OTHER -> "NORMAL"

\* isUsableObjectMetadataSlot
Usable(ev) == ~ev.stale /\ ev.healthy /\ ev.trusted

\* The slots of a request that take part in the decision, and the command of each.
Candidates(r) ==
    {i \in 1..Len(r.evs) :
        /\ Usable(r.evs[i])
        /\ r.evs[i].type \notin HealthTypes
        /\ Descriptors(r.evs[i].type) # {}}

SlotCommand(r, i) ==
    LET rows == Descriptors(r.evs[i].type)
    IN  TierCommand(Tier(CHOOSE k \in rows : \A m \in rows : k <= m))

\* Mutant: the last qualifying slot wins.
WinningSlotLast(r) == CHOOSE i \in Candidates(r) : \A j \in Candidates(r) : j <= i

\* The first slot of the highest rank.
WinningSlot(r) ==
    CHOOSE i \in Candidates(r) : \A j \in Candidates(r) :
        LET ri == ProximityRank(SlotCommand(r, i))
            rj == ProximityRank(SlotCommand(r, j))
        IN  ri > rj \/ (ri = rj /\ i <= j)

ProximityDecide ==
    /\ pc["listener"] = "decide"
    /\ IF Candidates(req) = {} THEN NoDecision ELSE Decide(SlotCommand(req, WinningSlot(req)))

-----------------------------------------------------------------------------
ProximityInit ==
    /\ ControlInit
    /\ \E c \in Configs : binding = Unbound(Len(c))
    /\ frozen = FALSE

ProximityNext ==
    \/ \E c \in Configs : SetSubscribedEvents(c)
    \/ Launch
    \/ /\ frozen /\ UNCHANGED proximityVars
       /\ \/ \E r \in Requests, gap \in BOOLEAN : Receive(r, gap)
          \/ RequestSteps \/ ProximityDecide
          \/ Release \/ HbWatchdog \/ Timeout \/ FreshnessWatchdog
          \/ Reassert(active)

ProximitySpec == ProximityInit /\ [][ProximityNext]_<<proximityVars, controlVars>>

-----------------------------------------------------------------------------
(* Properties. *)

(* "Worst case wins": no event of a batch that counts asks for more than    *)
(* the command decided, whatever tier the start-up binding gave its type    *)
(* and in whatever order the batch came (computeProximityCommandFromBatch). *)
WorstCaseWins ==
    pc["listener"] = "decide" =>
        \A i \in 1..Len(req.evs), k \in DOMAIN binding :
            (Usable(req.evs[i]) /\ binding[k] # Unknown /\ req.evs[i].type = binding[k])
              => ProximityRank(TierCommand(Tier(k))) <= ProximityRank(SlotCommand(req, WinningSlot(req)))
=============================================================================
