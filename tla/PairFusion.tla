------------------------------ MODULE PairFusion ------------------------------
(***************************************************************************)
(* Forklift-to-person fusion (atl_proximity_pair_fusion.h): the newest     *)
(* observation of a pair, the worst case across pairs, in a table of       *)
(* bounded size.  An object is [id, person].                               *)
(***************************************************************************)
EXTENDS Integers, Sequences

CONSTANTS
    Capacity,    \* ATLPXC_MAX_TRACKED_PAIRS
    PairTtl,     \* ttlMs
    PairKeys,    \* the pairs that can be seen
    LastMoment,  \* bound: ticks of the clock
    NoEntry      \* a slot not in use

Slots == 1..Capacity
Entries == [key : PairKeys, tier : 1..3, at : 1..LastMoment]
EmptyTable == [i \in Slots |-> NoEntry]

ASSUME PairAssumption ==
    /\ Capacity \in Nat \ {0} /\ PairTtl \in Nat /\ LastMoment \in Nat \ {0}
    /\ NoEntry \notin Entries

\* AtlPxcTierFromEventType; 0 is ATLPXC_TIER_NONE.
PairTier(type) ==
    CASE type = "EVENT_10" -> 3 [] type = "EVENT_9" -> 2 [] type = "EVENT_8" -> 1 [] OTHER -> 0

\* AtlPxcResolvePairRoles, and what AtlPxcSamePair compares.
PairKey(pair) ==
    IF pair[1].person # pair[2].person
    THEN IF pair[1].person THEN <<pair[2].id, pair[1].id, "resolved">>
                           ELSE <<pair[1].id, pair[2].id, "resolved">>
    ELSE IF pair[1].id <= pair[2].id THEN <<pair[1].id, pair[2].id, "unresolved">>
                                     ELSE <<pair[2].id, pair[1].id, "unresolved">>

\* The events of a request foldAtlProximityBatchLocked observes.
PairEvents(r) ==
    {i \in 1..Len(r.evs) :
        LET ev == r.evs[i]
        IN  ~ev.stale /\ ev.healthy /\ ev.trusted /\ PairTier(ev.type) > 0}

\* A request has fewer slots (MAX_SENSORS_DATA_SUMMARY_SIZE) than the table.
PairBatch(r) ==
    Len(r.evs) \in 0..Capacity /\ \A i \in PairEvents(r) : PairKey(r.evs[i].pair) \in PairKeys

\* AtlPxcEntryExpired
Expired(at, now) == now > at /\ now - at > PairTtl

\* Expired entries are given back as the table is read.
Reclaim(table, now) ==
    [i \in Slots |-> IF table[i] # NoEntry /\ Expired(table[i].at, now) THEN NoEntry ELSE table[i]]

\* Mutant: a pair keeps the worst tier it ever had.
ObserveSticky(table, key, tier, now) ==
    LET t == Reclaim(table, now)
        same == {i \in Slots : t[i] # NoEntry /\ t[i].key = key}
        free == {i \in Slots : t[i] = NoEntry}
    IN  IF same # {} THEN [i \in Slots |-> IF i \in same /\ tier >= t[i].tier
                                           THEN [key |-> key, tier |-> tier, at |-> now] ELSE t[i]]
        ELSE IF free # {} THEN [t EXCEPT ![CHOOSE i \in free : TRUE] = [key |-> key, tier |-> tier, at |-> now]]
        ELSE t

\* AtlPxcPairFusionObserve: its own entry, a free one, or that of the least severe and
\* oldest pair if that one is less severe.
Observe(table, key, tier, now) ==
    LET t == Reclaim(table, now)
        same == {i \in Slots : t[i] # NoEntry /\ t[i].key = key}
        free == {i \in Slots : t[i] = NoEntry}
        weakest == CHOOSE i \in Slots : \A j \in Slots :
                       \/ t[i].tier < t[j].tier
                       \/ t[i].tier = t[j].tier /\ t[i].at < t[j].at
                       \/ t[i].tier = t[j].tier /\ t[i].at = t[j].at /\ i <= j
        new == [key |-> key, tier |-> tier, at |-> now]
    IN  IF same # {} THEN [t EXCEPT ![CHOOSE i \in same : TRUE] = new]
        ELSE IF free # {} THEN [t EXCEPT ![CHOOSE i \in free : \A j \in free : i <= j] = new]
        ELSE IF tier > t[weakest].tier THEN [t EXCEPT ![weakest] = new]
        ELSE t

Admits(table, key, tier, now) ==
    \E i \in Slots : LET e == Observe(table, key, tier, now)[i]
                     IN  e # NoEntry /\ e.key = key /\ e.tier = tier /\ e.at = now

\* AtlPxcPairFusionAggregate: the worst tier of a live pair, 0 if there is none.
Aggregate(table, now) ==
    LET t == Reclaim(table, now)
        tiers == {t[i].tier : i \in {j \in Slots : t[j] # NoEntry}} \cup {0}
    IN  CHOOSE m \in tiers : \A n \in tiers : n <= m

\* One observation.  History: full, the table had no room for it; newest, the last
\* observation of every pair.
FoldEvent(f, ev, now) ==
    LET key == PairKey(ev.pair)
        tier == PairTier(ev.type)
        before == Reclaim(f.table, now)
    IN  [table |-> Observe(f.table, key, tier, now),
         any |-> f.any \/ Admits(f.table, key, tier, now),
         full |-> f.full \/ ((\A k \in Slots : before[k] # NoEntry) /\ \A k \in Slots : before[k].key # key),
         newest |-> [k \in DOMAIN f.newest \cup {key} |->
                       IF k = key THEN [tier |-> tier, at |-> now] ELSE f.newest[k]]]

\* foldAtlProximityBatchLocked: the table and whether any observation was recorded;
\* element i is after event i.
Fold(table, known, r, now) ==
    LET f[i \in 0..Len(r.evs)] ==
            IF i = 0 THEN [table |-> table, any |-> FALSE, full |-> FALSE, newest |-> known]
            ELSE IF i \in PairEvents(r) THEN FoldEvent(f[i - 1], r.evs[i], now)
            ELSE f[i - 1]
    IN  f
=============================================================================
