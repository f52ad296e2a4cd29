---------------------------- MODULE FramesParser ----------------------------
(***************************************************************************)
(* What the MDX client makes of one mdx-frames message                     *)
(* (mdx-client/src/FramesParser.cpp): the candidate alerts of its areas,   *)
(* its proximity report and its objects.                                   *)
(*                                                                         *)
(* A frame is [sensor, rois, objects, sd].                                 *)
(*   An area entry is [id, type, restricted, confined, refs]: the two      *)
(*   violation values are "true", "false" or "bad" (absent or anything     *)
(*   else) and refs is the sequence of raw object identifiers it names.    *)
(*   An object is [id, type, coord, pos]; coord is "ok", "bad" or          *)
(*   "absent", pos its place on a line, so that distance is a difference.  *)
(*   sd is [present, detections, violation, threshold].                    *)
(* A raw identifier is <<n, spelling>>: n is its number, negative when it  *)
(* is not one, and "7" and "07" are two spellings of the same number.      *)
(***************************************************************************)
EXTENDS EventMapping, FiniteSets, FiniteSetsExt

Numeric(raw) == raw[1] >= 0
Objects(f) == {f.objects[i] : i \in 1..Len(f.objects)}
Rois(f) == {f.rois[i] : i \in 1..Len(f.rois)}

RoiCandidate(kind, roi, type, flag, obj) ==
    [kind |-> kind, src |-> "mdx-frames", alert |-> "roi", event |-> "", type |-> type, type2 |-> "",
     id |-> roi, flag |-> flag, thr |-> NoDist, obj |-> obj, obj2 |-> 0]

Usable(roi) ==
    /\ roi.id # NoId /\ roi.type # ""
    /\ roi.restricted # "bad" \/ roi.confined # "bad"

\* The references of an area entry that name one object: every spelling of a
\* number that occurs twice is dropped.
References(roi) ==
    {roi.refs[i] : i \in {k \in 1..Len(roi.refs) :
        /\ Numeric(roi.refs[k])
        /\ \A j \in 1..Len(roi.refs) \ {k} : roi.refs[j][1] # roi.refs[k][1]}}

\* resolveRoiObject: the one object of that identifier, of the area's class,
\* when no other object carries the same number.
Resolves(f, roi, raw) ==
    LET same == {i \in 1..Len(f.objects) : f.objects[i].id[1] = raw[1]}
    IN  \E i \in same : /\ same = {i}
                        /\ f.objects[i].id = raw
                        /\ f.objects[i].type = roi.type

Resolved(f, roi) == {raw \in References(roi) : Resolves(f, roi, raw)}

RoiCandidates(f) ==
    UNION {{RoiCandidate(k, roi.id, roi.type, roi[k], raw[1]) : raw \in Resolved(f, roi),
                k \in {q \in {"restricted", "confined"} : roi[q] # "bad"}} :
              roi \in {r \in Rois(f) : Usable(r)}}

(***************************************************************************)
(* emitRestrictedAreaClears: the clear of a restricted area is synthesised *)
(* from the rule that monitors it, once per rule identifier and class.     *)
(* roiIdMatchesRuleId is exact in letter case.                             *)
(***************************************************************************)
RoiIdMatchesRuleId(roi, rule) ==
    /\ rule # NoId
    /\ \/ roi = rule
       \/ rule.suffix = "" /\ roi.suffix # "" /\ roi.base = rule.base /\ roi.case = rule.case

MonitoredRestricted(mapping) ==
    {r \in Rules(mapping) : /\ r.src = "mdx-frames" /\ r.kind = "roi" /\ r.restricted = "true"
                            /\ r.type # "" /\ r.id # NoId}

RestrictedClears(f, mapping) ==
    LET present == {roi \in Rois(f) : Usable(roi) /\ roi.restricted # "bad"}
        Of(r) == {roi \in present : RoiIdMatchesRuleId(roi.id, r.id)}
        Violated(r) == \E roi \in Of(r) : roi.restricted = "true" /\ roi.type = r.type
        Emitted(r) == \E roi \in Of(r) : roi.type = r.type /\ Resolved(f, roi) # {}
    IN  {RoiCandidate("restricted", (CHOOSE roi \in Of(r) : TRUE).id, r.type, "false", 0) :
            r \in {q \in MonitoredRestricted(mapping) : Of(q) # {} /\ ~Violated(q) /\ ~Emitted(q)}}

\* emitEmptyRoiClears: a frame without any area clears every area that has a
\* rule for its clear.
EmptyRoiClears(mapping) ==
    LET clears == {r \in Rules(mapping) : /\ r.src = "mdx-frames" /\ r.kind = "roi"
                                          /\ r.type # "" /\ r.id # NoId
                                          /\ {r.restricted, r.confined} = {"false", ""}}
    IN  {RoiCandidate(IF r.restricted = "false" THEN "restricted" ELSE "confined",
                      r.id, r.type, "false", 0) : r \in clears}

AreaCandidates(f, mapping) ==
    IF f.rois = <<>> THEN EmptyRoiClears(mapping)
    ELSE RoiCandidates(f) \cup RestrictedClears(f, mapping)

\* The frame's own proximity candidate.
SocialCandidates(f) ==
    LET n == IF f.sd.present THEN f.sd.detections ELSE 0
    IN  IF n < 0 THEN {}
        ELSE {[kind |-> "social", src |-> "mdx-frames", alert |-> "social_distancing", event |-> "",
               type |-> "", type2 |-> "", id |-> [base |-> "socialDistancing", case |-> "", suffix |-> ""],
               flag |-> IF n > 0 THEN "true" ELSE "false", thr |-> NoDist, obj |-> 0, obj2 |-> 0]}

\* collectProximityFrameObjects: placed objects whose number no other placed
\* object carries.
Placed(f) ==
    {i \in 1..Len(f.objects) : /\ f.objects[i].coord = "ok"
                               /\ f.objects[i].type # "" /\ Numeric(f.objects[i].id)}

ProximityObjects(f) ==
    {i \in Placed(f) : \A j \in Placed(f) \ {i} : f.objects[j].id[1] # f.objects[i].id[1]}

Abs(n) == IF n < 0 THEN -n ELSE n
Distance(f, i, j) == Abs(f.objects[i].pos - f.objects[j].pos)

\* determineProximityGate
Gate(f) ==
    IF ~f.sd.present THEN "false"
    ELSE IF f.sd.detections < 0 THEN "invalid"
    ELSE IF f.sd.detections = 0 /\ f.sd.violation = "false" THEN "false" ELSE "true"

\* areProximityThresholdsWithinPipeline
WithinPipeline(f, g) ==
    g.thresholds = {} \/ (f.sd.threshold > 0 /\ \A t \in g.thresholds : t <= f.sd.threshold)

EvaluatedGroups(f, mapping) ==
    {g \in PairGroups(mapping) :
        \/ Gate(f) = "true" /\ WithinPipeline(f, g)
        \/ Gate(f) = "false" /\ g.hasNoViolationRule}

\* selectProximityThreshold: the first of the ascending thresholds.
SelectThreshold(g, d) ==
    LET in == {t \in g.thresholds : d <= t}
    IN  IF in = {} THEN NoDist ELSE Min(in)

\* evaluateProximityRulesForFrame
PairCandidate(f, g, i, j) ==
    LET thr == IF Gate(f) = "true" THEN SelectThreshold(g, Distance(f, i, j)) ELSE NoDist
    IN  [kind |-> "pair", src |-> "mdx-frames", alert |-> "social_distancing", event |-> "",
         type |-> f.objects[i].type, type2 |-> f.objects[j].type, id |-> NoId,
         flag |-> IF thr # NoDist THEN "true" ELSE "false", thr |-> thr,
         obj |-> f.objects[i].id[1], obj2 |-> f.objects[j].id[1]]

PairCandidates(f, mapping) ==
    UNION {{c \in {PairCandidate(f, g, p[1], p[2]) :
                       p \in {q \in ProximityObjects(f) \X ProximityObjects(f) :
                                 /\ q[1] < q[2]
                                 /\ g.types = {f.objects[q[1]].type, f.objects[q[2]].type}}} :
              c.flag = "true" \/ g.hasNoViolationRule} : g \in EvaluatedGroups(f, mapping)}

\* evaluateObjectPresenceRulesForFrame
PresenceCandidates(f, mapping) ==
    LET watched == {r \in Rules(mapping) : /\ r.kind = "object_presence" /\ r.src = "mdx-frames"
                                           /\ r.type # "" /\ r.out # ""}
    IN  UNION {{[kind |-> "none", src |-> "mdx-frames", alert |-> "object_presence", event |-> "",
                 type |-> o.type, type2 |-> "",
                 id |-> IF r.id = NoId THEN [base |-> "object_presence", case |-> "", suffix |-> o.type]
                        ELSE r.id,
                 flag |-> "false", thr |-> NoDist,
                 obj |-> IF Numeric(o.id) THEN o.id[1] ELSE 0, obj2 |-> 0] :
                   o \in {q \in Objects(f) : q.type = r.type}} : r \in watched}

\* parseFramesMessage, co-movement apart (module CoMovement).
Candidates(f, mapping) ==
    AreaCandidates(f, mapping) \cup SocialCandidates(f)
    \cup PairCandidates(f, mapping) \cup PresenceCandidates(f, mapping)
=============================================================================
