----------------------------- MODULE MdxClient -----------------------------
(***************************************************************************)
(* The MDX client (mdx-client/src/MDXClient.cpp, EventsParser.cpp and      *)
(* reportAlert of SafetyEventReporter.cpp): it loads and validates an      *)
(* event mapping, registers with PSS, connects to the message bus, and     *)
(* turns every frame and every behaviour event into PSS safety events.     *)
(* The perception monitor judges the same frames by DecisionContract.      *)
(*                                                                         *)
(* Cases maps names to [mapping, subs, frames, events]: a configuration, the *)
(* subscriptions of the decision modules, and the messages it may meet.    *)
(***************************************************************************)
EXTENDS DecisionContract

CONSTANTS
    Cases,      \* the configurations and their messages
    Sensors,    \* the sensors of the identity file (sensorNameToPid_)
    MaxOrdinal, \* bound: frames of one sensor (the code saturates at 2^64-1)
    NoFrame     \* no frame parsed yet

VARIABLES
    case,       \* the configuration of this run
    phase,      \* "start", "loaded", "registered", "running", "down"
    ordinal,    \* sensor -> frames seen (FrameOrdinalTracker)
    frame,      \* the last frame parsed, for the properties
    reported,       \* the events reported for it
    missed      \* history: sensor -> frames in a row whose violation was rate-skipped

mdxVars == <<case, phase, ordinal, frame, reported, missed>>

Conf == Cases[case]

MdxInit ==
    /\ case \in DOMAIN Cases
    /\ phase = "start"
    /\ ordinal = [s \in Sensors |-> 0]
    /\ frame = NoFrame
    /\ reported = {}
    /\ missed = [s \in Sensors |-> 0]

\* shouldReportFrameCandidate
RateSelected(r, c, n) ==
    \/ c.src # "mdx-frames" \/ r.src # "mdx-frames" \/ r.scale <= 1
    \/ n # 0 /\ n % r.scale = 0

\* selectOutputRuleIdentifier: pair-shaped candidates are named by their rule.
Identified(r, c) == IF c.kind \in {"pair", "co_movement"} THEN ValidRuleId(r) ELSE c.id # NoId

\* reportAlert up to the report itself: matched, rate-selected, identified, and
\* from a sensor that has a pipeline.
Reported(mapping, c, sensor, n) ==
    /\ Matching(mapping, c) # {}
    /\ LET r == mapping[FirstMatch(mapping, c)]
       IN  RateSelected(r, c, n) /\ Identified(r, c)
    /\ sensor \in Sensors

Report(mapping, cands, sensor, n) ==
    {mapping[FirstMatch(mapping, c)].out : c \in {d \in cands : Reported(mapping, d, sensor, n)}}

Violations(mapping, cands) == {c \in cands : c.flag = "true" /\ Matching(mapping, c) # {}}

\* Start-up: loadConfig, reporter_.init, connectMsgBus; each failure ends the client.
LoadConfig ==
    /\ phase = "start"
    /\ phase' = IF ValidateEventMapping(Conf.mapping) /\ Conf.mapping # <<>> THEN "loaded" ELSE "down"
    /\ UNCHANGED <<case, ordinal, frame, reported, missed>>

RegisterPss ==
    /\ phase = "loaded"
    /\ phase' \in {"registered", "down"}
    /\ UNCHANGED <<case, ordinal, frame, reported, missed>>

ConnectMsgBus ==
    /\ phase = "registered"
    /\ phase' \in {"running", "down"}
    /\ UNCHANGED <<case, ordinal, frame, reported, missed>>

\* FrameOrdinalTracker::next
NextOrdinal(s) == [ordinal EXCEPT ![s] = @ + 1]

\* framesLoop, one message.
FrameMessage(f) ==
    LET known == f.sensor \in Sensors
        ord == IF known THEN NextOrdinal(f.sensor) ELSE ordinal
        cands == Candidates(f, Conf.mapping)
        out == Report(Conf.mapping, cands, f.sensor, IF known THEN ord[f.sensor] ELSE 0)
    IN  /\ phase = "running"
        /\ known => ordinal[f.sensor] < MaxOrdinal
        /\ ordinal' = ord
        /\ frame' = f
        /\ reported' = out
        /\ missed' = IF ~known THEN missed
                     ELSE [missed EXCEPT ![f.sensor] =
                             IF \E c \in Violations(Conf.mapping, cands) :
                                   Conf.mapping[FirstMatch(Conf.mapping, c)].out \notin out
                             THEN @ + 1 ELSE 0]
        /\ UNCHANGED <<case, phase>>

\* eventsLoop: a tripwire or area event is one candidate; anything else is none.
EventMessage(e) ==
    /\ phase = "running"
    /\ frame' = NoFrame
    /\ reported' = IF e.alert \in {"tripwire", "roi"}
               THEN Report(Conf.mapping,
                           {[kind |-> "none", src |-> "mdx-events", alert |-> e.alert, event |-> e.event,
                             type |-> e.type, type2 |-> "", id |-> e.id, flag |-> "false",
                             thr |-> NoDist, obj |-> e.obj, obj2 |-> 0]}, e.sensor, 0)
               ELSE {}
    /\ UNCHANGED <<case, phase, ordinal, missed>>

\* A message that does not decode, is empty, or a receive error: nothing happens.
BadPayload ==
    /\ phase = "running"
    /\ frame' = NoFrame
    /\ reported' = {}
    /\ UNCHANGED <<case, phase, ordinal, missed>>

\* SIGINT or SIGTERM: the loops end, cleanup.
Shutdown ==
    /\ phase = "running"
    /\ phase' = "down"
    /\ frame' = NoFrame
    /\ reported' = {}
    /\ UNCHANGED <<case, ordinal, missed>>

MdxNext ==
    \/ LoadConfig \/ RegisterPss \/ ConnectMsgBus
    \/ \E f \in Conf.frames : FrameMessage(f)
    \/ \E e \in Conf.events : EventMessage(e)
    \/ BadPayload \/ Shutdown

-----------------------------------------------------------------------------
MdxTypeOK ==
    /\ case \in DOMAIN Cases
    /\ phase \in {"start", "loaded", "registered", "running", "down"}
    /\ ordinal \in [Sensors -> 0..MaxOrdinal]
    /\ missed \in [Sensors -> 0..MaxOrdinal]
    /\ reported \subseteq {r.out : r \in Rules(Conf.mapping)}

\* The perception monitor found nothing wrong with the frame just parsed.
Contract == LoadContract(Conf.mapping, Conf.subs)
Sound ==
    /\ frame # NoFrame /\ frame.sensor \in Sensors
    /\ Contract.ok /\ ~DecisionFault(frame, Contract, RequireProximity(Contract))
Selected(r) == UNION Conf.subs = {} \/ r.out \in UNION Conf.subs
EveryFrame(r) == r.scale <= 1

\* An area violation that the perception monitor accepts as sound is reported:
\* the monitor refuses every frame whose area entry the client would pass over in
\* silence (a reference it cannot resolve, two objects under one number).
RoiViolationTold ==
    Sound =>
        \A roi \in Rois(frame), r \in Rules(Conf.mapping), k \in {"restricted", "confined"} :
            (/\ r.kind = "roi" /\ r.src = "mdx-frames" /\ Selected(r) /\ EveryFrame(r)
             /\ r[k] = "true" /\ roi[k] = "true"
             /\ roi.type = r.type /\ IdMatches(r.id, roi.id)) => r.out \in reported

\* A violated restricted area is never reported clear by a clear the client makes up:
\* unless some entry of the area says "false" itself, no clear goes out with the violation.
NoFalseClear ==
    Sound =>
        \A r, q \in Rules(Conf.mapping) :
            LET area == {roi \in Rois(frame) : Usable(roi) /\ roi.type = r.type /\ IdMatches(r.id, roi.id)}
            IN  (/\ r.restricted = "true" /\ q.restricted = "false"
                 /\ r.kind = "roi" /\ q.kind = "roi" /\ r.id = q.id /\ r.type = q.type
                 /\ \E roi \in area : roi.restricted = "true"
                 /\ \A roi \in area : roi.restricted # "false") => q.out \notin reported

\* "emit a cleared event (EVENT_5) for each monitored restricted area that is present
\* but has no violating object this frame" (emitRestrictedAreaClears), so that the
\* decision module does not stay latched on a person who left.
ClearTold ==
    (frame # NoFrame /\ frame.sensor \in Sensors) =>
        \A r, q \in Rules(Conf.mapping) :
            LET area == {roi \in Rois(frame) : /\ Usable(roi) /\ roi.restricted # "bad"
                                               /\ IdMatches(r.id, roi.id)}
            IN  (/\ r.restricted = "true" /\ q.restricted = "false" /\ EveryFrame(q)
                 /\ r.kind = "roi" /\ q.kind = "roi" /\ r.id = q.id /\ r.type = q.type
                 /\ area # {}
                 /\ \A roi \in area : roi.type = r.type => roi.restricted # "true") => q.out \in reported

\* Two objects of a watched pair closer than a selected threshold are reported in the tier of
\* their distance in every frame the perception monitor accepts and whose proximity report says
\* that some pair is near (determineProximityGate): the monitor's range and object checks make
\* the client evaluate the pair.  Where the report says that none is, the client believes it.
PairTold ==
    Sound /\ Gate(frame) = "true" =>
        \A r \in Rules(Conf.mapping) :
            \A i, j \in 1..Len(frame.objects) :
                (/\ UsablePairRule(r) /\ r.prox = "true" /\ Selected(r) /\ EveryFrame(r)
                 /\ i # j /\ TypePair(r) = {frame.objects[i].type, frame.objects[j].type}
                 /\ Distance(frame, i, j) <= r.dist
                 /\ \A q \in Rules(Conf.mapping) :
                       (q.prox = "true" /\ TypePair(q) = TypePair(r) /\ q.dist < r.dist)
                          => Distance(frame, i, j) > q.dist) => r.out \in reported

\* What the perception monitor lets pass the client reports: the two programs read the same
\* frame by rules of their own, and no violated area, and no near pair in a frame whose proximity
\* report has one, falls between them.
ViolationTold == RoiViolationTold /\ PairTold

\* A pair event is about two objects the frame tells apart, within its rule's distance
\* and beyond every nearer tier, from a configured sensor.
PairGenuine ==
    frame # NoFrame =>
        \A r \in Rules(Conf.mapping) :
            (r.prox = "true" /\ r.out \in reported) =>
                /\ frame.sensor \in Sensors
                /\ \E i, j \in ProximityObjects(frame) :
                      /\ i < j /\ TypePair(r) = {frame.objects[i].type, frame.objects[j].type}
                      /\ Distance(frame, i, j) <= r.dist
                      /\ \A q \in Rules(Conf.mapping) :
                            (q.prox = "true" /\ TypePair(q) = TypePair(r) /\ q.dist < r.dist)
                               => Distance(frame, i, j) > q.dist

\* Rate selection never hides a standing violation: of scale_factor consecutive frames
\* of one sensor, whatever other sensors send in between, one is reported.
StandingTold ==
    \A s \in Sensors : \A r \in Rules(Conf.mapping) :
        (\A q \in Rules(Conf.mapping) : q.scale <= r.scale) =>
            missed[s] = 0 \/ missed[s] < r.scale
=============================================================================
