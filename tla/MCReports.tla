----------------------------- MODULE MCReports -----------------------------
(***************************************************************************)
(* Reports on their way to a decision module.  A behaviour keeps to one    *)
(* scenario: the kinds of report the daemon's sender meets, and how many;  *)
(* or the MDX client that produces them, over four configurations (areas,  *)
(* pairs, rate selection, one it refuses); or the riders it tracks; or the *)
(* gateway that hands the requests to the modules.                         *)
(***************************************************************************)
EXTENDS PssDelivery, MdxClient, CoMovement, PsdGateway

CONSTANTS atl, crossing
VARIABLE scenario

Scenarios ==
    {\* refusals of reports that are never coalesced
     [kinds |-> {"SW_FAIL"}, reports |-> 6, noops |-> 0, modes |-> {"NORMAL"}],
     \* verdicts among evictable events
     [kinds |-> {"VERDICT", "DISTRUSTED"}, reports |-> 5, noops |-> 0, modes |-> {"NORMAL"}],
     \* both lanes, without and with the status no-op
     [kinds |-> {"ERROR_MODE", "FRESH", "LATE"}, reports |-> 3, noops |-> 0,
      modes |-> {"NORMAL", "ERROR"}],
     [kinds |-> {"SW_FAIL", "LATE"}, reports |-> 3, noops |-> 1, modes |-> {"NORMAL", "ERROR"}]}

\* Scenarios of the MDX client, of the riders and of the gateway: the sender is not at work.
Mdx == [kinds |-> {"mdx"}, reports |-> 0, noops |-> 0, modes |-> {}]
Riders == [kinds |-> {"riders"}, reports |-> 0, noops |-> 0, modes |-> {}]
Gateway == [kinds |-> {"gateway"}, reports |-> 0, noops |-> 0, modes |-> {}]

-----------------------------------------------------------------------------
(* The MDX client. *)

Area(b) == [base |-> b, case |-> "lower", suffix |-> ""]
AreaSuffix(b) == [base |-> b, case |-> "lower", suffix |-> "person"]
Rule == [src |-> "mdx-frames", kind |-> "roi", event |-> "", type |-> "person", id |-> Area("a"),
         restricted |-> "", confined |-> "", social |-> "", primary |-> "", secondary |-> "",
         prox |-> "", dist |-> NoDist, scale |-> 1, params |-> FALSE, out |-> "E0"]

AreaMapping ==
    <<[Rule EXCEPT !.restricted = "true", !.out = "E4"],
      [Rule EXCEPT !.restricted = "false", !.out = "E5"],
      [Rule EXCEPT !.confined = "true", !.type = "forklift", !.id = Area("b"), !.out = "E6"],
      [Rule EXCEPT !.confined = "false", !.type = "forklift", !.id = Area("b"), !.out = "E7"],
      [Rule EXCEPT !.src = "mdx-events", !.kind = "tripwire", !.event = "IN", !.id = Area("w"), !.out = "E1"]>>

Pair == [Rule EXCEPT !.kind = "social_distancing", !.type = "", !.primary = "forklift", !.secondary = "person"]
PairMapping ==
    <<[Pair EXCEPT !.prox = "true", !.dist = 1, !.id = Area("stop"), !.out = "E10"],
      [Pair EXCEPT !.prox = "true", !.dist = 2, !.id = Area("reduce"), !.out = "E11"],
      [Pair EXCEPT !.prox = "false", !.id = Area("normal"), !.out = "E12"],
      [Rule EXCEPT !.kind = "object_presence", !.id = NoId, !.out = "E13"],
      [Pair EXCEPT !.kind = "co_movement", !.id = Area("rider"), !.params = TRUE, !.out = "E14"]>>

ScaleMapping == <<[Rule EXCEPT !.restricted = "true", !.scale = 2, !.out = "E4"],
                  [Rule EXCEPT !.restricted = "false", !.scale = 2, !.out = "E5"]>>
BadMapping == <<[Rule EXCEPT !.restricted = "true", !.confined = "true"]>>

NoSd == [present |-> FALSE, detections |-> 0, violation |-> "bad", threshold |-> 0]
Raw == {<<7, "7">>, <<7, "07">>, <<8, "8">>, <<-1, "x">>}
Object(id, type) == [id |-> id, type |-> type, coord |-> "ok", pos |-> 0]

RoiEntries ==
    [id : {Area("a"), AreaSuffix("a"), Area("b")}, type : {"person", "forklift"},
     restricted : {"true", "false", "bad"}, confined : {"bad"}, refs : {<<>>, <<<<7, "7">>>>, <<<<8, "8">>, <<7, "7">>>>}]
    \cup [id : {Area("b")}, type : {"forklift"}, restricted : {"bad"}, confined : {"true", "false", "bad"},
          refs : {<<<<7, "7">>>>, <<<<7, "7">>, <<7, "07">>>>, <<<<-1, "x">>>>}]
ObjectLists ==
    {<<>>} \cup {<<Object(r, t)>> : r \in Raw, t \in {"person", "forklift"}}
    \cup {<<Object(r, "person"), Object(q, t)>> : r \in {<<7, "7">>}, q \in Raw, t \in {"person", "forklift"}}
AreaFrames ==
    {[sensor |-> s, rois |-> r, objects |-> o, sd |-> NoSd] :
        s \in {"cam1", "stray"}, r \in {<<>>} \cup {<<e>> : e \in RoiEntries}, o \in ObjectLists}
    \cup {[sensor |-> "cam1", rois |-> <<e, g>>, objects |-> o, sd |-> NoSd] :
            e \in RoiEntries, g \in {h \in RoiEntries : h.refs = <<<<7, "7">>>>},
            o \in {<<>>, <<Object(<<7, "7">>, "person")>>, <<Object(<<7, "7">>, "person"), Object(<<8, "8">>, "person")>>}}

Sds == [present : BOOLEAN, detections : {-1, 0, 1}, violation : {"true", "false", "bad"}, threshold : {0, 1, 2, 3}]
Movers == [id : {<<7, "7">>, <<8, "8">>}, type : {"forklift", "person"}, coord : {"ok", "bad"}, pos : {0, 1, 2}]
PairFrames ==
    {[sensor |-> "cam1", rois |-> <<>>, objects |-> <<a, b>>, sd |-> d] :
        a \in {m \in Movers : m.pos = 0 /\ m.id[1] = 7}, b \in Movers, d \in Sds}
    \cup {[sensor |-> "cam1", rois |-> <<>>, objects |-> <<a, b, c>>, sd |-> d] :
            a \in {m \in Movers : m.pos = 0 /\ m.id[1] = 7 /\ m.coord = "ok"},
            b \in {m \in Movers : m.coord = "ok" /\ m.id[1] = 8}, c \in {m \in Movers : m.pos = 2},
            d \in {e \in Sds : e.present /\ e.detections = 1 /\ e.violation = "true"}}

ScaleFrames ==
    {[sensor |-> s, rois |-> <<[id |-> Area("a"), type |-> "person", restricted |-> v, confined |-> "bad",
                                refs |-> <<<<7, "7">>>>]>>,
      objects |-> <<Object(<<7, "7">>, "person")>>, sd |-> NoSd] : s \in {"cam1", "cam2"}, v \in {"true", "false"}}

BusEvents == [alert : {"tripwire", "roi", "other"}, event : {"IN", "OUT"}, type : {"person", "forklift"},
              id : {Area("w"), AreaSuffix("w"), Area("a")}, obj : {7}, sensor : {"cam1", "stray"}]

MCCases ==
    [areas |-> [mapping |-> AreaMapping, subs |-> {{"E4", "E5"}, {"E6", "E7"}}, frames |-> AreaFrames, events |-> BusEvents],
     pairs |-> [mapping |-> PairMapping, subs |-> {{"E10", "E11", "E12"}}, frames |-> PairFrames, events |-> {}],
     rates |-> [mapping |-> ScaleMapping, subs |-> {}, frames |-> ScaleFrames, events |-> {}],
     bad |-> [mapping |-> BadMapping, subs |-> {}, frames |-> {}, events |-> {}]]

\* One frame is enough where nothing but the frame counter carries over.
MCMdx == (case = "rates" \/ frame = NoFrame) /\ MdxNext

-----------------------------------------------------------------------------
(* The riders. *)

O(c, f, b) == [car |-> c, off |-> f, box |-> b]
MCParams == [rider |-> [window |-> 2, minSamples |-> 2, minSpan |-> 1, sd |-> 0, travel |-> 1, box |-> 2,
                        enter |-> 2, exit |-> 1, latch |-> 1],
             guest |-> [window |-> 0, minSamples |-> 1, minSpan |-> 0, sd |-> 0, travel |-> 0, box |-> 0,
                        enter |-> 1, exit |-> 1, latch |-> 0]]
MCInputs == [rider |-> {O(0, 0, 0), O(1, 0, 0), O(0, 2, 0), O(0, 0, 2)},
             guest |-> {O(0, 0, 0)}]
MCOrder == <<"guest", "rider">>

-----------------------------------------------------------------------------
(* The gateway: two decision modules, one subscribed to physical events. *)

MCSdms == {atl, crossing}
MCSubscribers == {atl}

NoBudget == [requests |-> 0, refused |-> 0, ticks |-> 0, regrs |-> 0, conns |-> 0, deaths |-> 0]

\* Nothing; refused sends; the PSS heartbeat thread; heartbeat tiers; admission; restarts
\* with requests; a slot lost and taken again.
MCBudgets ==
    {NoBudget,
     [requests |-> 3, refused |-> 1, ticks |-> 0, regrs |-> 0, conns |-> 1, deaths |-> 0],
     [requests |-> 2, refused |-> 1, ticks |-> 0, regrs |-> 0, conns |-> 1, deaths |-> 1],
     [requests |-> 3, refused |-> 0, ticks |-> 2, regrs |-> 0, conns |-> 1, deaths |-> 0],
     [requests |-> 0, refused |-> 0, ticks |-> 3, regrs |-> 1, conns |-> 3, deaths |-> 0],
     [requests |-> 2, refused |-> 1, ticks |-> 0, regrs |-> 0, conns |-> 2, deaths |-> 0],
     [requests |-> 1, refused |-> 0, ticks |-> 3, regrs |-> 1, conns |-> 1, deaths |-> 0]}

-----------------------------------------------------------------------------
MCInit ==
    /\ SenderInit /\ MdxInit /\ CoInit /\ Init
    /\ scenario \in Scenarios \cup {Mdx, Riders, Gateway}
    /\ scenario = Gateway <=> left # NoBudget
    /\ scenario # Mdx => case = "rates"

DeliveryStep ==
    /\ \/ \E kind \in scenario.kinds : Produce(kind)
       \/ StatusNoop \/ GateExpires \/ BackoffExpires
       \/ SenderStep
    /\ produced'.reports <= scenario.reports /\ produced'.noops <= scenario.noops
    /\ sender.pc = "send" /\ ~sender.cur.stamped =>
          \E base \in scenario.modes : sender'.cur.stamp = StampMode(base)

MCNext ==
    /\ UNCHANGED scenario
    /\ \/ scenario \in Scenarios /\ DeliveryStep /\ UNCHANGED <<mdxVars, coVars, vars>>
       \/ scenario = Mdx /\ MCMdx /\ UNCHANGED <<senderVars, coVars, vars>>
       \/ scenario = Riders /\ CoNext /\ UNCHANGED <<senderVars, mdxVars, vars>>
       \/ scenario = Gateway /\ Next /\ UNCHANGED <<senderVars, mdxVars, coVars>>

MCvars == <<senderVars, mdxVars, coVars, vars, scenario>>
MCSpec == MCInit /\ [][MCNext]_MCvars
=============================================================================
