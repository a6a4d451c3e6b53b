--------------------------- MODULE TrafficMotion ---------------------------
(***************************************************************************)
(* Constant-velocity traffic as a value, and what the evaluators compute   *)
(* from it: the motion of an aircraft from its last state anchor, the      *)
(* predicted path, the closest approach of a pair inside the look-ahead,   *)
(* the status of the pair, its risk level, and the operational priority of *)
(* one aircraft.                                                           *)
(*                                                                         *)
(* Lengths, altitudes and speeds are integers in units of the grid; time   *)
(* is counted in ticks of the clock, and the resolution of a timestamp is  *)
(* one tick.  Headings are the four right angles, whose sine and cosine    *)
(* are integers.  Distances are compared by their squares.                 *)
(***************************************************************************)
EXTENDS Integers, FiniteSets

CONSTANTS
    Horizon,              \* the look-ahead, in ticks
    PredictionHorizons,   \* the horizons of the predictor, in ticks
    HorizontalThreshold,  \* the separation rule profile
    VerticalThreshold,
    CriticalTcpa,         \* the risk policy profile
    HighTcpa

ASSUME HorizonAssumption ==
    /\ Horizon \in Nat \ {0}
    /\ PredictionHorizons \subseteq Nat \ {0}
ASSUME RuleProfileAssumption ==
    /\ HorizontalThreshold \in Nat \ {0}
    /\ VerticalThreshold \in Nat \ {0}
ASSUME RiskPolicyAssumption ==
    /\ CriticalTcpa \in Nat \ {0}
    /\ HighTcpa \in Nat
    /\ CriticalTcpa < HighTcpa

Headings == {0, 90, 180, 270}

\* Aircraft are numbered in the order of their identifiers.
States == [x : Int, y : Int, alt : Int, gs : Nat, hdg : Headings, vs : Int,
           at : Nat, emergency : BOOLEAN]

Points == [x : Int, y : Int, alt : Int]

-----------------------------------------------------------------------------
(* Motion *)

East(h)  == CASE h = 90 -> 1 [] h = 270 -> -1 [] OTHER -> 0
North(h) == CASE h = 0 -> 1 [] h = 180 -> -1 [] OTHER -> 0

Displacement(s, ticks) == [x   |-> s.x + s.gs * East(s.hdg) * ticks,
                           y   |-> s.y + s.gs * North(s.hdg) * ticks,
                           alt |-> s.alt + s.vs * ticks]

\* The state a given number of ticks from the anchor, before it if negative.
Shifted(s, ticks) ==
    LET d == Displacement(s, ticks)
    IN  [s EXCEPT !.x = d.x, !.y = d.y, !.alt = d.alt]

\* The state an anchor gives at a later time.
Moved(s, t) == [Shifted(s, t - s.at) EXCEPT !.at = t]

\* Faulty variant: a horizon is counted from the state, not from the snapshot.
PredictedPathFromState(s, t) ==
    [h \in PredictionHorizons |-> Displacement(s, h)]

\* The points of a predicted trajectory, for a state that may be older than t.
PredictedPath(s, t) ==
    [h \in PredictionHorizons |-> Displacement(s, t + h - s.at)]

\* A prediction run holds one trajectory per aircraft, a point per horizon.
PredictionRuns(as) == [as -> [PredictionHorizons -> Points]]

\* Faulty variant: a held state is taken for a current one.
AlignedAsHeld(s, t) == [s EXCEPT !.at = t]

\* A conflict assessment brings every state to the time of the snapshot.
Aligned(s, t) == IF s.at = t THEN s ELSE Moved(s, t)

-----------------------------------------------------------------------------
(* Closest approach *)

\* n / d to the nearest tick, a tie to the even one.
ToTick(n, d) ==
    LET q == n \div d
        r == n % d
    IN  IF 2 * r < d \/ (2 * r = d /\ q % 2 = 0) THEN q ELSE q + 1

\* Faulty variant: a pair that is already diverging looks back in time.
TcpaUnbounded(n, d) ==
    IF d = 0 THEN 0
    ELSE IF n >= Horizon * d THEN Horizon
    ELSE ToTick(n, d)

\* -(r . v) / |v|^2 inside the look-ahead; 0 without relative motion.
Tcpa(n, d) ==
    IF d = 0 \/ n <= 0 THEN 0
    ELSE IF n >= Horizon * d THEN Horizon
    ELSE ToTick(n, d)

\* The separation of two aligned states a number of ticks ahead.
SeparationAfter(a, b, ticks) ==
    LET p == Displacement(a, ticks)
        q == Displacement(b, ticks)
    IN  [dist2 |-> (q.x - p.x) * (q.x - p.x) + (q.y - p.y) * (q.y - p.y),
         vert  |-> IF q.alt >= p.alt THEN q.alt - p.alt ELSE p.alt - q.alt]

\* Only horizontal motion decides when; the vertical separation is the one there.
ClosestApproach(a, b) ==
    LET rx == b.x - a.x
        ry == b.y - a.y
        vx == b.gs * East(b.hdg) - a.gs * East(a.hdg)
        vy == b.gs * North(b.hdg) - a.gs * North(a.hdg)
        tcpa == Tcpa(-(rx * vx + ry * vy), vx * vx + vy * vy)
    IN  [tcpa |-> tcpa, minimum |-> SeparationAfter(a, b, tcpa)]

\* Both separations are below their thresholds; on a threshold is safe.
Lost(m) ==
    /\ m.dist2 < HorizontalThreshold * HorizontalThreshold
    /\ m.vert < VerticalThreshold

Classify(m) == IF Lost(m) THEN "PREDICTED" ELSE "SAFE"

Pairs(as) == {p \in as \X as : p[1] < p[2]}

ConflictEvent(a, b) ==
    LET c == ClosestApproach(a, b)
    IN  [status |-> Classify(c.minimum), tcpa |-> c.tcpa, minimum |-> c.minimum]

\* Every pair of the traffic, a function from aircraft to aligned states.
Assess(traffic) ==
    [p \in Pairs(DOMAIN traffic) |-> ConflictEvent(traffic[p[1]], traffic[p[2]])]

ConflictEvents == [status : {"SAFE", "PREDICTED"}, tcpa : 0..Horizon,
                   minimum : [dist2 : Nat, vert : Nat]]
ConflictRuns(as) == [Pairs(as) -> ConflictEvents]

-----------------------------------------------------------------------------
(* Risk of a pair, priority of an aircraft *)

RiskLevels == <<"LOW", "MEDIUM", "HIGH", "CRITICAL">>

\* Both separations are within 5/4 of their thresholds.
NearThreshold(m) ==
    /\ 16 * m.dist2 < 25 * HorizontalThreshold * HorizontalThreshold
    /\ 4 * m.vert < 5 * VerticalThreshold

\* Faulty variant: a loss of separation at the present time is the least urgent.
RiskPlaceZeroLast(e) ==
    IF e.status = "PREDICTED"
    THEN IF e.tcpa \in 1..CriticalTcpa THEN 4
         ELSE IF e.tcpa \in 1..HighTcpa THEN 3 ELSE 2
    ELSE IF NearThreshold(e.minimum) THEN 2 ELSE 1

\* The place in RiskLevels of an event's risk.
RiskPlace(e) ==
    IF e.status = "PREDICTED"
    THEN IF e.tcpa <= CriticalTcpa THEN 4
         ELSE IF e.tcpa <= HighTcpa THEN 3 ELSE 2
    ELSE IF NearThreshold(e.minimum) THEN 2 ELSE 1

RiskLevel(e) == RiskLevels[RiskPlace(e)]

EventKinds == {"ENTRY_CONFORMANCE_DEVIATION", "EMERGENCY_DECLARED"}
ScenarioEvents == [id : Nat, kind : EventKinds, target : Nat, at : Nat]

\* Faulty variant: an event counts only at the moment it is due.
ActiveEventsDueNow(events, a, t) == {e \in events : e.target = a /\ e.at = t}

ActiveEvents(events, a, t) == {e \in events : e.target = a /\ e.at <= t}

\* The priority of an aircraft: 1 routine, 2 entry deviation, 3 emergency.
PriorityPlace(events, a, s) ==
    LET kinds == {e.kind : e \in ActiveEvents(events, a, s.at)}
    IN  IF s.emergency \/ "EMERGENCY_DECLARED" \in kinds THEN 3
        ELSE IF "ENTRY_CONFORMANCE_DEVIATION" \in kinds THEN 2 ELSE 1
=============================================================================
