------------------------- MODULE MCTrafficAdvisory -------------------------
(***************************************************************************)
(* Values for the instances of TrafficAdvisory that TLC checks.  A tick    *)
(* stands for the interval between two steps of the timeline, a unit of    *)
(* length or altitude for half a threshold.                                *)
(***************************************************************************)
EXTENDS TrafficAdvisory

Flight(x, y, alt, gs, hdg, vs) ==
    [x |-> x, y |-> y, alt |-> alt, gs |-> gs, hdg |-> hdg, vs |-> vs, at |-> 0,
     emergency |-> FALSE]

\* Two aircraft: the first flies east, the second anywhere near, any way.
TwoAircraft == 1..2
Encounters ==
    {<<Flight(0, 0, 2, 1, 90, climb), Flight(x, y, alt, gs, hdg, sink)>> :
        climb \in 0..1, sink \in {-1, 0}, x \in {-3, 0, 2, 5, 6}, y \in {-1, 0, 4},
        alt \in {2, 5}, gs \in 1..2, hdg \in Headings}
\* Three aircraft: two that converge, and one on its way.
ThreeAircraft == 1..3
Crossings ==
    {<<Flight(0, 0, alt, gs, 90, 0), other, third>> :
        alt \in {2, 4}, gs \in 1..2,
        other \in {Flight(4, 0, 3, 1, 270, 0), Flight(3, 3, 3, 1, 180, 0),
                   Flight(2, -2, 5, 1, 0, -1)},
        third \in {Flight(x, 1, alt3, 1, 180, 0) : x \in {0, 3}, alt3 \in {1, 6, 9}}
                      \cup {Flight(3, -1, 6, 0, 0, 0), Flight(-2, 0, 6, 1, 90, 0)}}

Turns == {[hdg |-> 0, vs |-> 0, emergency |-> e] : e \in BOOLEAN}

\* The sixth altitude unit is what the scenario prefers for its target.
AnyHint == {NoHint, 6}
NoRequests == {}

OneProfile == [minSpeed |-> 1, maxSpeed |-> 3, climb |-> 1, descent |-> 1, turnRate |-> 45,
               ceiling |-> 9]
Agile == [OneProfile EXCEPT !.climb = 2, !.turnRate = 90]
SameProfile == [a \in TwoAircraft |-> OneProfile]
MixedProfiles == <<OneProfile, Agile, OneProfile>>

Slot(id, role, kind, score, delay, path) ==
    [id |-> id, role |-> role, kind |-> kind,
     cost |-> [score |-> score, delay |-> delay, path |-> path]]
\* The four templates of the generation profile in the code, and one for each of
\* the two kinds of maneuver it leaves out.
AllSlots ==
    {Slot(1, "PREFERRED", "ALTITUDE", 10, 0, 0), Slot(2, "PREFERRED", "HEADING", 25, 0, 1),
     Slot(3, "OTHER", "SPEED", 20, 3, 0), Slot(4, "OTHER", "ALTITUDE", 30, 0, 0),
     Slot(6, "OTHER", "ENTRY_DELAY", 20, 1, 0), Slot(7, "PREFERRED", "SEQUENCE_CHANGE", 5, 0, 0)}
OneSlot == {Slot(1, "PREFERRED", "ALTITUDE", 10, 0, 0)}

TwoEvents ==
    {[id |-> 1, kind |-> "ENTRY_CONFORMANCE_DEVIATION", target |-> 2, at |-> 1],
     [id |-> 2, kind |-> "EMERGENCY_DECLARED", target |-> 1, at |-> 3]}
NoEvents == {}
=============================================================================
