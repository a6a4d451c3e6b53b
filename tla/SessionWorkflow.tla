-------------------------- MODULE SessionWorkflow --------------------------
(***************************************************************************)
(* What the guided session promises its operator, run by run: the stages   *)
(* in order, one choice by the controller, and an aircraft that leaves its *)
(* scenario trajectory only for the accepted maneuver or for a modified    *)
(* one that passed isolated validation.  An application whose recomputation*)
(* fails leaves the stage behind the aircraft, never ahead of it.          *)
(***************************************************************************)
EXTENDS Integers

CONSTANTS
    Maneuvers, NoManeuver,
    Recommended,   \* the maneuver of the recommendation
    SafeManeuvers  \* those that isolated validation finds SAFE

VARIABLES run, stage, choice, moved

vars == <<run, stage, choice, moved>>

Init == run = 0 /\ stage = "READY" /\ choice = NoManeuver /\ moved = {}

NewRun == run' = run + 1 /\ stage' = "READY" /\ choice' = NoManeuver /\ moved' = {}

Proceed(from, to) ==
    /\ stage = from
    /\ stage' = to
    /\ UNCHANGED <<run, choice, moved>>

Decide(to, m) ==
    /\ stage = "RECOMMENDATION_AVAILABLE"
    /\ stage' = to
    /\ choice' = m
    /\ UNCHANGED <<run, moved>>

Authorized ==
    \/ stage = "DECISION_ACCEPTED"
    \/ stage = "MODIFICATION_REVALIDATED" /\ choice \in SafeManeuvers

Apply ==
    /\ Authorized
    /\ moved = {}
    /\ moved' = {choice}
    /\ stage' \in {stage, "CONFLICT_RESOLVED"}
    /\ UNCHANGED <<run, choice>>

Next ==
    \/ NewRun
    \/ Proceed("READY", "MONITORING")
    \/ Proceed("MONITORING", "CONFLICT_DETECTED")
    \/ Proceed("CONFLICT_DETECTED", "RECOMMENDATION_AVAILABLE")
    \/ Decide("DECISION_ACCEPTED", Recommended)
    \/ \E m \in Maneuvers \ {Recommended} : Decide("DECISION_MODIFIED", m)
    \/ Decide("DECISION_REJECTED", NoManeuver)
    \/ Proceed("DECISION_MODIFIED", "MODIFICATION_REVALIDATED")
    \/ Apply

Spec == Init /\ [][Next]_vars
=============================================================================
