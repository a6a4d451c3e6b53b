------------------------ MODULE MCSimulationRuntime ------------------------
(* SimulationRuntime on a scaled-down scenario: one slot is two ticks. *)
EXTENDS SimulationRuntime

MCAircraft   == {"MIL-F01"}
MCScheduled  == [a \in MCAircraft |-> {2}]
MCEvents     == <<2, 2, 4>>
MCSchedulers == {"prediction"}
=============================================================================
