-------------------------- MODULE EagerSimulation --------------------------
(***************************************************************************)
(* What the clock-driven parts promise together: one run at a time.  Here  *)
(* a reset starts the new run everywhere in the same step, so nothing of   *)
(* an earlier run can influence what the timeline emits, which scheduler   *)
(* slots run or where an aircraft is.  SimulationRuntime implements this   *)
(* with parts that notice a reset only when they are next used.            *)
(***************************************************************************)
EXTENDS SimulationParts

CONSTANTS Schedulers, StepSizes, MaxTick, MaxResets

VARIABLES
    clock,       \* the shared clock
    next,        \* events emitted in this run
    lastSlot,    \* per scheduler, the latest slot that ran in this run
    applied,     \* per aircraft, the anchors applied in this run
    delivered,   \* the events handed out in this run, in order
    ran          \* per scheduler, the slots it ran in this run, in order

vars == <<clock, next, lastSlot, applied, delivered, ran>>

Init ==
    /\ clock = InitialClock
    /\ next = 0
    /\ lastSlot = [k \in Schedulers |-> NoSlot]
    /\ applied = [a \in Aircraft |-> {}]
    /\ delivered = << >>
    /\ ran = [k \in Schedulers |-> << >>]

Play ==
    /\ clock' = Played(clock)
    /\ UNCHANGED <<next, lastSlot, applied, delivered, ran>>

Pause ==
    /\ clock' = Paused(clock)
    /\ UNCHANGED <<next, lastSlot, applied, delivered, ran>>

Tick(n) ==
    /\ clock.tick + n <= MaxTick
    /\ clock' = Ticked(clock, n)
    /\ UNCHANGED <<next, lastSlot, applied, delivered, ran>>

Reset ==
    /\ clock.resets < MaxResets
    /\ clock' = Restarted(clock)
    /\ next' = 0
    /\ lastSlot' = [k \in Schedulers |-> NoSlot]
    /\ applied' = [a \in Aircraft |-> {}]
    /\ delivered' = << >>
    /\ ran' = [k \in Schedulers |-> << >>]

\* Every event that has fallen due is handed out, each once, in order.
Poll ==
    /\ clock.state = "RUNNING"
    /\ next' = DueThrough(next, clock.tick)
    /\ delivered' = delivered \o [i \in 1 .. (next' - next) |-> next + i]
    /\ UNCHANGED <<clock, lastSlot, applied, ran>>

RunSlot(k) ==
    /\ clock.state = "RUNNING"
    /\ Slot(clock) > lastSlot[k]
    /\ lastSlot' = [lastSlot EXCEPT ![k] = Slot(clock)]
    /\ ran' = [ran EXCEPT ![k] = Append(@, Slot(clock))]
    /\ UNCHANGED <<clock, next, applied, delivered>>

Apply(a, w) ==
    /\ clock.state = "RUNNING"
    /\ clock.tick \notin {0} \cup Scheduled[a] \cup {x.at : x \in applied[a]}
    /\ applied' = [applied EXCEPT ![a] = @ \cup {[at |-> clock.tick, what |-> w]}]
    /\ UNCHANGED <<clock, next, lastSlot, delivered, ran>>

Next ==
    \/ Play \/ Pause \/ Reset \/ Poll
    \/ \E n \in StepSizes : Tick(n)
    \/ \E k \in Schedulers : RunSlot(k)
    \/ \E a \in Aircraft, w \in Payloads : Apply(a, w)

Spec == Init /\ [][Next]_vars
=============================================================================
