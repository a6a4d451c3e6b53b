-------------------------- MODULE SimulationParts --------------------------
(***************************************************************************)
(* The clock-driven parts of one in-process simulation, as values and the  *)
(* functions their methods compute: the Simulation Clock, the scenario     *)
(* event timeline, a rolling scheduler (prediction and conflict share the  *)
(* algorithm) and a synthetic aircraft with its motion anchors.            *)
(*                                                                         *)
(* Time is the number of completed ticks (tick_seconds = 1).  Every part   *)
(* but the clock keeps the reset_count it last saw and forgets its run     *)
(* state only when it is next used: a clock reset does not notify anyone.  *)
(***************************************************************************)
EXTENDS Integers, Sequences

CONSTANTS
    Aircraft,    \* the synthetic aircraft
    Scheduled,   \* per aircraft, the ticks of its scheduled motion anchors
    Events,      \* the ticks at which the scenario events fall due, in order
    Interval,    \* ticks per slot of a rolling scheduler
    Payloads     \* the aircraft states an applied anchor may carry

ASSUME ScheduledAssumption == Scheduled \in [Aircraft -> SUBSET (Nat \ {0})]
ASSUME EventsAssumption == Events \in Seq(Nat)
ASSUME EventsOrdered ==
    \A i, j \in DOMAIN Events : i < j => Events[i] <= Events[j]
ASSUME IntervalAssumption == Interval \in Nat \ {0}

ClockStates == {"READY", "RUNNING", "PAUSED"}
NoSlot == -1

Clocks      == [tick : Nat, resets : Nat, state : ClockStates]
Timelines   == [observed : Nat, next : 0 .. Len(Events)]
SchedulerStates == [observed : Nat, lastSlot : Nat \cup {NoSlot}]
Anchors     == [at : Nat, what : Payloads]
Runtimes    == [observed : Nat, applied : SUBSET Anchors]

-----------------------------------------------------------------------------
(* SimulationClock *)

InitialClock == [tick |-> 0, resets |-> 0, state |-> "READY"]

Played(c) == [c EXCEPT !.state = "RUNNING"]

\* Pausing a clock that is not running does nothing.
Paused(c) == IF c.state = "RUNNING" THEN [c EXCEPT !.state = "PAUSED"] ELSE c

Restarted(c) == [tick |-> 0, resets |-> c.resets + 1, state |-> "READY"]

\* A clock that is not running ignores the request without an error.
Ticked(c, n) == IF c.state = "RUNNING" THEN [c EXCEPT !.tick = @ + n] ELSE c

-----------------------------------------------------------------------------
(* ScenarioEventTimeline: next counts the events already emitted. *)

InitialTimeline == [observed |-> 0, next |-> 0]

\* Faulty variant: the reset is acknowledged but the position is kept.
SyncedTimelineKeepingPosition(l, c) == [l EXCEPT !.observed = c.resets]

SyncedTimeline(l, c) ==
    IF l.observed = c.resets THEN l ELSE [observed |-> c.resets, next |-> 0]

\* Faulty variant: an event due exactly now waits for a later poll.
DueThroughLate(i, now) ==
    CHOOSE j \in i .. Len(Events) :
        /\ \A k \in (i + 1) .. j : Events[k] < now
        /\ j < Len(Events) => Events[j + 1] >= now

\* Where the scan for due events stops when it starts after event i.
DueThrough(i, now) ==
    CHOOSE j \in i .. Len(Events) :
        /\ \A k \in (i + 1) .. j : Events[k] <= now
        /\ j < Len(Events) => Events[j + 1] > now

Polled(l, c) ==
    LET s == SyncedTimeline(l, c)
    IN  IF c.state = "RUNNING" THEN [s EXCEPT !.next = DueThrough(@, c.tick)] ELSE s

\* The events a poll returns, in declared order.
Emitted(l, c) ==
    LET first == SyncedTimeline(l, c).next
    IN  [i \in 1 .. (Polled(l, c).next - first) |-> first + i]

-----------------------------------------------------------------------------
(* RollingPredictionScheduler and RollingConflictScheduler *)

InitialScheduler == [observed |-> 0, lastSlot |-> NoSlot]

Slot(c) == c.tick \div Interval

\* Faulty variant: the last slot survives a reset.
SyncedSchedulerKeepingSlot(s, c) == [s EXCEPT !.observed = c.resets]

SyncedScheduler(s, c) ==
    IF s.observed = c.resets THEN s
    ELSE [observed |-> c.resets, lastSlot |-> NoSlot]

\* Faulty variant: the slot already served is due again.
RunIsDueAgain(s, c) ==
    /\ c.state = "RUNNING"
    /\ Slot(c) >= SyncedScheduler(s, c).lastSlot

RunIsDue(s, c) ==
    /\ c.state = "RUNNING"
    /\ Slot(c) > SyncedScheduler(s, c).lastSlot

RanIfDue(s, c) ==
    IF RunIsDue(s, c) THEN [observed |-> c.resets, lastSlot |-> Slot(c)]
    ELSE SyncedScheduler(s, c)

-----------------------------------------------------------------------------
(* SyntheticAircraftRuntime *)

InitialRuntime == [observed |-> 0, applied |-> {}]

\* Faulty variant: anchors applied in an earlier run survive the reset.
SyncedRuntimeKeepingAnchors(r, c) == [r EXCEPT !.observed = c.resets]

SyncedRuntime(r, c) ==
    IF r.observed = c.resets THEN r ELSE [observed |-> c.resets, applied |-> {}]

\* The initial state is the anchor at the start of the run.
AnchorTimes(a, r) == {0} \cup Scheduled[a] \cup {x.at : x \in r.applied}

\* Faulty variant: only anchors of other applications are checked for a clash.
AnchorAcceptedOverSchedule(a, r, c, t) ==
    /\ c.state = "RUNNING"
    /\ t = c.tick
    /\ t \notin {x.at : x \in SyncedRuntime(r, c).applied}

AnchorAccepted(a, r, c, t) ==
    /\ c.state = "RUNNING"
    /\ t = c.tick
    /\ t \notin AnchorTimes(a, SyncedRuntime(r, c))

Anchored(r, c, t, w) ==
    [SyncedRuntime(r, c) EXCEPT !.applied = @ \cup {[at |-> t, what |-> w]}]
=============================================================================
