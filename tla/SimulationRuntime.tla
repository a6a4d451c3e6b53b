------------------------- MODULE SimulationRuntime -------------------------
(***************************************************************************)
(* The clock and the parts that share it, used by one thread in any order: *)
(* the methods of SimulationClock, ScenarioEventTimeline, the two rolling  *)
(* schedulers and SyntheticAircraftRuntime.  A method that raises changes  *)
(* nothing and has no action of its own.                                   *)
(***************************************************************************)
EXTENDS SimulationParts

CONSTANTS
    Schedulers,  \* names of the rolling schedulers
    StepSizes,   \* tick counts a caller asks for
    MaxTick,     \* bound on simulation time in one run
    MaxResets    \* bound on the number of resets

ASSUME StepSizesAssumption == StepSizes \subseteq Nat \ {0}
ASSUME BoundsAssumption == MaxTick \in Nat /\ MaxResets \in Nat

VARIABLES
    clock,       \* SimulationClock
    timeline,    \* ScenarioEventTimeline
    scheduler,   \* per name, a rolling scheduler
    aircraft,    \* per aircraft, a SyntheticAircraftRuntime
    delivered,   \* history: the events the polls of this run returned
    ran          \* history: per scheduler, the slots it ran in this run

vars == <<clock, timeline, scheduler, aircraft, delivered, ran>>

TypeOK ==
    /\ clock \in Clocks
    /\ timeline \in Timelines
    /\ scheduler \in [Schedulers -> SchedulerStates]
    /\ aircraft \in [Aircraft -> Runtimes]
    /\ delivered \in Seq(DOMAIN Events)
    /\ ran \in [Schedulers -> Seq(Nat)]

Init ==
    /\ clock = InitialClock
    /\ timeline = InitialTimeline
    /\ scheduler = [k \in Schedulers |-> InitialScheduler]
    /\ aircraft = [a \in Aircraft |-> InitialRuntime]
    /\ delivered = << >>
    /\ ran = [k \in Schedulers |-> << >>]

Play ==
    /\ clock' = Played(clock)
    /\ UNCHANGED <<timeline, scheduler, aircraft, delivered, ran>>

Pause ==
    /\ clock' = Paused(clock)
    /\ UNCHANGED <<timeline, scheduler, aircraft, delivered, ran>>

Tick(n) ==
    /\ clock.tick + n <= MaxTick
    /\ clock' = Ticked(clock, n)
    /\ UNCHANGED <<timeline, scheduler, aircraft, delivered, ran>>

\* The clock alone: the parts still hold the state of the run that ended.
Reset ==
    /\ clock.resets < MaxResets
    /\ clock' = Restarted(clock)
    /\ delivered' = << >>
    /\ ran' = [k \in Schedulers |-> << >>]
    /\ UNCHANGED <<timeline, scheduler, aircraft>>

Poll ==
    /\ timeline' = Polled(timeline, clock)
    /\ delivered' = delivered \o Emitted(timeline, clock)
    /\ UNCHANGED <<clock, scheduler, aircraft, ran>>

RunIfDue(k) ==
    /\ scheduler' = [scheduler EXCEPT ![k] = RanIfDue(@, clock)]
    /\ ran' = IF RunIsDue(scheduler[k], clock)
              THEN [ran EXCEPT ![k] = Append(@, Slot(clock))] ELSE ran
    /\ UNCHANGED <<clock, timeline, aircraft, delivered>>

ApplyStateAnchor(a, t, w) ==
    /\ AnchorAccepted(a, aircraft[a], clock, t)
    /\ aircraft' = [aircraft EXCEPT ![a] = Anchored(@, clock, t, w)]
    /\ UNCHANGED <<clock, timeline, scheduler, delivered, ran>>

\* The read accessors also bring their part up to the current run.
PendingEvents ==
    /\ timeline' = SyncedTimeline(timeline, clock)
    /\ UNCHANGED <<clock, scheduler, aircraft, delivered, ran>>

LastRun(k) ==
    /\ scheduler' = [scheduler EXCEPT ![k] = SyncedScheduler(@, clock)]
    /\ UNCHANGED <<clock, timeline, aircraft, delivered, ran>>

CurrentState(a) ==
    /\ aircraft' = [aircraft EXCEPT ![a] = SyncedRuntime(@, clock)]
    /\ UNCHANGED <<clock, timeline, scheduler, delivered, ran>>

Next ==
    \/ Play \/ Pause \/ Reset \/ Poll \/ PendingEvents
    \/ \E n \in StepSizes : Tick(n)
    \/ \E k \in Schedulers : RunIfDue(k) \/ LastRun(k)
    \/ \E a \in Aircraft : CurrentState(a)
    \/ \E a \in Aircraft, t \in 0 .. MaxTick, w \in Payloads : ApplyStateAnchor(a, t, w)

Spec == Init /\ [][Next]_vars

-----------------------------------------------------------------------------
\* The events handed out in one run are the scenario's own sequence from its
\* start: none twice, none skipped, none before it is due.
EventsOncePerRunInOrder ==
    /\ delivered = [i \in 1 .. Len(delivered) |-> i]
    /\ \A i \in DOMAIN delivered : Events[delivered[i]] <= clock.tick

\* A poll of a running clock leaves no due event behind, however many ticks
\* were skipped since the last one.
PollCatchesUp ==
    [][Poll /\ clock.state = "RUNNING" =>
        \A e \in DOMAIN Events :
            Events[e] <= clock.tick => \E i \in DOMAIN delivered' : delivered'[i] = e]_vars

\* A scheduler runs each slot at most once in a run and never goes back to an
\* earlier slot, whatever the ticks, pauses and resets in between.
OneRunPerSlot ==
    \A k \in Schedulers : \A i, j \in DOMAIN ran[k] :
        i < j => ran[k][i] < ran[k][j]

\* The state an aircraft is extrapolated from is never ambiguous and never from
\* the future: anchors applied in this run are no later than the clock and share
\* their tick with no other anchor, also when the clock has been set back to 0.
AnchorsUnambiguous ==
    \A a \in Aircraft :
        LET applied == SyncedRuntime(aircraft[a], clock).applied
        IN  \A x \in applied :
                /\ x.at <= clock.tick
                /\ x.at \notin {0} \cup Scheduled[a]
                /\ \A y \in applied : y.at = x.at => y = x

-----------------------------------------------------------------------------
(* Refinement: what each part would hold had it seen the reset already. *)

Eager == INSTANCE EagerSimulation WITH
    next     <- SyncedTimeline(timeline, clock).next,
    lastSlot <- [k \in Schedulers |-> SyncedScheduler(scheduler[k], clock).lastSlot],
    applied  <- [a \in Aircraft |-> SyncedRuntime(aircraft[a], clock).applied]

\* Noticing a reset late is indistinguishable from resetting every part at once.
ResetIsImmediate == Eager!Spec
=============================================================================
