---------------------- MODULE SimulationRuntimeProofs ----------------------
(***************************************************************************)
(* What the parts of a simulation guarantee in any order of calls, for any *)
(* scenario, interval, step sizes and number of resets.                    *)
(*                                                                         *)
(* The argument is about the view each part has of the current run: what   *)
(* it would hold had it noticed the reset already.  A reset empties every  *)
(* view at once because no part has seen a run that has not begun          *)
(* (Lagging); every other step changes at most one view.                   *)
(***************************************************************************)
EXTENDS SimulationRuntime, SharedValueProofs, SequenceTheorems

Position == SyncedTimeline(timeline, clock).next
Served(k) == SyncedScheduler(scheduler[k], clock).lastSlot
Applied(a) == SyncedRuntime(aircraft[a], clock).applied

\* No part has seen a run that has not begun.
Lagging ==
    /\ timeline.observed <= clock.resets
    /\ \A k \in Schedulers : scheduler[k].observed <= clock.resets
    /\ \A a \in Aircraft : aircraft[a].observed <= clock.resets

\* The events handed out are those up to the timeline's position.
DeliveredIsPosition ==
    /\ delivered = [i \in 1 .. Position |-> i]
    /\ \A i \in 1 .. Position : Events[i] <= clock.tick

\* A scheduler remembers the latest of the slots it ran.
ServedIsLatest ==
    \A k \in Schedulers : \A i \in DOMAIN ran[k] : ran[k][i] <= Served(k)

IInv ==
    /\ TypeOK /\ Lagging /\ DeliveredIsPosition
    /\ ServedIsLatest /\ OneRunPerSlot /\ AnchorsUnambiguous

-----------------------------------------------------------------------------
\* The sequence 1, 2, ..., n is a sequence of events.
LEMMA CountingUp ==
    ASSUME NEW n \in 0 .. Len(Events)
    PROVE  /\ [i \in 1 .. n |-> i] \in Seq(DOMAIN Events)
           /\ Len([i \in 1 .. n |-> i]) = n
  <1>1. DOMAIN Events = 1 .. Len(Events) /\ n \in Nat
    BY EventsAssumption, EventsType
  <1>2. [i \in 1 .. n |-> i] \in [1 .. n -> DOMAIN Events]
    BY <1>1, EventsType
  <1>3. [i \in 1 .. n |-> i] \in Seq(DOMAIN Events)
    BY <1>1, <1>2, SeqDef
  <1>. QED
    BY <1>1, <1>3

\* Counting on from where a sequence stopped.
LEMMA CountingOn ==
    ASSUME NEW n \in 0 .. Len(Events), NEW m \in n .. Len(Events)
    PROVE  [i \in 1 .. n |-> i] \o [i \in 1 .. (m - n) |-> n + i] = [i \in 1 .. m |-> i]
  <1>. DEFINE s == [i \in 1 .. n |-> i]
              t == [i \in 1 .. (m - n) |-> n + i]
              u == [i \in 1 .. m |-> i]
  <1>1. n \in Nat /\ m \in Nat /\ m - n \in Nat
    BY EventsType
  <1>2. s \in Seq(Nat) /\ Len(s) = n
    BY <1>1, SeqDef
  <1>3. t \in [1 .. (m - n) -> Nat]
    BY <1>1
  <1>4. t \in Seq(Nat) /\ Len(t) = m - n
    BY <1>1, <1>3, SeqDef
  <1>5. u \in Seq(Nat) /\ Len(u) = m
    BY <1>1, SeqDef
  <1>6. /\ s \o t \in Seq(Nat) /\ Len(s \o t) = m
        /\ \A i \in 1 .. m : (s \o t)[i] = IF i <= n THEN s[i] ELSE t[i - n]
    <2>. HIDE DEF s, t
    <2>1. n + (m - n) = m
      BY <1>1
    <2>. QED
      BY <1>2, <1>4, <2>1, ConcatProperties
  <1>7. ASSUME NEW i \in 1 .. m PROVE (s \o t)[i] = u[i]
    <2>1. u[i] = i
      OBVIOUS
    <2>2. CASE i <= n
      <3>1. i \in 1 .. n
        BY <1>1, <2>2
      <3>2. s[i] = i
        BY <3>1
      <3>. HIDE DEF s, t, u
      <3>. QED
        BY <1>6, <2>1, <2>2, <3>2
    <2>3. CASE ~(i <= n)
      <3>1. i - n \in 1 .. (m - n) /\ n + (i - n) = i
        BY <1>1, <2>3
      <3>2. t[i - n] = i
        BY <3>1
      <3>. HIDE DEF s, t, u
      <3>. QED
        BY <1>6, <2>1, <2>3, <3>2
    <2>. QED
      BY <2>2, <2>3
  <1>. HIDE DEF s, t, u
  <1>8. s \o t = u
    BY <1>5, <1>6, <1>7, SeqEqual
  <1>. QED
    BY <1>8 DEF s, t, u

\* A part that is up to date is its own view.
LEMMA UpToDate ==
    ASSUME NEW l, NEW s, NEW r, NEW c
    PROVE  /\ l.observed = c.resets => SyncedTimeline(l, c) = l
           /\ s.observed = c.resets => SyncedScheduler(s, c) = s
           /\ r.observed = c.resets => SyncedRuntime(r, c) = r
  BY DEF SyncedTimeline, SyncedScheduler, SyncedRuntime

-----------------------------------------------------------------------------
\* In the type-correct states a view is well-typed, too.
LEMMA ViewTypes ==
    ASSUME TypeOK
    PROVE  /\ Position \in 0 .. Len(Events)
           /\ \A k \in Schedulers : Served(k) \in Nat \cup {NoSlot}
           /\ \A a \in Aircraft : Applied(a) \in SUBSET Anchors
  <1>1. Position \in 0 .. Len(Events)
    <2>1. SyncedTimeline(timeline, clock) \in Timelines
      BY TimelineTypes DEF TypeOK
    <2>. QED
      BY <2>1 DEF Position, Timelines
  <1>2. ASSUME NEW k \in Schedulers PROVE Served(k) \in Nat \cup {NoSlot}
    <2>1. SyncedScheduler(scheduler[k], clock) \in SchedulerStates
      BY SchedulerTypes DEF TypeOK
    <2>. QED
      BY <2>1 DEF Served, SchedulerStates
  <1>3. ASSUME NEW a \in Aircraft PROVE Applied(a) \in SUBSET Anchors
    <2>1. SyncedRuntime(aircraft[a], clock) \in Runtimes
      BY SyncedRuntimeType DEF TypeOK
    <2>. QED
      BY <2>1 DEF Applied, Runtimes
  <1>. QED
    BY <1>1, <1>2, <1>3

\* No view changes when the clock moves on within a run.
LEMMA ViewsStay ==
    ASSUME TypeOK, clock' \in Clocks, clock'.resets = clock.resets,
           UNCHANGED <<timeline, scheduler, aircraft>>
    PROVE  /\ Position' = Position
           /\ \A k \in Schedulers : Served(k)' = Served(k)
           /\ \A a \in Aircraft : Applied(a)' = Applied(a)
  <1>1. Position' = Position
    BY DEF TypeOK, Position, Timelines, SyncedTimeline
  <1>2. ASSUME NEW k \in Schedulers PROVE Served(k)' = Served(k)
    BY DEF TypeOK, Served, SyncedScheduler
  <1>3. ASSUME NEW a \in Aircraft PROVE Applied(a)' = Applied(a)
    BY DEF TypeOK, Applied, SyncedRuntime
  <1>. QED
    BY <1>1, <1>2, <1>3

\* Play, Pause and Tick: time does not go back and nothing else changes.
LEMMA ClockMoves ==
    ASSUME IInv, clock' \in Clocks, clock'.resets = clock.resets,
           clock.tick <= clock'.tick,
           UNCHANGED <<timeline, scheduler, aircraft, delivered, ran>>
    PROVE  IInv'
  <1>1. /\ TypeOK /\ clock \in Clocks /\ clock.tick \in Nat /\ clock'.tick \in Nat
        /\ Position \in 0 .. Len(Events)
    BY ViewTypes DEF IInv, TypeOK, Clocks
  <1>2. /\ Position' = Position
        /\ \A k \in Schedulers : Served(k)' = Served(k)
        /\ \A a \in Aircraft : Applied(a)' = Applied(a)
    BY <1>1, ViewsStay
  <1>3. TypeOK'
    BY <1>1 DEF TypeOK
  <1>4. Lagging'
    BY DEF IInv, Lagging
  <1>5. DeliveredIsPosition'
    <2>1. \A i \in 1 .. Position : Events[i] \in Nat /\ Events[i] <= clock.tick
      BY <1>1, EventsType DEF IInv, DeliveredIsPosition
    <2>2. delivered' = [i \in 1 .. Position |-> i]
      BY DEF IInv, DeliveredIsPosition
    <2>. HIDE DEF Position
    <2>3. \A i \in 1 .. Position' : Events[i] <= clock'.tick
      BY <1>1, <1>2, <2>1
    <2>. QED
      BY <1>2, <2>2, <2>3 DEF DeliveredIsPosition
  <1>6. ServedIsLatest' /\ OneRunPerSlot'
    BY <1>2 DEF IInv, ServedIsLatest, OneRunPerSlot
  <1>7. AnchorsUnambiguous'
    <2>. SUFFICES ASSUME NEW a \in Aircraft, NEW x \in Applied(a)'
                  PROVE  /\ x.at <= clock'.tick
                         /\ x.at \notin {0} \cup Scheduled[a]
                         /\ \A y \in Applied(a)' : y.at = x.at => y = x
      BY DEF AnchorsUnambiguous, Applied
    <2>1. x \in Applied(a) /\ x \in Anchors /\ x.at \in Nat
      BY <1>1, <1>2, ViewTypes DEF Anchors
    <2>2. /\ x.at <= clock.tick
          /\ x.at \notin {0} \cup Scheduled[a]
          /\ \A y \in Applied(a) : y.at = x.at => y = x
      BY <2>1 DEF IInv, AnchorsUnambiguous, Applied
    <2>. QED
      BY <1>1, <1>2, <2>1, <2>2
  <1>. QED
    BY <1>3, <1>4, <1>5, <1>6, <1>7 DEF IInv

\* Reset empties every view, although no part has noticed it.
LEMMA ResetViews ==
    ASSUME TypeOK, Lagging, Reset
    PROVE  /\ Position' = 0
           /\ \A k \in Schedulers : Served(k)' = NoSlot
           /\ \A a \in Aircraft : Applied(a)' = {}
           /\ clock' \in Clocks /\ clock'.tick = 0
  <1>1. /\ clock' \in Clocks /\ clock'.tick = 0 /\ clock'.resets = clock.resets + 1
        /\ clock.resets \in Nat /\ clock'.resets \in Nat
    BY DEF TypeOK, Reset, Restarted, Clocks, ClockStates
  <1>2. Position' = 0
    BY <1>1 DEF TypeOK, Lagging, Reset, Timelines, Position, SyncedTimeline
  <1>3. ASSUME NEW k \in Schedulers PROVE Served(k)' = NoSlot
    BY <1>1 DEF TypeOK, Lagging, Reset, SchedulerStates, Served, SyncedScheduler
  <1>4. ASSUME NEW a \in Aircraft PROVE Applied(a)' = {}
    BY <1>1 DEF TypeOK, Lagging, Reset, Runtimes, Applied, SyncedRuntime
  <1>. QED
    BY <1>1, <1>2, <1>3, <1>4

\* A reset starts the histories and the views afresh together.
LEMMA ResetIInv ==
    ASSUME IInv, Reset
    PROVE  IInv'
  <1>1. TypeOK /\ Lagging
    BY DEF IInv
  <1>2. /\ Position' = 0
        /\ \A k \in Schedulers : Served(k)' = NoSlot
        /\ \A a \in Aircraft : Applied(a)' = {}
        /\ clock' \in Clocks /\ clock'.tick = 0
    BY <1>1, ResetViews
  <1>3. /\ delivered' = << >> /\ ran' = [k \in Schedulers |-> << >>]
        /\ UNCHANGED <<timeline, scheduler, aircraft>>
        /\ clock'.resets = clock.resets + 1
    BY DEF Reset, Restarted
  <1>4. TypeOK'
    <2>1. << >> \in Seq(DOMAIN Events) /\ << >> \in Seq(Nat)
      BY EmptySeq
    <2>. QED
      BY <1>1, <1>2, <1>3, <2>1 DEF TypeOK
  <1>5. Lagging'
    BY <1>1, <1>3 DEF TypeOK, Lagging, Clocks, Timelines, SchedulerStates, Runtimes
  <1>6. DeliveredIsPosition'
    BY <1>2, <1>3 DEF DeliveredIsPosition
  <1>7. ServedIsLatest' /\ OneRunPerSlot'
    BY <1>3 DEF ServedIsLatest, OneRunPerSlot
  <1>8. AnchorsUnambiguous'
    BY <1>2 DEF AnchorsUnambiguous, Applied
  <1>. QED
    BY <1>4, <1>5, <1>6, <1>7, <1>8 DEF IInv

-----------------------------------------------------------------------------
\* Poll and PendingEvents: the timeline alone.  It is up to date afterwards, and
\* what it handed out continues where the last poll of the run stopped.
LEMMA PollFacts ==
    ASSUME TypeOK, Poll
    PROVE  /\ timeline' \in Timelines /\ timeline'.observed = clock.resets
           /\ clock' = clock
           /\ Position' = Polled(timeline, clock).next
           /\ Position' \in Position .. Len(Events)
           /\ delivered' = delivered \o [i \in 1 .. (Position' - Position) |-> Position + i]
           /\ clock.state = "RUNNING" => Position' = DueThrough(Position, clock.tick)
           /\ clock.state # "RUNNING" => Position' = Position
  <1>1. timeline \in Timelines /\ clock \in Clocks
    BY DEF TypeOK
  <1>2. /\ timeline' = Polled(timeline, clock) /\ clock' = clock
        /\ delivered' = delivered \o Emitted(timeline, clock)
    BY DEF Poll
  <1>3. /\ timeline' \in Timelines /\ timeline'.observed = clock.resets
        /\ timeline'.next \in Position .. Len(Events)
    BY <1>1, <1>2, TimelineTypes DEF Position
  <1>4. Position' = timeline'.next
    BY <1>2, <1>3, UpToDate DEF Position, SyncedTimeline
  <1>5. Emitted(timeline, clock) = [i \in 1 .. (Position' - Position) |-> Position + i]
    BY <1>2, <1>4 DEF Emitted, Position
  <1>6. clock.state = "RUNNING" => Position' = DueThrough(Position, clock.tick)
    <2>1. SyncedTimeline(timeline, clock) \in Timelines
      BY <1>1, TimelineTypes
    <2>. QED
      BY <1>2, <1>4, <2>1 DEF Polled, Position, Timelines
  <1>7. clock.state # "RUNNING" => Position' = Position
    BY <1>2, <1>4 DEF Polled, Position
  <1>. QED
    BY <1>2, <1>3, <1>4, <1>5, <1>6, <1>7

\* While the clock stands, a view changes only with its own part.
LEMMA OtherViews ==
    ASSUME clock' = clock
    PROVE  /\ timeline' = timeline => Position' = Position
           /\ scheduler' = scheduler => \A k \in Schedulers : Served(k)' = Served(k)
           /\ aircraft' = aircraft => \A a \in Aircraft : Applied(a)' = Applied(a)
  BY DEF Position, Served, Applied

\* What a step leaves alone keeps its part of the invariant.
LEMMA Untouched ==
    ASSUME IInv, clock' = clock
    PROVE  /\ UNCHANGED <<timeline, delivered>> => DeliveredIsPosition'
           /\ UNCHANGED <<scheduler, ran>> => ServedIsLatest' /\ OneRunPerSlot'
           /\ UNCHANGED aircraft => AnchorsUnambiguous'
  BY DEF IInv, DeliveredIsPosition, Position, ServedIsLatest, Served, OneRunPerSlot,
         AnchorsUnambiguous

\* A poll extends what was handed out to the new position.
LEMMA PollIInv ==
    ASSUME IInv, Poll
    PROVE  IInv'
  <1>1. TypeOK /\ Position \in 0 .. Len(Events) /\ clock.tick \in Nat
    BY ViewTypes DEF IInv, TypeOK, Clocks
  <1>2. /\ timeline' \in Timelines /\ timeline'.observed = clock.resets
        /\ clock' = clock
        /\ Position' \in Position .. Len(Events)
        /\ delivered' = delivered \o [i \in 1 .. (Position' - Position) |-> Position + i]
        /\ clock.state = "RUNNING" => Position' = DueThrough(Position, clock.tick)
        /\ clock.state # "RUNNING" => Position' = Position
    BY <1>1, PollFacts
  <1>3. UNCHANGED <<clock, scheduler, aircraft, ran>>
    BY DEF Poll
  <1>4. delivered' = [i \in 1 .. Position' |-> i]
    <2>1. delivered = [i \in 1 .. Position |-> i]
      BY DEF IInv, DeliveredIsPosition
    <2>. QED
      BY <1>1, <1>2, <2>1, CountingOn
  <1>5. \A i \in 1 .. Position' : Events[i] <= clock.tick
    <2>1. \A i \in 1 .. Position : Events[i] <= clock.tick
      BY DEF IInv, DeliveredIsPosition
    <2>2. \A i \in (Position + 1) .. DueThrough(Position, clock.tick) : Events[i] <= clock.tick
      BY <1>1, DueThroughFacts
    <2>. DEFINE p == Position
                q == Position'
    <2>3. p \in Nat /\ q \in Nat
      BY <1>1, <1>2, EventsType
    <2>4. q = DueThrough(p, clock.tick) \/ q = p
      BY <1>2
    <2>5. \A i \in 1 .. p : Events[i] <= clock.tick
      BY <2>1
    <2>6. \A i \in (p + 1) .. DueThrough(p, clock.tick) : Events[i] <= clock.tick
      BY <2>2
    <2>7. \A i \in 1 .. q : Events[i] <= clock.tick
      <3>. HIDE DEF p, q
      <3>. QED
        BY <2>3, <2>4, <2>5, <2>6
    <2>. QED
      BY <2>7
  <1>6. DeliveredIsPosition'
    BY <1>3, <1>4, <1>5 DEF DeliveredIsPosition
  <1>7. TypeOK'
    <2>1. Position' \in 0 .. Len(Events)
      BY <1>1, <1>2, EventsType
    <2>2. delivered' \in Seq(DOMAIN Events)
      BY <1>4, <2>1, CountingUp
    <2>. QED
      BY <1>1, <1>2, <1>3, <2>2 DEF TypeOK
  <1>8. Lagging'
    BY <1>1, <1>2, <1>3 DEF IInv, Lagging, TypeOK, Clocks
  <1>. QED
    BY <1>3, <1>6, <1>7, <1>8, Untouched DEF IInv

\* Reading the timeline changes no view.
LEMMA PendingEventsIInv ==
    ASSUME IInv, PendingEvents
    PROVE  IInv' /\ Position' = Position
  <1>1. TypeOK /\ timeline \in Timelines /\ clock \in Clocks
    BY DEF IInv, TypeOK
  <1>2. /\ timeline' = SyncedTimeline(timeline, clock)
        /\ UNCHANGED <<clock, scheduler, aircraft, delivered, ran>>
    BY DEF PendingEvents
  <1>3. timeline' \in Timelines /\ timeline'.observed = clock.resets
    BY <1>1, <1>2, TimelineTypes
  <1>4. Position' = Position
    BY <1>2, <1>3, UpToDate DEF Position, SyncedTimeline
  <1>5. TypeOK' /\ Lagging'
    BY <1>1, <1>2, <1>3 DEF IInv, TypeOK, Lagging, Clocks
  <1>6. DeliveredIsPosition'
    BY <1>2, <1>4 DEF IInv, DeliveredIsPosition
  <1>. QED
    BY <1>2, <1>4, <1>5, <1>6, Untouched DEF IInv

-----------------------------------------------------------------------------
\* RunIfDue: if the slot is due it becomes the latest, otherwise nothing changes.
LEMMA RunFacts ==
    ASSUME TypeOK, NEW k \in Schedulers, RunIfDue(k)
    PROVE  /\ scheduler' \in [Schedulers -> SchedulerStates]
           /\ scheduler'[k].observed = clock.resets
           /\ UNCHANGED <<clock, timeline, aircraft, delivered>>
           /\ \A j \in Schedulers \ {k} : scheduler'[j] = scheduler[j] /\ Served(j)' = Served(j)
           /\ \/ /\ clock.state = "RUNNING" /\ Slot(clock) > Served(k)
                 /\ Served(k)' = Slot(clock)
                 /\ ran' = [ran EXCEPT ![k] = Append(@, Slot(clock))]
              \/ Served(k)' = Served(k) /\ ran' = ran
  <1>1. scheduler \in [Schedulers -> SchedulerStates] /\ clock \in Clocks
    BY DEF TypeOK
  <1>2. /\ scheduler' = [scheduler EXCEPT ![k] = RanIfDue(@, clock)]
        /\ ran' = IF RunIsDue(scheduler[k], clock)
                  THEN [ran EXCEPT ![k] = Append(@, Slot(clock))] ELSE ran
        /\ UNCHANGED <<clock, timeline, aircraft, delivered>>
    BY DEF RunIfDue
  <1>3. /\ RanIfDue(scheduler[k], clock) \in SchedulerStates
        /\ RanIfDue(scheduler[k], clock).observed = clock.resets
    BY <1>1, SchedulerTypes
  <1>4. /\ scheduler' \in [Schedulers -> SchedulerStates]
        /\ scheduler'[k] = RanIfDue(scheduler[k], clock)
        /\ \A j \in Schedulers \ {k} : scheduler'[j] = scheduler[j]
    BY <1>1, <1>2, <1>3
  <1>5. \A j \in Schedulers \ {k} : Served(j)' = Served(j)
    BY <1>2, <1>4 DEF Served
  <1>6. Served(k)' = RanIfDue(scheduler[k], clock).lastSlot
    BY <1>2, <1>3, <1>4, UpToDate DEF Served, SyncedScheduler
  <1>7. CASE RunIsDue(scheduler[k], clock)
    <2>1. Served(k)' = Slot(clock)
      BY <1>6, <1>7 DEF RanIfDue
    <2>2. clock.state = "RUNNING" /\ Slot(clock) > Served(k)
      BY <1>7 DEF RunIsDue, Served
    <2>. QED
      BY <1>2, <1>3, <1>4, <1>5, <1>7, <2>1, <2>2
  <1>8. CASE ~RunIsDue(scheduler[k], clock)
    <2>1. Served(k)' = Served(k)
      BY <1>6, <1>8 DEF RanIfDue, Served
    <2>. QED
      BY <1>2, <1>3, <1>4, <1>5, <1>8, <2>1
  <1>. QED
    BY <1>7, <1>8

\* Appending a slot later than all of an ascending sequence keeps it ascending.
LEMMA AppendedSlot ==
    ASSUME NEW s \in Seq(Nat), NEW n \in Nat,
           \A i \in DOMAIN s : s[i] < n,
           \A i, j \in DOMAIN s : i < j => s[i] < s[j]
    PROVE  /\ Append(s, n) \in Seq(Nat)
           /\ \A i \in DOMAIN Append(s, n) : Append(s, n)[i] <= n
           /\ \A i, j \in DOMAIN Append(s, n) : i < j => Append(s, n)[i] < Append(s, n)[j]
  <1>. DEFINE t == Append(s, n)
  <1>1. /\ t \in Seq(Nat) /\ Len(t) = Len(s) + 1 /\ Len(s) \in Nat
        /\ DOMAIN t = 1 .. Len(s) + 1 /\ DOMAIN s = 1 .. Len(s)
        /\ \A i \in 1 .. Len(s) : t[i] = s[i] /\ s[i] \in Nat
        /\ t[Len(s) + 1] = n
    OBVIOUS
  <1>. HIDE DEF t
  <1>2. \A i \in DOMAIN t : i \in DOMAIN s \/ i = Len(s) + 1
    BY <1>1
  <1>3. \A i \in DOMAIN t : t[i] <= n
    BY <1>1, <1>2
  <1>4. ASSUME NEW i \in DOMAIN t, NEW j \in DOMAIN t, i < j PROVE t[i] < t[j]
    <2>1. i \in DOMAIN s /\ t[i] = s[i]
      BY <1>1, <1>2, <1>4
    <2>2. CASE j \in DOMAIN s
      BY <1>1, <1>4, <2>1, <2>2
    <2>3. CASE j = Len(s) + 1
      BY <1>1, <2>1, <2>3
    <2>. QED
      BY <1>2, <2>2, <2>3
  <1>. QED
    BY <1>1, <1>3, <1>4 DEF t

\* A slot that runs is later than all that ran before it.
LEMMA RunIfDueIInv ==
    ASSUME IInv, NEW k \in Schedulers, RunIfDue(k)
    PROVE  IInv'
  <1>1. /\ TypeOK /\ ran \in [Schedulers -> Seq(Nat)] /\ Slot(clock) \in Nat
        /\ clock.resets \in Nat
        /\ \A j \in Schedulers : Served(j) \in Nat \cup {NoSlot}
    BY SlotType, ViewTypes DEF IInv, TypeOK, Clocks
  <1>2. /\ scheduler' \in [Schedulers -> SchedulerStates]
        /\ scheduler'[k].observed = clock.resets
        /\ UNCHANGED <<clock, timeline, aircraft, delivered>>
        /\ \A j \in Schedulers \ {k} : scheduler'[j] = scheduler[j] /\ Served(j)' = Served(j)
        /\ \/ /\ clock.state = "RUNNING" /\ Slot(clock) > Served(k)
              /\ Served(k)' = Slot(clock)
              /\ ran' = [ran EXCEPT ![k] = Append(@, Slot(clock))]
           \/ Served(k)' = Served(k) /\ ran' = ran
    BY <1>1, RunFacts
  <1>3. /\ ran[k] \in Seq(Nat)
        /\ \A i \in DOMAIN ran[k] : ran[k][i] <= Served(k)
        /\ \A i, j \in DOMAIN ran[k] : i < j => ran[k][i] < ran[k][j]
    BY <1>1 DEF IInv, ServedIsLatest, OneRunPerSlot
  <1>4. /\ ran' \in [Schedulers -> Seq(Nat)]
        /\ \A i \in DOMAIN ran'[k] : ran'[k][i] <= Served(k)'
        /\ \A i, j \in DOMAIN ran'[k] : i < j => ran'[k][i] < ran'[k][j]
        /\ \A j \in Schedulers \ {k} : ran'[j] = ran[j]
    <2>1. CASE /\ clock.state = "RUNNING" /\ Slot(clock) > Served(k)
               /\ Served(k)' = Slot(clock)
               /\ ran' = [ran EXCEPT ![k] = Append(@, Slot(clock))]
      <3>1. \A i \in DOMAIN ran[k] : ran[k][i] < Slot(clock)
        <4>. SUFFICES ASSUME NEW i \in DOMAIN ran[k] PROVE ran[k][i] < Slot(clock)
          OBVIOUS
        <4>1. ran[k][i] \in Nat /\ ran[k][i] <= Served(k) /\ Served(k) \in Int
          BY <1>1, <1>3 DEF NoSlot
        <4>. QED
          BY <1>1, <2>1, <4>1
      <3>2. /\ Append(ran[k], Slot(clock)) \in Seq(Nat)
            /\ \A i \in DOMAIN Append(ran[k], Slot(clock)) :
                  Append(ran[k], Slot(clock))[i] <= Slot(clock)
            /\ \A i, j \in DOMAIN Append(ran[k], Slot(clock)) :
                  i < j => Append(ran[k], Slot(clock))[i] < Append(ran[k], Slot(clock))[j]
        BY <1>1, <1>3, <3>1, AppendedSlot
      <3>3. /\ ran'[k] = Append(ran[k], Slot(clock))
            /\ \A j \in Schedulers \ {k} : ran'[j] = ran[j]
            /\ ran' \in [Schedulers -> Seq(Nat)]
        BY <1>1, <2>1, <3>2
      <3>. QED
        BY <2>1, <3>2, <3>3
    <2>2. CASE Served(k)' = Served(k) /\ ran' = ran
      BY <1>1, <1>3, <2>2
    <2>. QED
      BY <1>2, <2>1, <2>2
  <1>5. ServedIsLatest'
    <2>. SUFFICES ASSUME NEW j \in Schedulers, NEW i \in DOMAIN ran'[j]
                  PROVE  ran'[j][i] <= Served(j)'
      BY DEF ServedIsLatest
    <2>1. CASE j = k
      BY <1>4, <2>1
    <2>2. CASE j # k
      BY <1>2, <1>4, <2>2 DEF IInv, ServedIsLatest
    <2>. QED
      BY <2>1, <2>2
  <1>6. OneRunPerSlot'
    <2>. SUFFICES ASSUME NEW j \in Schedulers
                  PROVE  \A x, y \in DOMAIN ran'[j] : x < y => ran'[j][x] < ran'[j][y]
      BY DEF OneRunPerSlot
    <2>1. CASE j = k
      BY <1>4, <2>1
    <2>2. CASE j # k
      BY <1>4, <2>2 DEF IInv, OneRunPerSlot
    <2>. QED
      BY <2>1, <2>2
  <1>7. TypeOK'
    BY <1>1, <1>2, <1>4 DEF TypeOK
  <1>8. Lagging'
    <2>1. \A j \in Schedulers : scheduler'[j].observed <= clock.resets
      <3>1. scheduler'[k].observed <= clock.resets
        BY <1>1, <1>2
      <3>2. \A j \in Schedulers \ {k} : scheduler'[j].observed <= clock.resets
        BY <1>2 DEF IInv, Lagging
      <3>. QED
        BY <3>1, <3>2
    <2>. QED
      BY <1>2, <2>1 DEF IInv, Lagging
  <1>. QED
    BY <1>2, <1>5, <1>6, <1>7, <1>8, Untouched DEF IInv

\* Reading a scheduler changes no view.
LEMMA LastRunIInv ==
    ASSUME IInv, NEW k \in Schedulers, LastRun(k)
    PROVE  IInv' /\ \A j \in Schedulers : Served(j)' = Served(j)
  <1>1. /\ TypeOK /\ scheduler \in [Schedulers -> SchedulerStates] /\ clock \in Clocks
        /\ clock.resets \in Nat
    BY DEF IInv, TypeOK, Clocks
  <1>2. /\ scheduler' = [scheduler EXCEPT ![k] = SyncedScheduler(@, clock)]
        /\ UNCHANGED <<clock, timeline, aircraft, delivered, ran>>
    BY DEF LastRun
  <1>3. /\ SyncedScheduler(scheduler[k], clock) \in SchedulerStates
        /\ SyncedScheduler(scheduler[k], clock).observed = clock.resets
    BY <1>1, SchedulerTypes
  <1>4. /\ scheduler' \in [Schedulers -> SchedulerStates]
        /\ scheduler'[k] = SyncedScheduler(scheduler[k], clock)
        /\ \A j \in Schedulers \ {k} : scheduler'[j] = scheduler[j]
    BY <1>1, <1>2, <1>3
  <1>5. ASSUME NEW j \in Schedulers PROVE Served(j)' = Served(j)
    <2>1. CASE j = k
      BY <1>2, <1>3, <1>4, <2>1, UpToDate DEF Served, SyncedScheduler
    <2>2. CASE j # k
      BY <1>2, <1>4, <2>2 DEF Served
    <2>. QED
      BY <2>1, <2>2
  <1>6. TypeOK' /\ Lagging'
    BY <1>1, <1>2, <1>3, <1>4 DEF IInv, TypeOK, Lagging
  <1>7. ServedIsLatest' /\ OneRunPerSlot'
    BY <1>2, <1>5 DEF IInv, ServedIsLatest, OneRunPerSlot
  <1>. QED
    BY <1>2, <1>5, <1>6, <1>7, Untouched DEF IInv

-----------------------------------------------------------------------------
\* ApplyStateAnchor: the anchor is of now and clashes with none of its run.
LEMMA ApplyFacts ==
    ASSUME TypeOK, NEW a \in Aircraft, NEW t \in 0 .. MaxTick, NEW w \in Payloads,
           ApplyStateAnchor(a, t, w)
    PROVE  /\ aircraft' \in [Aircraft -> Runtimes]
           /\ aircraft'[a].observed = clock.resets
           /\ UNCHANGED <<clock, timeline, scheduler, delivered, ran>>
           /\ \A b \in Aircraft \ {a} : aircraft'[b] = aircraft[b] /\ Applied(b)' = Applied(b)
           /\ clock.state = "RUNNING" /\ t = clock.tick
           /\ t \notin {0} \cup Scheduled[a] \cup {x.at : x \in Applied(a)}
           /\ Applied(a)' = Applied(a) \cup {[at |-> t, what |-> w]}
  <1>1. /\ aircraft \in [Aircraft -> Runtimes] /\ clock \in Clocks
        /\ t \in Nat
    BY BoundsAssumption DEF TypeOK
  <1>2. /\ aircraft' = [aircraft EXCEPT ![a] = Anchored(@, clock, t, w)]
        /\ AnchorAccepted(a, aircraft[a], clock, t)
        /\ UNCHANGED <<clock, timeline, scheduler, delivered, ran>>
    BY DEF ApplyStateAnchor
  <1>3. /\ Anchored(aircraft[a], clock, t, w) \in Runtimes
        /\ Anchored(aircraft[a], clock, t, w).observed = clock.resets
        /\ Anchored(aircraft[a], clock, t, w).applied
             = SyncedRuntime(aircraft[a], clock).applied \cup {[at |-> t, what |-> w]}
    BY <1>1, RuntimeTypes
  <1>4. /\ aircraft' \in [Aircraft -> Runtimes]
        /\ aircraft'[a] = Anchored(aircraft[a], clock, t, w)
        /\ \A b \in Aircraft \ {a} : aircraft'[b] = aircraft[b]
    BY <1>1, <1>2, <1>3
  <1>5. \A b \in Aircraft \ {a} : Applied(b)' = Applied(b)
    BY <1>2, <1>4 DEF Applied
  <1>6. Applied(a)' = Applied(a) \cup {[at |-> t, what |-> w]}
    BY <1>2, <1>3, <1>4, UpToDate DEF Applied, SyncedRuntime
  <1>7. /\ clock.state = "RUNNING" /\ t = clock.tick
        /\ t \notin {0} \cup Scheduled[a] \cup {x.at : x \in Applied(a)}
    BY <1>2 DEF AnchorAccepted, AnchorTimes, Applied
  <1>. QED
    BY <1>2, <1>3, <1>4, <1>5, <1>6, <1>7

\* What AnchorsUnambiguous asks of the anchors of one aircraft.
Unambiguous(a, applied) ==
    \A x \in applied :
        /\ x.at <= clock.tick
        /\ x.at \notin {0} \cup Scheduled[a]
        /\ \A y \in applied : y.at = x.at => y = x

\* The invariant on anchors, aircraft by aircraft.
LEMMA UnambiguousParts ==
    AnchorsUnambiguous <=> \A a \in Aircraft : Unambiguous(a, Applied(a))
  BY DEF AnchorsUnambiguous, Unambiguous, Applied

\* The same, after a step.
LEMMA UnambiguousPartsNext ==
    AnchorsUnambiguous' <=> \A a \in Aircraft : Unambiguous(a, Applied(a))'
  BY DEF AnchorsUnambiguous, Unambiguous, Applied

\* An accepted anchor is of now and at a tick no other anchor has.
LEMMA ApplyIInv ==
    ASSUME IInv, NEW a \in Aircraft, NEW t \in 0 .. MaxTick, NEW w \in Payloads,
           ApplyStateAnchor(a, t, w)
    PROVE  IInv'
  <1>1. /\ TypeOK /\ clock.resets \in Nat /\ clock.tick \in Nat
        /\ Applied(a) \in SUBSET Anchors
    BY ViewTypes DEF IInv, TypeOK, Clocks
  <1>2. /\ aircraft' \in [Aircraft -> Runtimes]
        /\ aircraft'[a].observed = clock.resets
        /\ UNCHANGED <<clock, timeline, scheduler, delivered, ran>>
        /\ \A b \in Aircraft \ {a} : aircraft'[b] = aircraft[b] /\ Applied(b)' = Applied(b)
        /\ t = clock.tick
        /\ t \notin {0} \cup Scheduled[a] \cup {x.at : x \in Applied(a)}
        /\ Applied(a)' = Applied(a) \cup {[at |-> t, what |-> w]}
    BY <1>1, ApplyFacts
  <1>3. AnchorsUnambiguous'
    <2>1. \A b \in Aircraft : Unambiguous(b, Applied(b))
      BY UnambiguousParts DEF IInv
    <2>2. ASSUME NEW b \in Aircraft \ {a} PROVE Unambiguous(b, Applied(b))'
      BY <1>2, <2>1 DEF Unambiguous
    <2>3. Unambiguous(a, Applied(a))'
      <3>. DEFINE old == Applied(a)
                  new == Applied(a)'
                  z == [at |-> t, what |-> w]
      <3>1. /\ \A x \in old : /\ x.at <= clock.tick
                              /\ x.at \notin {0} \cup Scheduled[a]
                              /\ \A y \in old : y.at = x.at => y = x
        BY <2>1 DEF Unambiguous
      <3>2. \A x \in old : x.at # t
        BY <1>2
      <3>3. /\ z.at = t /\ t <= clock.tick /\ t \notin {0} \cup Scheduled[a]
            /\ new = old \cup {z}
        BY <1>1, <1>2
      <3>4. \A x \in new : /\ x.at <= clock.tick
                           /\ x.at \notin {0} \cup Scheduled[a]
                           /\ \A y \in new : y.at = x.at => y = x
        <4>. HIDE DEF old, new, z
        <4>. QED
          BY <3>1, <3>2, <3>3
      <3>. QED
        BY <1>2, <3>4 DEF Unambiguous
    <2>. QED
      BY <2>2, <2>3, UnambiguousPartsNext
  <1>4. TypeOK'
    BY <1>1, <1>2 DEF TypeOK
  <1>5. Lagging'
    <2>1. \A b \in Aircraft : aircraft'[b].observed <= clock.resets
      <3>1. aircraft'[a].observed <= clock.resets
        BY <1>1, <1>2
      <3>2. \A b \in Aircraft \ {a} : aircraft'[b].observed <= clock.resets
        BY <1>2 DEF IInv, Lagging
      <3>. QED
        BY <3>1, <3>2
    <2>. QED
      BY <1>2, <2>1 DEF IInv, Lagging
  <1>. QED
    BY <1>2, <1>3, <1>4, <1>5, Untouched DEF IInv

\* Reading an aircraft changes no view.
LEMMA CurrentStateIInv ==
    ASSUME IInv, NEW a \in Aircraft, CurrentState(a)
    PROVE  IInv' /\ \A b \in Aircraft : Applied(b)' = Applied(b)
  <1>1. /\ TypeOK /\ aircraft \in [Aircraft -> Runtimes] /\ clock \in Clocks
        /\ clock.resets \in Nat
    BY DEF IInv, TypeOK, Clocks
  <1>2. /\ aircraft' = [aircraft EXCEPT ![a] = SyncedRuntime(@, clock)]
        /\ UNCHANGED <<clock, timeline, scheduler, delivered, ran>>
    BY DEF CurrentState
  <1>3. /\ SyncedRuntime(aircraft[a], clock) \in Runtimes
        /\ SyncedRuntime(aircraft[a], clock).observed = clock.resets
    BY <1>1, SyncedRuntimeType
  <1>4. /\ aircraft' \in [Aircraft -> Runtimes]
        /\ aircraft'[a] = SyncedRuntime(aircraft[a], clock)
        /\ \A b \in Aircraft \ {a} : aircraft'[b] = aircraft[b]
    BY <1>1, <1>2, <1>3
  <1>5. ASSUME NEW b \in Aircraft PROVE Applied(b)' = Applied(b)
    <2>1. CASE b = a
      BY <1>2, <1>3, <1>4, <2>1, UpToDate DEF Applied, SyncedRuntime
    <2>2. CASE b # a
      BY <1>2, <1>4, <2>2 DEF Applied
    <2>. QED
      BY <2>1, <2>2
  <1>6. TypeOK'
    BY <1>1, <1>2, <1>4 DEF TypeOK
  <1>7. Lagging'
    BY <1>1, <1>2, <1>3, <1>4 DEF IInv, Lagging
  <1>8. AnchorsUnambiguous'
    <2>1. \A b \in Aircraft : Unambiguous(b, Applied(b))
      BY UnambiguousParts DEF IInv
    <2>2. \A b \in Aircraft : Unambiguous(b, Applied(b))'
      BY <1>2, <1>5, <2>1 DEF Unambiguous
    <2>. QED
      BY <2>2, UnambiguousPartsNext
  <1>. QED
    BY <1>2, <1>5, <1>6, <1>7, <1>8, Untouched DEF IInv

-----------------------------------------------------------------------------
\* The invariant is inductive: every call keeps it.
THEOREM RuntimeInvariant == Spec => []IInv
  <1>1. Init => IInv
    <2>. SUFFICES ASSUME Init PROVE IInv
      OBVIOUS
    <2>1. /\ InitialClock \in Clocks /\ InitialTimeline \in Timelines
          /\ InitialScheduler \in SchedulerStates /\ InitialRuntime \in Runtimes
      BY EventsType, InitialRuntimeType
         DEF InitialClock, Clocks, ClockStates, InitialTimeline, Timelines,
             InitialScheduler, SchedulerStates
    <2>2. << >> \in Seq(DOMAIN Events) /\ << >> \in Seq(Nat)
      BY EmptySeq
    <2>3. TypeOK
      BY <2>1, <2>2 DEF Init, TypeOK
    <2>4. Lagging
      BY DEF Init, Lagging, InitialClock, InitialTimeline, InitialScheduler, InitialRuntime
    <2>5. Position = 0 /\ \A a \in Aircraft : Applied(a) = {}
      BY DEF Init, Position, Applied, SyncedTimeline, SyncedRuntime, InitialClock,
             InitialTimeline, InitialRuntime
    <2>6. DeliveredIsPosition
      BY <2>5 DEF Init, DeliveredIsPosition
    <2>7. ServedIsLatest /\ OneRunPerSlot
      BY DEF Init, ServedIsLatest, OneRunPerSlot
    <2>8. AnchorsUnambiguous
      BY <2>5 DEF AnchorsUnambiguous, Applied
    <2>. QED
      BY <2>3, <2>4, <2>6, <2>7, <2>8 DEF IInv
  <1>2. IInv /\ [Next]_vars => IInv'
    <2>. SUFFICES ASSUME IInv, [Next]_vars PROVE IInv'
      OBVIOUS
    <2>1. clock \in Clocks /\ clock.tick \in Nat
      BY DEF IInv, TypeOK, Clocks
    <2>2. CASE Play \/ Pause
      <3>1. /\ clock' \in Clocks /\ clock'.resets = clock.resets
            /\ clock'.tick = clock.tick
        BY <2>1, <2>2 DEF Play, Pause, Played, Paused, Clocks, ClockStates
      <3>2. UNCHANGED <<timeline, scheduler, aircraft, delivered, ran>>
        BY <2>2 DEF Play, Pause
      <3>. QED
        BY <2>1, <3>1, <3>2, ClockMoves
    <2>3. ASSUME NEW n \in StepSizes, Tick(n) PROVE IInv'
      <3>1. n \in Nat
        BY StepSizesAssumption
      <3>2. /\ clock' \in Clocks /\ clock'.resets = clock.resets
            /\ clock.tick <= clock'.tick
        BY <2>1, <2>3, <3>1 DEF Tick, Ticked, Clocks
      <3>3. UNCHANGED <<timeline, scheduler, aircraft, delivered, ran>>
        BY <2>3 DEF Tick
      <3>. QED
        BY <3>2, <3>3, ClockMoves
    <2>4. CASE Reset
      BY <2>4, ResetIInv
    <2>5. CASE Poll \/ PendingEvents
      BY <2>5, PollIInv, PendingEventsIInv
    <2>6. ASSUME NEW k \in Schedulers, RunIfDue(k) \/ LastRun(k) PROVE IInv'
      BY <2>6, RunIfDueIInv, LastRunIInv
    <2>7. ASSUME NEW a \in Aircraft, CurrentState(a) PROVE IInv'
      BY <2>7, CurrentStateIInv
    <2>8. ASSUME NEW a \in Aircraft, NEW t \in 0 .. MaxTick, NEW w \in Payloads,
                 ApplyStateAnchor(a, t, w)
          PROVE  IInv'
      BY <2>8, ApplyIInv
    <2>9. CASE UNCHANGED vars
      <3>1. /\ UNCHANGED <<timeline, scheduler, aircraft, delivered, ran>>
            /\ clock' = clock
        BY <2>9 DEF vars
      <3>. QED
        BY <2>1, <3>1, ClockMoves
    <2>. QED
      BY <2>2, <2>3, <2>4, <2>5, <2>6, <2>7, <2>8, <2>9 DEF Next
  <1>. QED
    BY <1>1, <1>2, PTL DEF Spec

\* The clock, the parts and the histories are always well-typed.
THEOREM RuntimeTypeOK == Spec => []TypeOK
  BY RuntimeInvariant, PTL DEF IInv

\* The events of a run are handed out in order, none twice, none too early.
THEOREM RuntimeEventsOnce == Spec => []EventsOncePerRunInOrder
  <1>1. IInv => EventsOncePerRunInOrder
    <2>. SUFFICES ASSUME IInv PROVE EventsOncePerRunInOrder
      OBVIOUS
    <2>1. Position \in 0 .. Len(Events)
      BY ViewTypes DEF IInv
    <2>2. /\ delivered = [i \in 1 .. Position |-> i]
          /\ \A i \in 1 .. Position : Events[i] <= clock.tick
      BY DEF IInv, DeliveredIsPosition
    <2>3. Len(delivered) = Position
      BY <2>1, <2>2, CountingUp
    <2>. HIDE DEF Position
    <2>. QED
      BY <2>2, <2>3 DEF EventsOncePerRunInOrder
  <1>. QED
    BY <1>1, RuntimeInvariant, PTL

\* A scheduler runs a slot at most once in a run and never an earlier one.
THEOREM RuntimeOneRunPerSlot == Spec => []OneRunPerSlot
  BY RuntimeInvariant, PTL DEF IInv

\* The anchors applied to an aircraft never clash and are never of the future.
THEOREM RuntimeAnchorsUnambiguous == Spec => []AnchorsUnambiguous
  BY RuntimeInvariant, PTL DEF IInv

\* A poll of a running clock leaves no due event behind.
THEOREM RuntimePollCatchesUp == Spec => PollCatchesUp
  <1>. DEFINE CaughtUp == Poll /\ clock.state = "RUNNING" =>
                \A e \in DOMAIN Events :
                    Events[e] <= clock.tick => \E i \in DOMAIN delivered' : delivered'[i] = e
  <1>1. ASSUME IInv, IInv' PROVE CaughtUp
    <2>. SUFFICES ASSUME Poll, clock.state = "RUNNING",
                         NEW e \in DOMAIN Events, Events[e] <= clock.tick
                  PROVE  \E i \in DOMAIN delivered' : delivered'[i] = e
      OBVIOUS
    <2>1. /\ TypeOK /\ clock.tick \in Nat /\ Position \in 0 .. Len(Events)
          /\ e \in 1 .. Len(Events) /\ Len(Events) \in Nat
      BY <1>1, ViewTypes, EventsType, EventsAssumption DEF IInv, TypeOK, Clocks
    <2>2. /\ Position' = DueThrough(Position, clock.tick)
          /\ Position' \in Position .. Len(Events)
      BY <2>1, PollFacts
    <2>3. Position' < Len(Events) => Events[Position' + 1] > clock.tick
      BY <2>1, <2>2, DueThroughFacts
    <2>4. delivered' = [i \in 1 .. Position' |-> i]
      BY <1>1 DEF IInv, DeliveredIsPosition
    <2>. DEFINE q == Position'
    <2>5. /\ q \in 0 .. Len(Events) /\ q \in Nat
          /\ q < Len(Events) => Events[q + 1] > clock.tick
      BY <2>1, <2>2, <2>3
    <2>6. e <= q
      <3>. HIDE DEF q
      <3>. SUFFICES ASSUME q < e PROVE FALSE
        BY <2>1, <2>5
      <3>1. q + 1 \in 1 .. Len(Events) /\ q < Len(Events) /\ q + 1 <= e
        BY <2>1, <2>5
      <3>2. Events[q + 1] <= Events[e]
        BY <2>1, <3>1, EventsOrdered, EventsType, EventsAssumption
      <3>. QED
        BY <2>1, <2>5, <3>1, <3>2, EventsType
    <2>7. e \in 1 .. q
      BY <2>1, <2>5, <2>6
    <2>. QED
      BY <2>4, <2>7
  <1>. HIDE DEF CaughtUp
  <1>2. IInv /\ IInv' => [CaughtUp]_vars
    BY <1>1
  <1>3. Spec => [][CaughtUp]_vars
    BY RuntimeInvariant, <1>2, PTL
  <1>. QED
    BY <1>3 DEF CaughtUp, PollCatchesUp

-----------------------------------------------------------------------------
(* The refinement.  Each variable of EagerSimulation is a view, so that a  *)
(* call the abstract specification does not know leaves all views alone.   *)

\* Both specifications compute with the same functions.
LEMMA SameFunctions ==
    ASSUME NEW c, NEW n, NEW i
    PROVE  /\ Eager!InitialClock = InitialClock
           /\ Eager!Played(c) = Played(c) /\ Eager!Paused(c) = Paused(c)
           /\ Eager!Ticked(c, n) = Ticked(c, n) /\ Eager!Restarted(c) = Restarted(c)
           /\ Eager!Slot(c) = Slot(c) /\ Eager!NoSlot = NoSlot
           /\ Eager!DueThrough(i, n) = DueThrough(i, n)
  BY DEF Eager!InitialClock, InitialClock, Eager!Played, Played, Eager!Paused, Paused,
         Eager!Ticked, Ticked, Eager!Restarted, Restarted, Eager!Slot, Slot,
         Eager!NoSlot, NoSlot, Eager!DueThrough, DueThrough

\* A step that keeps clock, histories and views is a stutter.
LEMMA EagerStutter ==
    ASSUME UNCHANGED <<clock, delivered, ran>>, Position' = Position,
           \A k \in Schedulers : Served(k)' = Served(k),
           \A a \in Aircraft : Applied(a)' = Applied(a)
    PROVE  UNCHANGED Eager!vars
  <1>1. SyncedTimeline(timeline, clock).next' = SyncedTimeline(timeline, clock).next
    BY DEF Position
  <1>2. [k \in Schedulers |-> SyncedScheduler(scheduler[k], clock).lastSlot]'
          = [k \in Schedulers |-> SyncedScheduler(scheduler[k], clock).lastSlot]
    BY DEF Served
  <1>3. [a \in Aircraft |-> SyncedRuntime(aircraft[a], clock).applied]'
          = [a \in Aircraft |-> SyncedRuntime(aircraft[a], clock).applied]
    BY DEF Applied
  <1>. QED
    BY <1>1, <1>2, <1>3 DEF Eager!vars

\* Play, Pause and Tick are those of the abstract clock.
LEMMA EagerClock ==
    ASSUME TypeOK, clock' \in Clocks, clock'.resets = clock.resets,
           UNCHANGED <<timeline, scheduler, aircraft, delivered, ran>>
    PROVE  /\ Play => Eager!Play
           /\ Pause => Eager!Pause
           /\ \A n \in StepSizes : Tick(n) => Eager!Tick(n)
  <1>1. /\ Position' = Position
        /\ \A k \in Schedulers : Served(k)' = Served(k)
        /\ \A a \in Aircraft : Applied(a)' = Applied(a)
    BY ViewsStay
  <1>2. UNCHANGED <<delivered, ran>>
    OBVIOUS
  <1>3. SyncedTimeline(timeline, clock).next' = SyncedTimeline(timeline, clock).next
    BY <1>1 DEF Position
  <1>4. [k \in Schedulers |-> SyncedScheduler(scheduler[k], clock).lastSlot]'
          = [k \in Schedulers |-> SyncedScheduler(scheduler[k], clock).lastSlot]
    BY <1>1 DEF Served
  <1>5. [a \in Aircraft |-> SyncedRuntime(aircraft[a], clock).applied]'
          = [a \in Aircraft |-> SyncedRuntime(aircraft[a], clock).applied]
    BY <1>1 DEF Applied
  <1>. QED
    BY <1>2, <1>3, <1>4, <1>5, SameFunctions
       DEF Play, Eager!Play, Pause, Eager!Pause, Tick, Eager!Tick

\* A reset that only the clock knows is a reset of everything.
LEMMA EagerReset ==
    ASSUME TypeOK, Lagging, Reset
    PROVE  Eager!Reset
  <1>1. /\ Position' = 0
        /\ \A k \in Schedulers : Served(k)' = NoSlot
        /\ \A a \in Aircraft : Applied(a)' = {}
    BY ResetViews
  <1>2. /\ clock.resets < MaxResets /\ clock' = Restarted(clock)
        /\ delivered' = << >> /\ ran' = [k \in Schedulers |-> << >>]
    BY DEF Reset
  <1>3. SyncedTimeline(timeline, clock).next' = 0
    BY <1>1 DEF Position
  <1>4. [k \in Schedulers |-> SyncedScheduler(scheduler[k], clock).lastSlot]'
          = [k \in Schedulers |-> NoSlot]
    BY <1>1 DEF Served
  <1>5. [a \in Aircraft |-> SyncedRuntime(aircraft[a], clock).applied]'
          = [a \in Aircraft |-> {}]
    BY <1>1 DEF Applied
  <1>. QED
    BY <1>2, <1>3, <1>4, <1>5, SameFunctions DEF Eager!Reset

\* A poll of a running clock is the abstract poll, any other one a stutter.
LEMMA EagerPoll ==
    ASSUME IInv, Poll
    PROVE  Eager!Poll \/ UNCHANGED Eager!vars
  <1>1. TypeOK /\ Position \in 0 .. Len(Events)
    BY ViewTypes DEF IInv
  <1>2. /\ Position' \in Position .. Len(Events)
        /\ delivered' = delivered \o [i \in 1 .. (Position' - Position) |-> Position + i]
        /\ clock.state = "RUNNING" => Position' = DueThrough(Position, clock.tick)
        /\ clock.state # "RUNNING" => Position' = Position
    BY <1>1, PollFacts
  <1>3. UNCHANGED <<clock, scheduler, aircraft, ran>>
    BY DEF Poll
  <1>4. /\ \A k \in Schedulers : Served(k)' = Served(k)
        /\ \A a \in Aircraft : Applied(a)' = Applied(a)
    BY <1>3, OtherViews
  <1>5. CASE clock.state = "RUNNING"
    <2>1. SyncedTimeline(timeline, clock).next'
            = Eager!DueThrough(SyncedTimeline(timeline, clock).next, clock.tick)
      BY <1>2, <1>5, SameFunctions DEF Position
    <2>2. delivered' = delivered
            \o [i \in 1 .. (SyncedTimeline(timeline, clock).next'
                              - SyncedTimeline(timeline, clock).next)
                  |-> SyncedTimeline(timeline, clock).next + i]
      BY <1>2 DEF Position
    <2>3. [k \in Schedulers |-> SyncedScheduler(scheduler[k], clock).lastSlot]'
            = [k \in Schedulers |-> SyncedScheduler(scheduler[k], clock).lastSlot]
      BY <1>4 DEF Served
    <2>4. [a \in Aircraft |-> SyncedRuntime(aircraft[a], clock).applied]'
            = [a \in Aircraft |-> SyncedRuntime(aircraft[a], clock).applied]
      BY <1>4 DEF Applied
    <2>. QED
      BY <1>3, <1>5, <2>1, <2>2, <2>3, <2>4 DEF Eager!Poll
  <1>6. CASE clock.state # "RUNNING"
    <2>1. Position' = Position /\ delivered = [i \in 1 .. Position |-> i]
      BY <1>2, <1>6 DEF IInv, DeliveredIsPosition
    <2>2. IInv'
      BY PollIInv
    <2>3. delivered' = [i \in 1 .. Position' |-> i]
      BY <2>2 DEF IInv, DeliveredIsPosition
    <2>4. delivered' = delivered
      BY <2>1, <2>3
    <2>. QED
      BY <1>3, <1>4, <2>1, <2>4, EagerStutter
  <1>. QED
    BY <1>5, <1>6

\* A scheduler call runs a slot or shows nothing.
LEMMA EagerRun ==
    ASSUME IInv, NEW k \in Schedulers, RunIfDue(k)
    PROVE  Eager!RunSlot(k) \/ UNCHANGED Eager!vars
  <1>. DEFINE all == [j \in Schedulers |-> SyncedScheduler(scheduler[j], clock).lastSlot]
  <1>1. TypeOK
    BY DEF IInv
  <1>2. /\ UNCHANGED <<clock, timeline, aircraft, delivered>>
        /\ \A j \in Schedulers \ {k} : Served(j)' = Served(j)
        /\ \/ /\ clock.state = "RUNNING" /\ Slot(clock) > Served(k)
              /\ Served(k)' = Slot(clock)
              /\ ran' = [ran EXCEPT ![k] = Append(@, Slot(clock))]
           \/ Served(k)' = Served(k) /\ ran' = ran
    BY <1>1, RunFacts
  <1>3. Position' = Position /\ \A a \in Aircraft : Applied(a)' = Applied(a)
    BY <1>2, OtherViews
  <1>4. CASE /\ clock.state = "RUNNING" /\ Slot(clock) > Served(k)
             /\ Served(k)' = Slot(clock)
             /\ ran' = [ran EXCEPT ![k] = Append(@, Slot(clock))]
    <2>1. \A j \in Schedulers : all[j] = Served(j) /\ all'[j] = Served(j)'
      BY DEF Served
    <2>2. all' = [all EXCEPT ![k] = Slot(clock)]
      <3>1. \A j \in Schedulers : all'[j] = [all EXCEPT ![k] = Slot(clock)][j]
        BY <1>2, <1>4, <2>1
      <3>. QED
        BY <3>1
    <2>3. Slot(clock) > all[k]
      BY <1>4, <2>1
    <2>4. SyncedTimeline(timeline, clock).next' = SyncedTimeline(timeline, clock).next
      BY <1>3 DEF Position
    <2>5. [a \in Aircraft |-> SyncedRuntime(aircraft[a], clock).applied]'
            = [a \in Aircraft |-> SyncedRuntime(aircraft[a], clock).applied]
      BY <1>3 DEF Applied
    <2>. QED
      BY <1>2, <1>4, <2>2, <2>3, <2>4, <2>5, SameFunctions DEF Eager!RunSlot
  <1>5. CASE Served(k)' = Served(k) /\ ran' = ran
    <2>1. \A j \in Schedulers : Served(j)' = Served(j)
      BY <1>2, <1>5
    <2>. QED
      BY <1>2, <1>3, <1>5, <2>1, EagerStutter
  <1>. QED
    BY <1>2, <1>4, <1>5

\* An accepted anchor is one the abstract specification accepts.
LEMMA EagerApply ==
    ASSUME TypeOK, NEW a \in Aircraft, NEW t \in 0 .. MaxTick, NEW w \in Payloads,
           ApplyStateAnchor(a, t, w)
    PROVE  Eager!Apply(a, w)
  <1>. DEFINE all == [b \in Aircraft |-> SyncedRuntime(aircraft[b], clock).applied]
  <1>1. /\ UNCHANGED <<clock, timeline, scheduler, delivered, ran>>
        /\ \A b \in Aircraft \ {a} : Applied(b)' = Applied(b)
        /\ clock.state = "RUNNING" /\ t = clock.tick
        /\ t \notin {0} \cup Scheduled[a] \cup {x.at : x \in Applied(a)}
        /\ Applied(a)' = Applied(a) \cup {[at |-> t, what |-> w]}
    BY ApplyFacts
  <1>2. \A b \in Aircraft : all[b] = Applied(b) /\ all'[b] = Applied(b)'
    BY DEF Applied
  <1>3. all' = [all EXCEPT ![a] = @ \cup {[at |-> clock.tick, what |-> w]}]
    <2>1. \A b \in Aircraft :
            all'[b] = [all EXCEPT ![a] = @ \cup {[at |-> clock.tick, what |-> w]}][b]
      BY <1>1, <1>2
    <2>. QED
      BY <2>1
  <1>4. clock.tick \notin {0} \cup Scheduled[a] \cup {x.at : x \in all[a]}
    BY <1>1, <1>2
  <1>5. Position' = Position /\ \A k \in Schedulers : Served(k)' = Served(k)
    BY <1>1, OtherViews
  <1>6. SyncedTimeline(timeline, clock).next' = SyncedTimeline(timeline, clock).next
    BY <1>5 DEF Position
  <1>7. [k \in Schedulers |-> SyncedScheduler(scheduler[k], clock).lastSlot]'
          = [k \in Schedulers |-> SyncedScheduler(scheduler[k], clock).lastSlot]
    BY <1>5 DEF Served
  <1>. QED
    BY <1>1, <1>3, <1>4, <1>6, <1>7 DEF Eager!Apply

\* Noticing a reset late cannot be told from a reset that reaches all at once.
THEOREM RuntimeResetIsImmediate == Spec => ResetIsImmediate
  <1>1. Init => Eager!Init
    <2>. SUFFICES ASSUME Init PROVE Eager!Init
      OBVIOUS
    <2>1. /\ SyncedTimeline(timeline, clock).next = 0
          /\ \A k \in Schedulers : SyncedScheduler(scheduler[k], clock).lastSlot = NoSlot
          /\ \A a \in Aircraft : SyncedRuntime(aircraft[a], clock).applied = {}
      BY DEF Init, SyncedTimeline, SyncedScheduler, SyncedRuntime, InitialClock,
             InitialTimeline, InitialScheduler, InitialRuntime
    <2>. QED
      BY <2>1, SameFunctions DEF Init, Eager!Init
  <1>2. IInv /\ [Next]_vars => [Eager!Next]_(Eager!vars)
    <2>. SUFFICES ASSUME IInv, [Next]_vars PROVE Eager!Next \/ UNCHANGED Eager!vars
      OBVIOUS
    <2>1. TypeOK /\ Lagging /\ clock \in Clocks
      BY DEF IInv, TypeOK
    <2>2. CASE Play \/ Pause
      <3>1. clock' \in Clocks /\ clock'.resets = clock.resets
        BY <2>1, <2>2 DEF Play, Pause, Played, Paused, Clocks, ClockStates
      <3>2. UNCHANGED <<timeline, scheduler, aircraft, delivered, ran>>
        BY <2>2 DEF Play, Pause
      <3>. QED
        BY <2>1, <2>2, <3>1, <3>2, EagerClock DEF Eager!Next
    <2>3. ASSUME NEW n \in StepSizes, Tick(n) PROVE Eager!Next
      <3>1. n \in Nat
        BY StepSizesAssumption
      <3>2. clock' \in Clocks /\ clock'.resets = clock.resets
        BY <2>1, <2>3, <3>1 DEF Tick, Ticked, Clocks
      <3>3. UNCHANGED <<timeline, scheduler, aircraft, delivered, ran>>
        BY <2>3 DEF Tick
      <3>. QED
        BY <2>1, <2>3, <3>2, <3>3, EagerClock DEF Eager!Next
    <2>4. CASE Reset
      BY <2>1, <2>4, EagerReset DEF Eager!Next
    <2>5. CASE Poll
      BY <2>5, EagerPoll DEF Eager!Next
    <2>6. CASE PendingEvents
      <3>1. UNCHANGED <<clock, scheduler, aircraft, delivered, ran>>
        BY <2>6 DEF PendingEvents
      <3>. QED
        BY <2>6, <3>1, PendingEventsIInv, OtherViews, EagerStutter
    <2>7. ASSUME NEW k \in Schedulers, RunIfDue(k)
          PROVE  Eager!Next \/ UNCHANGED Eager!vars
      BY <2>7, EagerRun DEF Eager!Next
    <2>8. ASSUME NEW k \in Schedulers, LastRun(k) PROVE UNCHANGED Eager!vars
      <3>1. UNCHANGED <<clock, timeline, aircraft, delivered, ran>>
        BY <2>8 DEF LastRun
      <3>. QED
        BY <2>8, <3>1, LastRunIInv, OtherViews, EagerStutter
    <2>9. ASSUME NEW a \in Aircraft, CurrentState(a) PROVE UNCHANGED Eager!vars
      <3>1. UNCHANGED <<clock, timeline, scheduler, delivered, ran>>
        BY <2>9 DEF CurrentState
      <3>. QED
        BY <2>9, <3>1, CurrentStateIInv, OtherViews, EagerStutter
    <2>10. ASSUME NEW a \in Aircraft, NEW t \in 0 .. MaxTick, NEW w \in Payloads,
                  ApplyStateAnchor(a, t, w)
           PROVE  Eager!Next
      BY <2>1, <2>10, EagerApply DEF Eager!Next
    <2>11. CASE UNCHANGED vars
      <3>1. UNCHANGED <<clock, timeline, scheduler, aircraft, delivered, ran>>
        BY <2>11 DEF vars
      <3>. QED
        BY <3>1, OtherViews, EagerStutter
    <2>. QED
      BY <2>2, <2>3, <2>4, <2>5, <2>6, <2>7, <2>8, <2>9, <2>10, <2>11 DEF Next
  <1>. QED
    BY <1>1, <1>2, RuntimeInvariant, PTL DEF Spec, ResetIsImmediate, Eager!Spec
=============================================================================
