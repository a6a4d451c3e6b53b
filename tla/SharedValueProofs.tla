-------------------------- MODULE SharedValueProofs --------------------------
(***************************************************************************)
(* What the operators of the values that components share return: those of *)
(* SimulationParts for any scenario, those of ExceptionItems for any       *)
(* subjects and assessments, those of DecisionAudit for any sets,          *)
(* recommendations and maneuvers.                                          *)
(***************************************************************************)
EXTENDS SimulationParts, ExceptionItems, DecisionAudit, FiniteSetTheorems, TLAPS,
        WellFoundedInduction

(* The clock and the parts it drives. *)

\* A non-empty set of naturals has a least element.
LEMMA LeastNatural ==
    ASSUME NEW T \in SUBSET Nat, T # {}
    PROVE  \E x \in T : \A y \in T : x <= y
  <1>1. PICK x \in T : \A y \in T : <<y, x>> \notin OpToRel(<, Nat)
    BY WFMin, NatLessThanWellFounded
  <1>2. \A y \in T : ~(y < x)
    BY <1>1 DEF OpToRel
  <1>. QED
    BY <1>2

\* The scenario has finitely many events, each due at a tick.
LEMMA EventsType == Len(Events) \in Nat /\ \A k \in 1 .. Len(Events) : Events[k] \in Nat
  BY EventsAssumption

\* The scan for due events stops at a position that exists: all it passes over
\* is due and what comes next is not.
LEMMA DueThroughFacts ==
    ASSUME NEW i \in 0 .. Len(Events), NEW now \in Nat
    PROVE  /\ DueThrough(i, now) \in i .. Len(Events)
           /\ \A k \in (i + 1) .. DueThrough(i, now) : Events[k] <= now
           /\ DueThrough(i, now) < Len(Events) => Events[DueThrough(i, now) + 1] > now
  <1>. DEFINE Stops(j) == /\ \A k \in (i + 1) .. j : Events[k] <= now
                          /\ j < Len(Events) => Events[j + 1] > now
              T == {j \in i .. Len(Events) : j = Len(Events) \/ Events[j + 1] > now}
  <1>1. Len(Events) \in T /\ T \in SUBSET Nat
    BY EventsType
  <1>2. PICK j \in T : \A y \in T : j <= y
    BY <1>1, LeastNatural
  <1>3. j \in i .. Len(Events) /\ j \in Nat
    BY <1>1, <1>2
  <1>4. ASSUME NEW k \in (i + 1) .. j PROVE Events[k] <= now
    <2>1. k - 1 \in i .. Len(Events) /\ k - 1 < j /\ k \in 1 .. Len(Events) /\ (k - 1) + 1 = k
      BY <1>3, EventsType
    <2>2. k - 1 \notin T
      <3>. SUFFICES ASSUME k - 1 \in T PROVE FALSE
        OBVIOUS
      <3>. HIDE DEF T
      <3>1. j <= k - 1
        BY <1>2
      <3>. QED
        BY <1>3, <2>1, <3>1
    <2>3. ~(Events[k] > now)
      BY <2>1, <2>2
    <2>. QED
      BY <2>1, <2>3, EventsType
  <1>5. j < Len(Events) => Events[j + 1] > now
    BY <1>2, <1>3, EventsType
  <1>6. \E x \in i .. Len(Events) : Stops(x)
    BY <1>3, <1>4, <1>5
  <1>. HIDE DEF Stops
  <1>7. DueThrough(i, now) = CHOOSE x \in i .. Len(Events) : Stops(x)
    BY DEF DueThrough, Stops
  <1>8. DueThrough(i, now) \in i .. Len(Events) /\ Stops(DueThrough(i, now))
    BY <1>6, <1>7
  <1>. QED
    BY <1>8 DEF Stops

\* Every method of the clock returns a clock.
LEMMA ClockTypes ==
    ASSUME NEW c \in Clocks, NEW n \in Nat
    PROVE  /\ InitialClock \in Clocks /\ Played(c) \in Clocks /\ Paused(c) \in Clocks
           /\ Restarted(c) \in Clocks /\ Ticked(c, n) \in Clocks
  BY DEF Clocks, ClockStates, InitialClock, Played, Paused, Restarted, Ticked

\* Accessing or polling a timeline leaves one of the current run whose position
\* has not gone back within that run.
LEMMA TimelineTypes ==
    ASSUME NEW l \in Timelines, NEW c \in Clocks
    PROVE  /\ InitialTimeline \in Timelines
           /\ SyncedTimeline(l, c) \in Timelines
           /\ SyncedTimeline(l, c).observed = c.resets
           /\ Polled(l, c) \in Timelines
           /\ Polled(l, c).observed = c.resets
           /\ Polled(l, c).next \in SyncedTimeline(l, c).next .. Len(Events)
  <1>1. InitialTimeline \in Timelines
    BY EventsType DEF InitialTimeline, Timelines
  <1>2. SyncedTimeline(l, c) \in Timelines /\ SyncedTimeline(l, c).observed = c.resets
    BY EventsType DEF SyncedTimeline, Timelines, Clocks
  <1>3. SyncedTimeline(l, c).next \in 0 .. Len(Events) /\ c.tick \in Nat
    BY <1>2 DEF Timelines, Clocks
  <1>4. DueThrough(SyncedTimeline(l, c).next, c.tick) \in SyncedTimeline(l, c).next .. Len(Events)
    BY <1>3, DueThroughFacts
  <1>5. CASE c.state = "RUNNING"
    <2>1. Polled(l, c) = [SyncedTimeline(l, c) EXCEPT
                            !.next = DueThrough(SyncedTimeline(l, c).next, c.tick)]
      BY <1>2, <1>5 DEF Polled, Timelines
    <2>. QED
      BY <1>1, <1>2, <1>3, <1>4, <2>1, EventsType DEF Timelines
  <1>6. CASE c.state # "RUNNING"
    <2>1. Polled(l, c) = SyncedTimeline(l, c)
      BY <1>6 DEF Polled
    <2>. QED
      BY <1>1, <1>2, <1>3, <2>1, EventsType
  <1>. QED
    BY <1>5, <1>6

\* A tick falls in one slot of a scheduler.
LEMMA SlotType == ASSUME NEW c \in Clocks PROVE Slot(c) \in Nat
  BY IntervalAssumption DEF Slot, Clocks

\* Accessing or running a scheduler leaves one of the current run.
LEMMA SchedulerTypes ==
    ASSUME NEW s \in SchedulerStates, NEW c \in Clocks
    PROVE  /\ InitialScheduler \in SchedulerStates
           /\ SyncedScheduler(s, c) \in SchedulerStates
           /\ SyncedScheduler(s, c).observed = c.resets
           /\ RanIfDue(s, c) \in SchedulerStates
           /\ RanIfDue(s, c).observed = c.resets
  <1>1. InitialScheduler \in SchedulerStates
    BY DEF InitialScheduler, SchedulerStates
  <1>2. SyncedScheduler(s, c) \in SchedulerStates /\ SyncedScheduler(s, c).observed = c.resets
    BY DEF SyncedScheduler, SchedulerStates, Clocks
  <1>3. [observed |-> c.resets, lastSlot |-> Slot(c)] \in SchedulerStates
    BY SlotType DEF SchedulerStates, Clocks
  <1>. QED
    BY <1>1, <1>2, <1>3 DEF RanIfDue

\* An anchor is added to those of the current run and to no others.
LEMMA RuntimeTypes ==
    ASSUME NEW r \in Runtimes, NEW c \in Clocks, NEW t \in Nat, NEW w \in Payloads
    PROVE  /\ Anchored(r, c, t, w) \in Runtimes
           /\ Anchored(r, c, t, w).observed = c.resets
           /\ Anchored(r, c, t, w).applied
                = SyncedRuntime(r, c).applied \cup {[at |-> t, what |-> w]}
  <1>1. SyncedRuntime(r, c) \in Runtimes /\ SyncedRuntime(r, c).observed = c.resets
    BY DEF SyncedRuntime, Runtimes, Clocks
  <1>2. [at |-> t, what |-> w] \in Anchors
    BY DEF Anchors
  <1>. QED
    BY <1>1, <1>2 DEF Anchored, Runtimes

\* Accessing an aircraft adds no anchor.
LEMMA SyncedRuntimeType ==
    ASSUME NEW r \in Runtimes, NEW c \in Clocks
    PROVE  /\ SyncedRuntime(r, c) \in Runtimes
           /\ SyncedRuntime(r, c).observed = c.resets
           /\ SyncedRuntime(r, c).applied \subseteq r.applied
  BY DEF SyncedRuntime, Runtimes, Clocks

\* A new aircraft is well-typed.
LEMMA InitialRuntimeType == InitialRuntime \in Runtimes
  BY DEF InitialRuntime, Runtimes

-----------------------------------------------------------------------------
(* The exception queue, the catalog and the audit log. *)

\* What one assessment makes of an item: the subject stays unknown, or there is
\* an item of this time whose status follows from the assessment.
LEMMA ItemAfterFacts ==
    ASSUME NEW i \in Items \cup {NoItem}, NEW a \in AssessmentRecords, NEW t \in Nat,
           i # NoItem => i.opened <= t
    PROVE  LET j == ItemAfter(i, a, t)
           IN  /\ j \in Items \cup {NoItem}
               /\ i # NoItem => j # NoItem
               /\ j # NoItem =>
                      /\ j.assessment = a /\ j.evaluated = t /\ j.updated = t
                      /\ j.opened <= t
                      /\ (j.status = "RESOLVED") <=> IsCleared(a)
  <1>. DEFINE j == ItemAfter(i, a, t)
  <1>1. NoItem \notin Items
    BY NoItemAssumption
  <1>2. CASE IsCleared(a) /\ i = NoItem
    BY <1>2 DEF ItemAfter
  <1>3. CASE IsCleared(a) /\ i # NoItem
    <2>1. j = [assessment |-> a, evaluated |-> t, opened |-> i.opened,
               updated |-> t, status |-> "RESOLVED"]
      BY <1>3 DEF ItemAfter
    <2>2. j \in Items
      BY <1>3, <2>1 DEF Items, Statuses
    <2>. QED
      BY <1>1, <1>3, <2>1, <2>2
  <1>4. CASE ~IsCleared(a)
    <2>1. j = [assessment |-> a, evaluated |-> t,
               opened |-> IF IsActive(i) THEN i.opened ELSE t,
               updated |-> t, status |-> IF IsActive(i) THEN i.status ELSE "OPEN"]
      BY <1>4 DEF ItemAfter
    <2>2. IsActive(i) => i \in Items /\ i.status \in ActiveStatuses /\ i.opened \in Nat
      BY DEF IsActive, Items
    <2>3. j \in Items
      BY <2>1, <2>2 DEF Items, Statuses, ActiveStatuses
    <2>4. j.status \in ActiveStatuses /\ j.opened <= t
      BY <2>1, <2>2 DEF ActiveStatuses, IsActive
    <2>. QED
      BY <1>1, <1>4, <2>1, <2>3, <2>4 DEF ActiveStatuses
  <1>. QED
    BY <1>2, <1>3, <1>4

\* A report is an assessment of the right shape for each subject it names.
LEMMA ReportFacts ==
    ASSUME NEW r \in Reports, NEW s \in Subjects, r[s] # Omitted
    PROVE  r[s] \in AssessmentRecords
  BY AssessmentsAssumption DEF Reports

\* A function that gives each subject one of its assessments, or nothing, is a
\* report.
LEMMA ReportMade ==
    ASSUME NEW r, r = [s \in Subjects |-> r[s]],
           \A s \in Subjects : r[s] \in Assessments[s] \cup {Omitted}
    PROVE  r \in Reports
  <1>. DEFINE U == (UNION {Assessments[s] : s \in Subjects}) \cup {Omitted}
  <1>1. ASSUME NEW s \in Subjects PROVE r[s] \in U
    <2>1. CASE r[s] = Omitted
      BY <2>1
    <2>2. CASE r[s] \in Assessments[s]
      <3>1. Assessments[s] \in {Assessments[u] : u \in Subjects}
        OBVIOUS
      <3>2. r[s] \in UNION {Assessments[u] : u \in Subjects}
        BY <2>2, <3>1, Zenon
      <3>. QED
        BY <3>2
    <2>. QED
      BY <2>1, <2>2
  <1>. HIDE DEF U
  <1>2. r \in [Subjects -> U]
    BY <1>1
  <1>. QED
    BY <1>2 DEF Reports, U

\* A refresh of a well-typed queue gives one.
LEMMA RefreshedType ==
    ASSUME NEW q \in Queues, NEW t \in Nat, NEW r \in Reports
    PROVE  Refreshed(q, t, r) \in Queues
  <1>. DEFINE after(s) == IF r[s] = Omitted THEN q.items[s] ELSE ItemAfter(q.items[s], r[s], t)
  <1>1. ASSUME NEW s \in Subjects PROVE after(s) \in Items \cup {NoItem}
    <2>1. q.items[s] \in Items \cup {NoItem}
      BY DEF Queues
    <2>2. CASE r[s] # Omitted
      <3>1. r[s] \in AssessmentRecords
        BY <2>2, ReportFacts
      <3>2. q.items[s] # NoItem => q.items[s].opened \in Nat
        BY <2>1 DEF Items
      <3>3. ItemAfter(q.items[s], r[s], t) \in Items \cup {NoItem}
        BY <3>1, <3>2 DEF ItemAfter, Items, Statuses, ActiveStatuses, IsActive
      <3>. QED
        BY <2>2, <3>3
    <2>. QED
      BY <2>1, <2>2
  <1>2. [s \in Subjects |-> after(s)] \in [Subjects -> Items \cup {NoItem}]
    BY <1>1
  <1>. QED
    BY <1>2 DEF Refreshed, Queues

\* So does an acknowledgement of an item it knows.
LEMMA AcknowledgedType ==
    ASSUME NEW q \in Queues, NEW s \in Subjects, NEW t \in Nat, AcknowledgeAccepted(q, s, t)
    PROVE  Acknowledged(q, s, t) \in Queues
  <1>1. q.items[s] \in Items
    BY DEF Queues, AcknowledgeAccepted, IsActive
  <1>2. [q.items EXCEPT ![s].status = "ACKNOWLEDGED", ![s].updated = t]
          \in [Subjects -> Items \cup {NoItem}]
    BY <1>1 DEF Queues, Items, Statuses, ActiveStatuses
  <1>. QED
    BY <1>2 DEF Acknowledged, Queues

\* A new queue is well-typed.
LEMMA EmptyQueueType == EmptyQueue \in Queues
  BY DEF EmptyQueue, Queues

-----------------------------------------------------------------------------
(* DecisionAudit *)

\* The log has a last entry, which carries the time and the revision of the log.
Listed(a) ==
    \/ a = EmptyAudit
    \/ \E e \in a.entries :
          /\ e.revision = a.revision /\ e.at = a.at
          /\ \A f \in a.entries \ {e} : ListedBefore(f, e)

\* An entry listed after all others is the one that latest_entry returns.
LEMMA LastIsLatest ==
    ASSUME NEW a \in Audits, NEW e \in a.entries,
           \A f \in a.entries \ {e} : ListedBefore(f, e)
    PROVE  LatestEntry(a) = e
  <1>. DEFINE Last(x) == \A f \in a.entries \ {x} : ListedBefore(f, x)
  <1>1. LatestEntry(a) \in a.entries /\ Last(LatestEntry(a))
    BY Zenon DEF LatestEntry
  <1>2. \A x \in a.entries : x.at \in Nat /\ x.revision \in Nat
    BY DEF Audits, Entries
  <1>. SUFFICES ASSUME LatestEntry(a) # e PROVE FALSE
    OBVIOUS
  <1>3. ListedBefore(LatestEntry(a), e) /\ ListedBefore(e, LatestEntry(a))
    BY <1>1
  <1>. QED
    BY <1>1, <1>2, <1>3 DEF ListedBefore

\* The last entry carries the time and the revision of the log.
LEMMA LatestOfListed ==
    ASSUME NEW a \in Audits, Listed(a), a.entries # {}
    PROVE  /\ LatestEntry(a) \in a.entries
           /\ LatestEntry(a).revision = a.revision
           /\ LatestEntry(a).at = a.at
  <1>1. PICK e \in a.entries :
            /\ e.revision = a.revision /\ e.at = a.at
            /\ \A f \in a.entries \ {e} : ListedBefore(f, e)
    BY DEF Listed, EmptyAudit
  <1>. QED
    BY <1>1, LastIsLatest

\* The entry that a decision adds.
Entry(a, s, r, type, m, t) ==
    [set |-> s, rec |-> r, type |-> type, maneuver |-> m, at |-> t,
     revision |-> a.revision + 1]

\* An accepted decision adds one entry, which becomes the last of the log.
LEMMA DecidedFacts ==
    ASSUME NEW a \in Audits, Listed(a),
           NEW s \in Sets, NEW r \in Recommendations, NEW type \in DecisionTypes,
           NEW m \in Maneuvers \cup {NoManeuver}, NEW justified \in BOOLEAN, NEW t \in Nat,
           DecideAccepted(a, s, r, type, m, justified, t)
    PROVE  LET log == Decided(a, s, r, type, m, t)
               e == Entry(a, s, r, type, m, t)
           IN  /\ log \in Audits
               /\ Listed(log)
               /\ log.entries = a.entries \cup {e}
               /\ log.revision = a.revision + 1 /\ log.at = t
               /\ LatestEntry(log) = e
  <1>. DEFINE log == Decided(a, s, r, type, m, t)
              e == Entry(a, s, r, type, m, t)
  <1>1. log = [entries |-> a.entries \cup {e}, at |-> t, revision |-> a.revision + 1]
    BY DEF Decided, Entry
  <1>2. e \in Entries /\ e.at = t /\ e.revision = a.revision + 1
    BY NoManeuverAssumption DEF Entries, Entry, DecideAccepted, WellFormed, Audits, DecisionTypes
  <1>3. log \in Audits
    BY <1>1, <1>2 DEF Audits
  <1>4. \A f \in a.entries : ListedBefore(f, e)
    <2>1. CASE a = EmptyAudit
      BY <2>1 DEF EmptyAudit
    <2>2. CASE a # EmptyAudit
      <3>1. PICK g \in a.entries :
                /\ g.revision = a.revision /\ g.at = a.at
                /\ \A f \in a.entries \ {g} : ListedBefore(f, g)
        BY <2>2 DEF Listed
      <3>2. a.at <= t /\ a.revision \in Nat /\ \A f \in a.entries : f.at \in Nat /\ f.revision \in Nat
        BY DEF DecideAccepted, Audits, Entries, NeverDecided
      <3>3. ListedBefore(g, e)
        BY <1>2, <3>1, <3>2 DEF ListedBefore
      <3>4. ASSUME NEW f \in a.entries, f # g PROVE ListedBefore(f, e)
        <4>1. ListedBefore(f, g)
          BY <3>1, <3>4
        <4>. QED
          BY <1>2, <3>1, <3>2, <4>1 DEF ListedBefore
      <3>. QED
        BY <3>3, <3>4
    <2>. QED
      BY <2>1, <2>2
  <1>5. e \in log.entries /\ \A f \in log.entries \ {e} : ListedBefore(f, e)
    BY <1>1, <1>4
  <1>6. Listed(log)
    BY <1>1, <1>2, <1>5 DEF Listed
  <1>7. LatestEntry(log) = e
    BY <1>3, <1>5, LastIsLatest
  <1>. QED
    BY <1>1, <1>3, <1>6, <1>7

-----------------------------------------------------------------------------
(* The order of the queue's list. *)

\* The sort key of a known item is made of integers, and only the identifier's place
\* need tell two of them apart.
LEMMA SortKeyFacts ==
    ASSUME NEW q \in Queues, NEW s \in Known(q)
    PROVE  /\ q.items[s] \in Items /\ s \in Subjects
           /\ \A n \in 1 .. 6 : SortKey(q, s)[n] \in Int
           /\ SortKey(q, s)[1] = Flag(q.items[s].status = "RESOLVED")
           /\ SortKey(q, s)[2] = Rank(q.items[s].assessment.level)
           /\ SortKey(q, s)[6] = IdOrder[s]
  <1>1. s \in Subjects /\ q.items[s] \in Items
    BY DEF Known, Queues
  <1>. DEFINE i == q.items[s]
              k == SortKey(q, s)
  <1>2. /\ i.assessment.level \in Levels /\ i.assessment.tcpa \in Int
        /\ -i.assessment.score \in Int /\ IdOrder[s] \in Int
    BY <1>1, IdOrderAssumption DEF Items, AssessmentRecords
  <1>3. \A l \in Levels : Rank(l) \in Int
    BY DEF Rank, Levels, RiskLevels, PriorityLevels
  <1>4. \A c : Flag(c) \in Int
    BY DEF Flag
  <1>5. /\ k[1] = Flag(i.status = "RESOLVED") /\ k[2] = Rank(i.assessment.level)
        /\ k[3] = Flag(i.status = "ACKNOWLEDGED") /\ k[4] = i.assessment.tcpa
        /\ k[5] = -i.assessment.score /\ k[6] = IdOrder[s]
    BY DEF SortKey
  <1>. HIDE DEF k, i
  <1>6. \A n \in 1 .. 6 : k[n] \in Int
    <2>1. k[1] \in Int /\ k[2] \in Int /\ k[3] \in Int /\ k[4] \in Int /\ k[5] \in Int /\ k[6] \in Int
      BY <1>2, <1>3, <1>4, <1>5
    <2>. QED
      BY <2>1
  <1>. QED
    BY <1>1, <1>5, <1>6 DEF i, k

\* Key k comes before key l.
Before(k, l) == \E n \in 1 .. 6 : k[n] < l[n] /\ \A m \in 1 .. (n - 1) : k[m] = l[m]

\* The lexicographic order of keys, spelled out.
LEMMA BeforeUnfolded ==
    ASSUME NEW k, NEW l
    PROVE  Before(k, l) <=>
              \/ k[1] < l[1]
              \/ k[1] = l[1] /\ k[2] < l[2]
              \/ k[1] = l[1] /\ k[2] = l[2] /\ k[3] < l[3]
              \/ k[1] = l[1] /\ k[2] = l[2] /\ k[3] = l[3] /\ k[4] < l[4]
              \/ k[1] = l[1] /\ k[2] = l[2] /\ k[3] = l[3] /\ k[4] = l[4] /\ k[5] < l[5]
              \/ /\ k[1] = l[1] /\ k[2] = l[2] /\ k[3] = l[3] /\ k[4] = l[4] /\ k[5] = l[5]
                 /\ k[6] < l[6]
  BY DEF Before

\* Items are in a strict total order.
LEMMA PrecedesOrder ==
    ASSUME NEW q \in Queues, NEW s \in Known(q), NEW u \in Known(q), NEW w \in Known(q)
    PROVE  /\ ~Precedes(q, s, s)
           /\ Precedes(q, s, u) /\ Precedes(q, u, w) => Precedes(q, s, w)
           /\ s = u \/ Precedes(q, s, u) \/ Precedes(q, u, s)
  <1>. DEFINE K(x) == SortKey(q, x)
  <1>1. \A x, y : Precedes(q, x, y) <=> Before(K(x), K(y))
    BY DEF Precedes, Before
  <1>2. \A x \in {s, u, w} : /\ K(x)[1] \in Int /\ K(x)[2] \in Int /\ K(x)[3] \in Int
                            /\ K(x)[4] \in Int /\ K(x)[5] \in Int /\ K(x)[6] \in Int
    BY SortKeyFacts
  <1>3. s # u => K(s)[6] # K(u)[6]
    BY SortKeyFacts, IdOrderAssumption
  <1>. HIDE DEF K
  <1>4. ~Before(K(s), K(s))
    BY <1>2, BeforeUnfolded
  <1>5. Before(K(s), K(u)) /\ Before(K(u), K(w)) => Before(K(s), K(w))
    BY <1>2, BeforeUnfolded
  <1>6. s = u \/ Before(K(s), K(u)) \/ Before(K(u), K(s))
    BY <1>2, <1>3, BeforeUnfolded
  <1>. QED
    BY <1>1, <1>4, <1>5, <1>6

\* How many of the items S come before s.
Ahead(q, S, s) == Cardinality({u \in S : Precedes(q, u, s)})

\* A part of a finite set that lacks one of its elements is smaller.
LEMMA SmallerPart ==
    ASSUME NEW D, IsFiniteSet(D), NEW C \in SUBSET D, NEW x \in D, x \notin C
    PROVE  Cardinality(C) \in Nat /\ Cardinality(D) \in Nat /\ Cardinality(C) < Cardinality(D)
  <1>1. Cardinality(C) <= Cardinality(D) /\ Cardinality(C) # Cardinality(D)
    BY FS_Subset
  <1>2. Cardinality(C) \in Nat /\ Cardinality(D) \in Nat
    BY FS_Subset, FS_CardinalityType
  <1>. QED
    BY <1>1, <1>2

\* The number of items ahead is the place in the list, counted from 0: it grows
\* along the list.
LEMMA AheadFacts ==
    ASSUME NEW q \in Queues, NEW S \in SUBSET Known(q), NEW s \in S, NEW u \in S
    PROVE  /\ Ahead(q, S, s) \in 0 .. (Cardinality(S) - 1)
           /\ Precedes(q, s, u) => Ahead(q, S, s) < Ahead(q, S, u)
  <1>. DEFINE A(x) == {w \in S : Precedes(q, w, x)}
  <1>1. IsFiniteSet(S)
    <2>1. S \in SUBSET Subjects
      BY DEF Known
    <2>. QED
      BY <2>1, IdOrderAssumption, FS_Subset
  <1>2. \A x \in S : IsFiniteSet(A(x)) /\ A(x) \in SUBSET S /\ x \notin A(x)
    <2>1. ASSUME NEW x \in S PROVE A(x) \in SUBSET S /\ x \notin A(x)
      BY PrecedesOrder
    <2>. QED
      BY <1>1, <2>1, FS_Subset
  <1>3. ASSUME Precedes(q, s, u)
        PROVE  A(s) \in SUBSET A(u) /\ s \in A(u)
    BY <1>3, PrecedesOrder
  <1>. HIDE DEF A
  <1>4. Cardinality(A(s)) \in Nat /\ Cardinality(S) \in Nat /\ Cardinality(A(s)) < Cardinality(S)
    BY <1>1, <1>2, SmallerPart
  <1>5. Precedes(q, s, u) => Cardinality(A(s)) < Cardinality(A(u))
    BY <1>2, <1>3, SmallerPart
  <1>6. Ahead(q, S, s) = Cardinality(A(s)) /\ Ahead(q, S, u) = Cardinality(A(u))
    BY DEF A, Ahead
  <1>. QED
    BY <1>4, <1>5, <1>6

\* A list of known items shows each of them once, in the order of the queue.
LEMMA ArrangedFacts ==
    ASSUME NEW q \in Queues, NEW S \in SUBSET Known(q)
    PROVE  LET f == Arranged(q, S)
           IN  /\ f \in [1 .. Cardinality(S) -> S]
               /\ \A i, j \in DOMAIN f : i < j => Precedes(q, f[i], f[j])
               /\ \A s \in S : \E i \in DOMAIN f : f[i] = s
  <1>. DEFINE T == 1 .. Cardinality(S)
              Sorted(f) == \A i, j \in T : i < j => Precedes(q, f[i], f[j])
              f == Arranged(q, S)
              place == [s \in S |-> Ahead(q, S, s) + 1]
              g == [i \in T |-> CHOOSE s \in S : place[s] = i]
  <1>1. IsFiniteSet(S) /\ Cardinality(S) \in Nat
    <2>1. S \in SUBSET Subjects
      BY DEF Known
    <2>. QED
      BY <2>1, IdOrderAssumption, FS_Subset, FS_CardinalityType
  <1>2. IsFiniteSet(T) /\ Cardinality(T) = Cardinality(S)
    BY <1>1, FS_Interval
  <1>3. ASSUME NEW s \in S
        PROVE  place[s] \in T /\ place[s] = Ahead(q, S, s) + 1 /\ Ahead(q, S, s) \in Int
    <2>1. Ahead(q, S, s) \in 0 .. (Cardinality(S) - 1)
      BY AheadFacts
    <2>. QED
      BY <1>1, <2>1
  <1>4. ASSUME NEW s \in S, NEW u \in S, place[s] < place[u]
        PROVE  Precedes(q, s, u)
    <2>1. Ahead(q, S, s) < Ahead(q, S, u) /\ Ahead(q, S, s) \in Int /\ Ahead(q, S, u) \in Int
      BY <1>3, <1>4
    <2>2. s # u /\ ~Precedes(q, u, s)
      BY <2>1, AheadFacts
    <2>. QED
      BY <2>2, PrecedesOrder
  <1>5. ASSUME NEW s \in S, NEW u \in S, place[s] = place[u]
        PROVE  s = u
    <2>1. Ahead(q, S, s) = Ahead(q, S, u) /\ Ahead(q, S, s) \in Int /\ Ahead(q, S, u) \in Int
      BY <1>3, <1>5
    <2>2. ~Precedes(q, s, u) /\ ~Precedes(q, u, s)
      BY <2>1, AheadFacts
    <2>. QED
      BY <2>2, PrecedesOrder
  <1>6. \A i \in T : \E s \in S : place[s] = i
    <2>1. place \in [S -> T]
      BY <1>3
    <2>2. place \in Injection(S, T)
      BY <1>5, <2>1 DEF Injection, IsInjective
    <2>. HIDE DEF place, T
    <2>3. place \in Surjection(S, T)
      BY <1>2, <2>2, FS_Injection
    <2>. QED
      BY <2>3 DEF Surjection
  <1>. HIDE DEF place
  <1>7. \A i \in T : g[i] \in S /\ place[g[i]] = i
    BY <1>6
  <1>8. g \in [T -> S]
    BY <1>7
  <1>. HIDE DEF g
  <1>9. Sorted(g)
    BY <1>4, <1>7
  <1>10. f = CHOOSE h \in [T -> S] : Sorted(h)
    <2>1. \A h \in [T -> S] : DOMAIN h = T
      OBVIOUS
    <2>2. \A h \in [T -> S] :
              Sorted(h) <=> \A i, j \in DOMAIN h : i < j => Precedes(q, h[i], h[j])
      BY <2>1
    <2>. QED
      BY <2>2 DEF Arranged
  <1>. HIDE DEF f, Sorted
  <1>11. f \in [T -> S] /\ Sorted(f)
    BY <1>8, <1>9, <1>10
  <1>12. \A i, j \in T : i < j => Precedes(q, f[i], f[j])
    BY <1>11 DEF Sorted
  <1>13. f \in Injection(T, S)
    <2>1. ASSUME NEW i \in T, NEW j \in T, f[i] = f[j] PROVE i = j
      <3>1. f[i] \in S /\ i \in Int /\ j \in Int
        BY <1>1, <1>11
      <3>2. ~(i < j) /\ ~(j < i)
        BY <1>12, <2>1, <3>1, PrecedesOrder
      <3>. QED
        BY <3>1, <3>2
    <2>. QED
      BY <1>11, <2>1 DEF Injection, IsInjective
  <1>14. f \in Surjection(T, S)
    <2>. HIDE DEF T
    <2>. QED
      BY <1>1, <1>2, <1>13, FS_Injection
  <1>15. \A s \in S : \E i \in T : f[i] = s
    <2>. HIDE DEF T
    <2>. QED
      BY <1>14 DEF Surjection
  <1>16. DOMAIN f = T
    BY <1>11
  <1>. QED
    BY <1>11, <1>12, <1>15, <1>16 DEF f
=============================================================================
