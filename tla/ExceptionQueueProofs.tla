------------------------ MODULE ExceptionQueueProofs ------------------------
(***************************************************************************)
(* For any subjects, assessments and bounds: the exception queue is well-  *)
(* typed, every item and snapshot it publishes passes the constructors'    *)
(* checks, active exceptions neither vanish nor inherit an old             *)
(* acknowledgement, and the list shows the most severe first.              *)
(***************************************************************************)
EXTENDS ExceptionQueue, SharedValueProofs

\* The inductive invariant.
IInv == TypeOK /\ LifecycleIntervals /\ ResolvedMeansCleared

\* An item known to the queue, with what the invariant says of it.
LEMMA KnownItem ==
    ASSUME IInv, NEW s \in Subjects, queue.items[s] # NoItem
    PROVE  LET i == queue.items[s]
           IN  /\ i \in Items
               /\ queue.at \in Nat
               /\ i.opened <= i.evaluated /\ i.evaluated <= i.updated /\ i.updated <= queue.at
               /\ i.opened \in Nat /\ i.evaluated \in Nat /\ i.updated \in Nat
               /\ i.opened <= queue.at
               /\ (i.status = "RESOLVED") <=> IsCleared(i.assessment)
  <1>1. queue.items[s] \in Items /\ queue.at \in Nat \cup {NoTime}
    BY DEF IInv, TypeOK, Queues
  <1>2. s \in Known(queue)
    BY DEF Known
  <1>3. /\ queue.items[s].opened \in Nat
        /\ queue.items[s].evaluated \in Nat
        /\ queue.items[s].updated \in Nat
    BY <1>1 DEF Items
  <1>. QED
    BY <1>1, <1>2, <1>3 DEF IInv, LifecycleIntervals, ResolvedMeansCleared, NoTime

\* A new queue satisfies the invariant: it knows no item.
LEMMA InitIInv == Init => IInv
  <1>. SUFFICES ASSUME Init PROVE IInv
    OBVIOUS
  <1>1. queue = EmptyQueue
    BY DEF Init
  <1>2. Known(queue) = {}
    BY <1>1 DEF Known, EmptyQueue
  <1>3. TypeOK
    BY <1>1 DEF TypeOK, Queues, EmptyQueue
  <1>. QED
    BY <1>2, <1>3 DEF IInv, LifecycleIntervals, ResolvedMeansCleared

\* A refresh preserves it: untouched items are no newer than the last snapshot,
\* reassessed ones are of this one.
LEMMA RefreshIInv ==
    ASSUME IInv, NEW t \in Nat, NEW r \in Reports, Refresh(t, r)
    PROVE  IInv'
  <1>. DEFINE after(s) == IF r[s] = Omitted THEN queue.items[s]
                          ELSE ItemAfter(queue.items[s], r[s], t)
  <1>1. /\ queue' = [items |-> [s \in Subjects |-> after(s)], at |-> t,
                     revision |-> queue.revision + 1]
        /\ t >= queue.at
    BY DEF Refresh, Refreshed, TimeAccepted
  <1>2. /\ queue'.items = [s \in Subjects |-> after(s)]
        /\ queue'.at = t
        /\ queue'.revision = queue.revision + 1
        /\ queue.revision \in Nat
    BY <1>1 DEF IInv, TypeOK, Queues
  <1>3. ASSUME NEW s \in Subjects
        PROVE  /\ after(s) \in Items \cup {NoItem}
               /\ after(s) # NoItem =>
                      /\ after(s).opened <= after(s).evaluated
                      /\ after(s).evaluated <= after(s).updated
                      /\ after(s).updated <= t
                      /\ (after(s).status = "RESOLVED") <=> IsCleared(after(s).assessment)
    <2>1. queue.items[s] \in Items \cup {NoItem}
      BY DEF IInv, TypeOK, Queues
    <2>2. CASE r[s] = Omitted
      <3>1. after(s) = queue.items[s]
        BY <2>2
      <3>2. CASE queue.items[s] = NoItem
        BY <3>1, <3>2
      <3>3. CASE queue.items[s] # NoItem
        BY <1>1, <3>1, <3>3, KnownItem
      <3>. QED
        BY <3>2, <3>3
    <2>3. CASE r[s] # Omitted
      <3>1. r[s] \in AssessmentRecords
        BY <2>3, ReportFacts
      <3>2. queue.items[s] # NoItem => queue.items[s].opened <= t
        BY <1>1, KnownItem
      <3>3. after(s) = ItemAfter(queue.items[s], r[s], t)
        BY <2>3
      <3>. QED
        BY <2>1, <3>1, <3>2, <3>3, ItemAfterFacts
    <2>. QED
      BY <2>2, <2>3
  <1>4. TypeOK'
    <2>1. [s \in Subjects |-> after(s)] \in [Subjects -> Items \cup {NoItem}]
      BY <1>3
    <2>. QED
      BY <1>1, <1>2, <2>1 DEF TypeOK, Queues
  <1>5. \A s \in Known(queue)' : s \in Subjects /\ queue'.items[s] = after(s) /\ after(s) # NoItem
    BY <1>2 DEF Known
  <1>6. LifecycleIntervals'
    BY <1>2, <1>3, <1>5 DEF LifecycleIntervals
  <1>7. ResolvedMeansCleared'
    BY <1>2, <1>3, <1>5 DEF ResolvedMeansCleared
  <1>. QED
    BY <1>4, <1>6, <1>7 DEF IInv

\* An acknowledgement preserves it: it leaves the assessment alone.
LEMMA AcknowledgeIInv ==
    ASSUME IInv, NEW u \in Subjects, NEW t \in Nat, Acknowledge(u, t)
    PROVE  IInv'
  <1>1. queue.items[u] # NoItem /\ queue.items[u].status \in ActiveStatuses /\ t >= queue.at
    BY DEF Acknowledge, AcknowledgeAccepted, IsActive, TimeAccepted
  <1>. DEFINE acked == [queue.items[u] EXCEPT !.status = "ACKNOWLEDGED", !.updated = t]
  <1>2. PICK items \in [Subjects -> Items \cup {NoItem}] :
           /\ queue' = [items |-> items, at |-> t, revision |-> queue.revision + 1]
           /\ \A s \in Subjects : items[s] = queue.items[s] \/ (s = u /\ items[s] = acked)
    <2>1. queue.items \in [Subjects -> Items \cup {NoItem}]
      BY DEF IInv, TypeOK, Queues
    <2>2. acked \in Items
      <3>1. queue.items[u] \in Items
        BY <1>1, <2>1
      <3>. QED
        BY <3>1 DEF Items, Statuses, ActiveStatuses
    <2>3. CASE queue.items[u].status = "ACKNOWLEDGED"
      BY <2>1, <2>3 DEF Acknowledge, Acknowledged
    <2>4. CASE queue.items[u].status # "ACKNOWLEDGED"
      <3>1. [queue.items EXCEPT ![u].status = "ACKNOWLEDGED", ![u].updated = t]
              = [queue.items EXCEPT ![u] = acked]
        BY <2>1, <1>1 DEF Items
      <3>2. queue' = [items |-> [queue.items EXCEPT ![u] = acked], at |-> t,
                      revision |-> queue.revision + 1]
        BY <2>4, <3>1 DEF Acknowledge, Acknowledged
      <3>3. [queue.items EXCEPT ![u] = acked] \in [Subjects -> Items \cup {NoItem}]
        BY <2>1, <2>2
      <3>4. \A s \in Subjects :
               LET items == [queue.items EXCEPT ![u] = acked]
               IN  items[s] = queue.items[s] \/ (s = u /\ items[s] = acked)
        BY <2>1
      <3>. QED
        BY <3>2, <3>3, <3>4, Zenon
    <2>. QED
      BY <2>3, <2>4
  <1>3. /\ queue'.items = items /\ queue'.at = t
        /\ queue'.revision = queue.revision + 1 /\ queue.revision \in Nat
    BY <1>2 DEF IInv, TypeOK, Queues
  <1>4. TypeOK'
    BY <1>2, <1>3 DEF TypeOK, Queues
  <1>5. ASSUME NEW s \in Subjects, items[s] # NoItem
        PROVE  /\ items[s].opened <= items[s].evaluated
               /\ items[s].evaluated <= items[s].updated
               /\ items[s].updated <= t
               /\ (items[s].status = "RESOLVED") <=> IsCleared(items[s].assessment)
    <2>1. CASE items[s] = queue.items[s]
      BY <1>1, <1>5, <2>1, KnownItem
    <2>2. CASE s = u /\ items[s] = acked
      <3>1. queue.items[u] \in Items
        BY <1>1, KnownItem
      <3>2. /\ acked.opened = queue.items[u].opened
            /\ acked.evaluated = queue.items[u].evaluated
            /\ acked.assessment = queue.items[u].assessment
            /\ acked.updated = t /\ acked.status = "ACKNOWLEDGED"
        BY <3>1 DEF Items
      <3>. QED
        BY <1>1, <2>2, <3>2, KnownItem DEF ActiveStatuses
    <2>. QED
      BY <1>2, <2>1, <2>2
  <1>6. \A s \in Known(queue)' : s \in Subjects /\ items[s] # NoItem
    BY <1>3 DEF Known
  <1>7. LifecycleIntervals'
    BY <1>3, <1>5, <1>6 DEF LifecycleIntervals
  <1>8. ResolvedMeansCleared'
    BY <1>3, <1>5, <1>6 DEF ResolvedMeansCleared
  <1>. QED
    BY <1>4, <1>7, <1>8 DEF IInv

\* Every reachable queue is well-typed, its items lie within their own and the
\* snapshot's times, and exactly the cleared ones are resolved.
THEOREM QueueInvariant == Spec => []IInv
  <1>1. IInv /\ [Next]_vars => IInv'
    <2>. SUFFICES ASSUME IInv, [Next]_vars PROVE IInv'
      OBVIOUS
    <2>1. ASSUME NEW t \in 0 .. MaxTime, NEW r \in Reports, Refresh(t, r) PROVE IInv'
      BY <2>1, RefreshIInv, QueueBoundsAssumption
    <2>2. ASSUME NEW s \in Subjects, NEW t \in 0 .. MaxTime, Acknowledge(s, t) PROVE IInv'
      BY <2>2, AcknowledgeIInv, QueueBoundsAssumption
    <2>3. CASE Reset
      <3>1. Known(queue)' = {}
        BY <2>3 DEF Reset, Known, EmptyQueue
      <3>2. TypeOK'
        BY <2>3 DEF Reset, TypeOK, Queues, EmptyQueue
      <3>. QED
        BY <3>1, <3>2 DEF IInv, LifecycleIntervals, ResolvedMeansCleared
    <2>4. CASE UNCHANGED vars
      BY <2>4 DEF vars, IInv, TypeOK, LifecycleIntervals, ResolvedMeansCleared, Known
    <2>. QED
      BY <2>1, <2>2, <2>3, <2>4 DEF Next
  <1>. QED
    BY InitIInv, <1>1, PTL DEF Spec

\* The queue always holds items, a time and a revision of the right shape.
THEOREM QueueTypeOK == Spec => []TypeOK
  BY QueueInvariant, PTL DEF IInv

\* The constructors' checks on items and snapshots hold of whatever the queue
\* builds.
THEOREM QueueLifecycle == Spec => []LifecycleIntervals
  BY QueueInvariant, PTL DEF IInv

\* An item is RESOLVED exactly if its latest assessment is LOW or ROUTINE.
THEOREM QueueResolution == Spec => []ResolvedMeansCleared
  BY QueueInvariant, PTL DEF IInv

-----------------------------------------------------------------------------
(* What one step may do to one item. *)

\* A refresh keeps what it does not reassess and applies ItemAfter to the rest.
LEMMA RefreshOfItem ==
    ASSUME IInv, NEW t \in Nat, NEW r \in Reports, Refresh(t, r), NEW s \in Subjects
    PROVE  /\ queue'.at = t
           /\ \/ queue'.items[s] = queue.items[s]
              \/ /\ r[s] \in AssessmentRecords
                 /\ queue'.items[s] = ItemAfter(queue.items[s], r[s], t)
  <1>1. queue' = Refreshed(queue, t, r)
    BY DEF Refresh
  <1>. QED
    BY <1>1, ReportFacts DEF Refreshed

\* An acknowledgement changes the status and the update time of its item only.
LEMMA AcknowledgeOfItem ==
    ASSUME IInv, NEW u \in Subjects, NEW t \in Nat, Acknowledge(u, t), NEW s \in Subjects
    PROVE  \/ queue'.items[s] = queue.items[s]
           \/ /\ s = u
              /\ IsActive(queue.items[s])
              /\ queue'.items[s] # NoItem
              /\ queue'.items[s].opened = queue.items[s].opened
              /\ queue'.items[s].status = "ACKNOWLEDGED"
  <1>1. queue.items \in [Subjects -> Items \cup {NoItem}] /\ IsActive(queue.items[u])
    BY DEF IInv, TypeOK, Queues, Acknowledge, AcknowledgeAccepted
  <1>2. queue.items[u] \in Items
    BY <1>1 DEF IsActive
  <1>3. CASE queue.items[u].status = "ACKNOWLEDGED"
    BY <1>3 DEF Acknowledge, Acknowledged
  <1>4. CASE queue.items[u].status # "ACKNOWLEDGED"
    <2>1. queue'.items = [queue.items EXCEPT ![u].status = "ACKNOWLEDGED", ![u].updated = t]
      BY <1>4 DEF Acknowledge, Acknowledged
    <2>2. CASE s # u
      BY <1>1, <2>1, <2>2
    <2>3. CASE s = u
      <3>1. /\ queue'.items[s].opened = queue.items[s].opened
            /\ queue'.items[s].status = "ACKNOWLEDGED"
            /\ queue'.items[s] = [queue.items[s] EXCEPT !.status = "ACKNOWLEDGED", !.updated = t]
        BY <1>1, <1>2, <2>1, <2>3 DEF Items
      <3>2. queue'.items[s] \in Items
        BY <1>2, <2>3, <3>1 DEF Items, Statuses, ActiveStatuses
      <3>. QED
        BY <1>1, <2>3, <3>1, <3>2, NoItemAssumption
    <2>. QED
      BY <2>2, <2>3
  <1>. QED
    BY <1>3, <1>4

\* An exception that is being worked on stays in the queue with its opening time
\* and its acknowledgement until a new LOW or ROUTINE assessment resolves it.
THEOREM QueueActiveUntilCleared == Spec => ActiveUntilCleared
  <1>. DEFINE Kept(s) ==
         IsActive(queue.items[s]) /\ queue'.revision > queue.revision =>
            LET i == queue.items[s]
                j == queue'.items[s]
            IN  /\ j # NoItem
                /\ j.opened = i.opened
                /\ i.status = "ACKNOWLEDGED" => j.status # "OPEN"
                /\ j.status = "RESOLVED" =>
                       IsCleared(j.assessment) /\ j.evaluated = queue'.at
  <1>1. ASSUME IInv, [Next]_vars, NEW s \in Subjects PROVE Kept(s)
    <2>. USE <1>1
    <2>. SUFFICES ASSUME IsActive(queue.items[s]), queue'.revision > queue.revision
                  PROVE  LET i == queue.items[s]
                             j == queue'.items[s]
                         IN  /\ j # NoItem
                             /\ j.opened = i.opened
                             /\ i.status = "ACKNOWLEDGED" => j.status # "OPEN"
                             /\ j.status = "RESOLVED" =>
                                    IsCleared(j.assessment) /\ j.evaluated = queue'.at
      OBVIOUS
    <2>1. /\ queue.items[s] # NoItem /\ queue.items[s] \in Items
          /\ queue.items[s].status \in ActiveStatuses
          /\ queue.revision \in Nat
      BY DEF IsActive, IInv, TypeOK, Queues
    <2>2. ASSUME NEW t \in 0 .. MaxTime, NEW r \in Reports, Refresh(t, r)
          PROVE  Kept(s)
      <3>1. t \in Nat /\ t >= queue.at
        BY <2>2, QueueBoundsAssumption DEF Refresh, TimeAccepted
      <3>2. queue'.at = t
        BY <2>2, <3>1, RefreshOfItem
      <3>3. CASE queue'.items[s] = queue.items[s]
        BY <2>1, <3>3 DEF ActiveStatuses
      <3>4. CASE r[s] \in AssessmentRecords /\ queue'.items[s] = ItemAfter(queue.items[s], r[s], t)
        <4>1. queue.items[s].opened <= t
          BY <2>1, <3>1, KnownItem
        <4>2. /\ queue'.items[s] # NoItem
              /\ queue'.items[s].assessment = r[s] /\ queue'.items[s].evaluated = t
              /\ (queue'.items[s].status = "RESOLVED") <=> IsCleared(r[s])
          BY <2>1, <3>1, <3>4, <4>1, ItemAfterFacts
        <4>3. queue'.items[s].opened = queue.items[s].opened
          BY <2>1, <3>4 DEF ItemAfter
        <4>4. ~IsCleared(r[s]) => queue'.items[s].status = queue.items[s].status
          BY <2>1, <3>4 DEF ItemAfter
        <4>. QED
          BY <3>2, <4>2, <4>3, <4>4
      <3>. QED
        BY <2>2, <3>1, <3>3, <3>4, RefreshOfItem
    <2>3. ASSUME NEW u \in Subjects, NEW t \in 0 .. MaxTime, Acknowledge(u, t)
          PROVE  Kept(s)
      <3>1. t \in Nat
        BY QueueBoundsAssumption
      <3>2. CASE queue'.items[s] = queue.items[s]
        BY <2>1, <3>2 DEF ActiveStatuses
      <3>3. CASE /\ queue'.items[s] # NoItem
                 /\ queue'.items[s].opened = queue.items[s].opened
                 /\ queue'.items[s].status = "ACKNOWLEDGED"
        BY <3>3
      <3>. QED
        BY <2>3, <3>1, <3>2, <3>3, AcknowledgeOfItem
    <2>4. CASE Reset
      BY <2>1, <2>4 DEF Reset, EmptyQueue
    <2>5. CASE UNCHANGED vars
      BY <2>1, <2>5 DEF vars
    <2>. QED
      BY <2>2, <2>3, <2>4, <2>5 DEF Next
  <1>2. IInv /\ [Next]_vars => [\A s \in Subjects : Kept(s)]_vars
    BY <1>1
  <1>. QED
    BY QueueInvariant, <1>2, PTL DEF Spec, ActiveUntilCleared

\* An item that comes back after it was resolved opens anew, unacknowledged.
THEOREM QueueNoInheritedAcknowledgement == Spec => NoInheritedAcknowledgement
  <1>. DEFINE Anew(s) ==
         IsActive(queue'.items[s]) /\ ~IsActive(queue.items[s]) =>
            /\ queue'.items[s].status = "OPEN"
            /\ queue'.items[s].opened = queue'.at
  <1>1. ASSUME IInv, [Next]_vars, NEW s \in Subjects PROVE Anew(s)
    <2>. USE <1>1
    <2>. SUFFICES ASSUME IsActive(queue'.items[s]), ~IsActive(queue.items[s])
                  PROVE  /\ queue'.items[s].status = "OPEN"
                         /\ queue'.items[s].opened = queue'.at
      OBVIOUS
    <2>1. ASSUME NEW t \in 0 .. MaxTime, NEW r \in Reports, Refresh(t, r)
          PROVE  Anew(s)
      <3>1. t \in Nat
        BY QueueBoundsAssumption
      <3>2. queue'.at = t /\ queue'.items[s] = ItemAfter(queue.items[s], r[s], t)
        BY <2>1, <3>1, RefreshOfItem
      <3>3. ~IsCleared(r[s])
        BY <3>2 DEF ItemAfter, IsActive, ActiveStatuses
      <3>. QED
        BY <3>2, <3>3 DEF ItemAfter
    <2>2. ASSUME NEW u \in Subjects, NEW t \in 0 .. MaxTime, Acknowledge(u, t)
          PROVE  Anew(s)
      BY <2>2, AcknowledgeOfItem, QueueBoundsAssumption
    <2>3. CASE Reset
      BY <2>3 DEF Reset, EmptyQueue, IsActive
    <2>4. CASE UNCHANGED vars
      BY <2>4 DEF vars
    <2>. QED
      BY <2>1, <2>2, <2>3, <2>4 DEF Next
  <1>2. IInv /\ [Next]_vars => [\A s \in Subjects : Anew(s)]_vars
    BY <1>1
  <1>. QED
    BY QueueInvariant, <1>2, PTL DEF Spec, NoInheritedAcknowledgement

\* The list of a published snapshot never shows a resolved item before an active
\* one, nor a less severe active one before a more severe one: the order that
\* ExceptionQueuePolicy sorts by puts both before the acknowledgement.
THEOREM QueueSeverityFirst == Spec => []SeverityFirst
  <1>1. ASSUME TypeOK PROVE SeverityFirst
    <2>. DEFINE S == Known(queue)
                f == SnapshotOrder(queue)
                item(n) == queue.items[f[n]]
    <2>1. /\ f \in [1 .. Cardinality(S) -> S]
          /\ \A i, j \in DOMAIN f : i < j => Precedes(queue, f[i], f[j])
      BY <1>1, ArrangedFacts DEF TypeOK, SnapshotOrder
    <2>. HIDE DEF f, S
    <2>2. ASSUME NEW m \in DOMAIN f, NEW n \in DOMAIN f, m < n
          PROVE  /\ IsActive(item(n)) => IsActive(item(m))
                 /\ IsActive(item(n)) =>
                        Rank(item(m).assessment.level) <= Rank(item(n).assessment.level)
      <3>. DEFINE k == SortKey(queue, f[m])
                  l == SortKey(queue, f[n])
      <3>1. f[m] \in S /\ f[n] \in S /\ queue \in Queues
        BY <1>1, <2>1 DEF TypeOK
      <3>2. /\ item(m) \in Items /\ item(n) \in Items
            /\ k[1] = Flag(item(m).status = "RESOLVED") /\ l[1] = Flag(item(n).status = "RESOLVED")
            /\ k[2] = Rank(item(m).assessment.level) /\ l[2] = Rank(item(n).assessment.level)
            /\ k[1] \in Int /\ l[1] \in Int /\ k[2] \in Int /\ l[2] \in Int
        BY <3>1, SortKeyFacts DEF S
      <3>3. k[1] < l[1] \/ (k[1] = l[1] /\ k[2] <= l[2])
        <4>1. Precedes(queue, f[m], f[n])
          BY <2>1, <2>2
        <4>2. Before(k, l)
          BY <4>1 DEF Precedes, Before
        <4>. HIDE DEF k, l
        <4>. QED
          BY <3>2, <4>2, BeforeUnfolded
      <3>4. \A i \in Items : IsActive(i) <=> i.status # "RESOLVED"
        BY NoItemAssumption DEF IsActive, Items, Statuses, ActiveStatuses
      <3>. HIDE DEF k, l, item
      <3>5. CASE IsActive(item(n))
        <4>1. l[1] = 0
          BY <3>2, <3>4, <3>5 DEF Flag
        <4>2. k[1] = 0 /\ k[2] <= l[2]
          BY <3>2, <3>3, <4>1 DEF Flag
        <4>3. item(m).status # "RESOLVED"
          BY <3>2, <4>2 DEF Flag
        <4>. QED
          BY <3>2, <3>4, <4>2, <4>3
      <3>. QED
        BY <3>5
    <2>. QED
      BY <2>2 DEF SeverityFirst, f
  <1>. QED
    BY <1>1, QueueTypeOK, PTL
=============================================================================
