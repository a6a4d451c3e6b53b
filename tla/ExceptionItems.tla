--------------------------- MODULE ExceptionItems ---------------------------
(***************************************************************************)
(* The Exception Queue as a value: at most one item per stable subject (an *)
(* aircraft pair for a conflict risk, one aircraft for an operational      *)
(* priority), the time of the last published snapshot and its revision.    *)
(* The operators are what the methods of ExceptionQueueService compute and *)
(* the order in which ExceptionQueuePolicy lists a snapshot.               *)
(***************************************************************************)
EXTENDS Integers, FiniteSets

CONSTANTS
    Subjects,     \* the stable subjects, one exception_id each
    IdOrder,      \* per subject, the place of its exception_id in string order
    Assessments,  \* per subject, what its evaluator may report
    NoItem,       \* a subject the queue does not know
    Omitted       \* a subject a refresh says nothing about

RiskLevels     == {"LOW", "MEDIUM", "HIGH", "CRITICAL"}
PriorityLevels == {"ROUTINE", "ATTENTION", "URGENT", "EMERGENCY"}
Levels         == RiskLevels \cup PriorityLevels
ActiveStatuses == {"OPEN", "ACKNOWLEDGED"}
Statuses       == ActiveStatuses \cup {"RESOLVED"}

\* An assessment; a priority has no TCPA and sorts as if it were infinite.
AssessmentRecords == [level : Levels, tcpa : Nat, score : Nat]

ASSUME AssessmentsAssumption == Assessments \in [Subjects -> SUBSET AssessmentRecords]
ASSUME IdOrderAssumption ==
    /\ IsFiniteSet(Subjects)
    /\ IdOrder \in [Subjects -> Nat]
    /\ \A s, u \in Subjects : IdOrder[s] = IdOrder[u] => s = u

NoTime == -1

Items == [assessment : AssessmentRecords, evaluated : Nat, opened : Nat,
          updated : Nat, status : Statuses]

ASSUME NoItemAssumption == NoItem \notin Items /\ Omitted \notin AssessmentRecords

Queues == [items : [Subjects -> Items \cup {NoItem}],
           at : Nat \cup {NoTime}, revision : Nat]

\* What one refresh may be given: an assessment of some subjects, none of others.
Reports == {r \in [Subjects -> (UNION {Assessments[s] : s \in Subjects}) \cup {Omitted}] :
                \A s \in Subjects : r[s] \in Assessments[s] \cup {Omitted}}

EmptyQueue == [items |-> [s \in Subjects |-> NoItem], at |-> NoTime, revision |-> 0]

IsCleared(a) == a.level \in {"LOW", "ROUTINE"}
IsActive(i)  == i # NoItem /\ i.status \in ActiveStatuses

-----------------------------------------------------------------------------
(* ExceptionQueueService.refresh *)

\* Faulty variant: a second operation at the same time is refused.
TimeAcceptedStrictly(q, t) == t > q.at

\* The service's operation times never go back.
TimeAccepted(q, t) == t >= q.at

\* Faulty variant: a resolved item that becomes active again keeps its opening.
ItemAfterKeepingOpening(i, a, t) ==
    IF IsCleared(a)
    THEN IF i = NoItem THEN NoItem
         ELSE [assessment |-> a, evaluated |-> t, opened |-> i.opened,
               updated |-> t, status |-> "RESOLVED"]
    ELSE [assessment |-> a, evaluated |-> t,
          opened |-> IF i = NoItem THEN t ELSE i.opened,
          updated |-> t, status |-> IF IsActive(i) THEN i.status ELSE "OPEN"]

\* What one new assessment makes of the item of its subject.  A cleared subject
\* the queue never knew stays unknown; a new or resolved one (re)opens; an
\* active one keeps its opening and its acknowledgement.
ItemAfter(i, a, t) ==
    IF IsCleared(a)
    THEN IF i = NoItem THEN NoItem
         ELSE [assessment |-> a, evaluated |-> t, opened |-> i.opened,
               updated |-> t, status |-> "RESOLVED"]
    ELSE [assessment |-> a, evaluated |-> t,
          opened |-> IF IsActive(i) THEN i.opened ELSE t,
          updated |-> t,
          status |-> IF IsActive(i) THEN i.status ELSE "OPEN"]

\* Faulty variant: a subject the refresh omits is dropped.
RefreshedDroppingOmitted(q, t, r) ==
    [items |-> [s \in Subjects |->
                  IF r[s] = Omitted THEN NoItem ELSE ItemAfter(q.items[s], r[s], t)],
     at |-> t, revision |-> q.revision + 1]

Refreshed(q, t, r) ==
    [items |-> [s \in Subjects |->
                  IF r[s] = Omitted THEN q.items[s] ELSE ItemAfter(q.items[s], r[s], t)],
     at |-> t, revision |-> q.revision + 1]

-----------------------------------------------------------------------------
(* ExceptionQueueService.acknowledge *)

AcknowledgeAccepted(q, s, t) == TimeAccepted(q, t) /\ IsActive(q.items[s])

\* Faulty variant: an acknowledged item counts as done.
AcknowledgedAsResolved(q, s, t) ==
    [items |-> [q.items EXCEPT ![s].status = "RESOLVED", ![s].updated = t],
     at |-> t, revision |-> q.revision + 1]

\* A second acknowledgement publishes a snapshot and leaves the item alone.
Acknowledged(q, s, t) ==
    [items |-> IF q.items[s].status = "ACKNOWLEDGED" THEN q.items
               ELSE [q.items EXCEPT ![s].status = "ACKNOWLEDGED", ![s].updated = t],
     at |-> t, revision |-> q.revision + 1]

-----------------------------------------------------------------------------
(* ExceptionQueuePolicy *)

Rank(level) ==
    CASE level = "EMERGENCY" -> 0 [] level = "CRITICAL" -> 1
      [] level = "URGENT"    -> 2 [] level = "HIGH"     -> 3
      [] level = "ATTENTION" -> 4 [] level = "MEDIUM"   -> 5
      [] level = "ROUTINE"   -> 6 [] level = "LOW"      -> 7

Flag(condition) == IF condition THEN 1 ELSE 0

\* Faulty variant: the acknowledgement outranks the severity.
SortKeyAcknowledgedLast(q, s) ==
    LET i == q.items[s]
    IN  <<Flag(i.status = "RESOLVED"), Flag(i.status = "ACKNOWLEDGED"),
          Rank(i.assessment.level), i.assessment.tcpa, -i.assessment.score, IdOrder[s]>>

SortKey(q, s) ==
    LET i == q.items[s]
    IN  <<Flag(i.status = "RESOLVED"), Rank(i.assessment.level),
          Flag(i.status = "ACKNOWLEDGED"), i.assessment.tcpa, -i.assessment.score,
          IdOrder[s]>>

Precedes(q, s, u) ==
    LET k == SortKey(q, s)
        l == SortKey(q, u)
    IN  \E n \in 1 .. 6 : k[n] < l[n] /\ \A m \in 1 .. (n - 1) : k[m] = l[m]

Known(q) == {s \in Subjects : q.items[s] # NoItem}

\* Some of the items, in the order of a published snapshot.
Arranged(q, S) ==
    CHOOSE f \in [1 .. Cardinality(S) -> S] :
        \A i, j \in DOMAIN f : i < j => Precedes(q, f[i], f[j])

SnapshotOrder(q) == Arranged(q, Known(q))
=============================================================================
