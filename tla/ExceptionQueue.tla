--------------------------- MODULE ExceptionQueue ---------------------------
(***************************************************************************)
(* ExceptionQueueService: refreshed by the step and application            *)
(* orchestrators, acknowledged by controllers through the queue API with a *)
(* time of the client's choosing, and reset with the simulation run.  A    *)
(* call that raises (time reversal, unknown or resolved item) changes      *)
(* nothing and has no action.                                              *)
(***************************************************************************)
EXTENDS ExceptionItems

CONSTANTS
    MaxTime,       \* bound on operation times
    MaxRevision    \* bound on published snapshots between resets

ASSUME QueueBoundsAssumption == MaxTime \in Nat /\ MaxRevision \in Nat

VARIABLE queue

vars == <<queue>>

TypeOK == queue \in Queues

Init == queue = EmptyQueue

Refresh(t, r) ==
    /\ queue.revision < MaxRevision
    /\ TimeAccepted(queue, t)
    /\ queue' = Refreshed(queue, t, r)

Acknowledge(s, t) ==
    /\ queue.revision < MaxRevision
    /\ AcknowledgeAccepted(queue, s, t)
    /\ queue' = Acknowledged(queue, s, t)

Reset == queue' = EmptyQueue

Next ==
    \/ \E t \in 0 .. MaxTime, r \in Reports : Refresh(t, r)
    \/ \E s \in Subjects, t \in 0 .. MaxTime : Acknowledge(s, t)
    \/ Reset

Spec == Init /\ [][Next]_vars

-----------------------------------------------------------------------------
\* The checks in the constructors of an item and of a snapshot (an item is
\* updated no earlier than it opened, its assessment falls between the two, and
\* no item is newer than the snapshot) hold of whatever refresh and acknowledge
\* build, so that neither can fail half-way through a legal call.
LifecycleIntervals ==
    \A s \in Known(queue) :
        LET i == queue.items[s]
        IN  i.opened <= i.evaluated /\ i.evaluated <= i.updated /\ i.updated <= queue.at

\* A resolved item is one whose latest assessment is LOW or ROUTINE, and an
\* active item never carries such an assessment.
ResolvedMeansCleared ==
    \A s \in Known(queue) :
        (queue.items[s].status = "RESOLVED") <=> IsCleared(queue.items[s].assessment)

\* An exception that is being worked on does not vanish: between resets an
\* active item stays in the queue, through omissions and reassessments, until a
\* new LOW or ROUTINE assessment resolves it; and it keeps its acknowledgement
\* and its opening time for as long as it stays active.
ActiveUntilCleared ==
    [][\A s \in Subjects :
        IsActive(queue.items[s]) /\ queue'.revision > queue.revision =>
            LET i == queue.items[s]
                j == queue'.items[s]
            IN  /\ j # NoItem
                /\ j.opened = i.opened
                /\ i.status = "ACKNOWLEDGED" => j.status # "OPEN"
                /\ j.status = "RESOLVED" =>
                       IsCleared(j.assessment) /\ j.evaluated = queue'.at]_vars

\* An acknowledgement belongs to one episode: an item that comes back after it
\* was resolved opens anew and must be acknowledged again.
NoInheritedAcknowledgement ==
    [][\A s \in Subjects :
        IsActive(queue'.items[s]) /\ ~IsActive(queue.items[s]) =>
            /\ queue'.items[s].status = "OPEN"
            /\ queue'.items[s].opened = queue'.at]_vars

\* In a published snapshot the active items come first and a more severe one
\* comes before a less severe one, acknowledged or not.
SeverityFirst ==
    LET order == SnapshotOrder(queue)
        item(n) == queue.items[order[n]]
    IN  \A m, n \in DOMAIN order : m < n =>
            /\ IsActive(item(n)) => IsActive(item(m))
            /\ IsActive(item(n)) =>
                   Rank(item(m).assessment.level) <= Rank(item(n).assessment.level)
=============================================================================
