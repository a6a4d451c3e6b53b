------------------------- MODULE GoldenDemoSession -------------------------
(***************************************************************************)
(* One process-local Golden Demo session: the command service, the chain   *)
(* of orchestrators behind it and the components they drive.  The server   *)
(* handles one request at a time, so a command is one step; what a command *)
(* that raises half-way leaves behind is part of its action.               *)
(*                                                                         *)
(* All six orchestrators compare the clock's reset_count with the one they *)
(* last saw, and every command and every read of the session makes all of  *)
(* them do so first; one variable, observed, stands for their copies.      *)
(***************************************************************************)
EXTENDS SimulationParts, ExceptionItems, DecisionAudit

CONSTANTS
    Pairs,              \* the subjects that are aircraft pairs
    Pair,               \* the one the demo resolves, CIV-A02 / MIL-F01
    Target,             \* the aircraft the maneuvers are for
    RecommendationSet,  \* the set that resolve() publishes
    Primary,            \* its primary recommendation
    Forecast,           \* per checkpoint and subject, the assessment of the scenario
    Outcome,            \* the same at T+90 once a maneuver has been applied
    Verdict,            \* per maneuver, the result of isolated validation
    MaxResets,          \* bound on the number of runs
    MaxRevision,        \* bound on queue snapshots, for acknowledgements
    FacadeTimes,        \* times that clients of the queue and decision APIs send
    CallersReset        \* whether a library caller resets the clock itself

Schedulers == {"prediction", "conflict"}
Verdicts   == {"SAFE", "UNSAFE", "INEFFECTIVE", "RAISES"}
NoStep == -1
None == "NONE"

ASSUME SubjectsAssumption == Pairs \subseteq Subjects /\ Pair \in Pairs
ASSUME ManeuversAssumption == Target \in Aircraft /\ Maneuvers \subseteq Payloads
ASSUME RecommendationAssumption ==
    /\ RecommendationSet \in Sets
    /\ Primary \in Holds[RecommendationSet]
    /\ Generated[RecommendationSet] = 75
ASSUME CalibrationAssumption ==
    /\ DOMAIN Forecast = {0, 70, 75, 90}
    /\ \A t \in DOMAIN Forecast : Forecast[t] \in Reports
    /\ DOMAIN Outcome = Maneuvers
    /\ \A m \in Maneuvers : Outcome[m] \in Reports
    /\ Verdict \in [Maneuvers -> Verdicts]
ASSUME SessionBoundsAssumption ==
    /\ MaxResets \in Nat /\ MaxRevision \in Nat
    /\ FacadeTimes \subseteq Nat /\ CallersReset \in BOOLEAN

VARIABLES
    clock, timeline, scheduler, aircraft,   \* the simulation
    queue, catalog, audit,                  \* the process-local services
    evidence,   \* the last results of the orchestrators
    observed    \* the reset_count the orchestrators last saw

simulation == <<clock, timeline, scheduler, aircraft>>
services == <<queue, catalog, audit>>
vars == <<simulation, services, evidence, observed>>

\* The results of one run: tick and assessments of the latest step, the set
\* resolved, the decision with its maneuver and audit revision, the verdict on
\* a modification and the maneuver applied.
Evidences == [step : Nat \cup {NoStep}, report : Reports,
              resolution : Sets \cup {NoSet},
              decision : DecisionTypes \cup {None},
              chosen : Maneuvers \cup {NoManeuver}, logged : Nat,
              verdict : Verdicts \cup {None},
              application : Maneuvers \cup {NoManeuver}]

NoEvidence == [step |-> NoStep, report |-> [s \in Subjects |-> Omitted],
               resolution |-> NoSet, decision |-> None, chosen |-> NoManeuver,
               logged |-> 0, verdict |-> None, application |-> NoManeuver]

TypeOK ==
    /\ clock \in Clocks
    /\ timeline \in Timelines
    /\ scheduler \in [Schedulers -> SchedulerStates]
    /\ aircraft \in [Aircraft -> Runtimes]
    /\ queue \in Queues
    /\ catalog \in Catalogs
    /\ audit \in Audits
    /\ evidence \in Evidences
    /\ observed \in Nat

Init ==
    /\ clock = InitialClock
    /\ timeline = InitialTimeline
    /\ scheduler = [k \in Schedulers |-> InitialScheduler]
    /\ aircraft = [a \in Aircraft |-> InitialRuntime]
    /\ queue = EmptyQueue
    /\ catalog = EmptyCatalog
    /\ audit = EmptyAudit
    /\ evidence = NoEvidence
    /\ observed = 0

-----------------------------------------------------------------------------
(* What the orchestrators see once they have compared reset counts. *)

Seen(present, initial) == IF observed = clock.resets THEN present ELSE initial

Q == Seen(queue, EmptyQueue)
K == Seen(catalog, EmptyCatalog)
A == Seen(audit, EmptyAudit)
E == Seen(evidence, NoEvidence)

\* The maneuvers applied to the target in this run.
Moved == {x.what : x \in SyncedRuntime(aircraft[Target], clock).applied}

Reported(report, levels) ==
    \E s \in Subjects : report[s] # Omitted /\ report[s].level \in levels

\* The demo's scenario is quiet at its start; its conflict is assessed as soon as
\* the clock stands at T+70 and stays severe until a maneuver is applied.
ASSUME ScenarioAssumption ==
    /\ ~Reported(Forecast[0], {"HIGH", "CRITICAL"} \cup (PriorityLevels \ {"ROUTINE"}))
    /\ \A t \in {70, 75, 90} :
           Forecast[t][Pair] # Omitted /\ Forecast[t][Pair].level \in {"HIGH", "CRITICAL"}
    /\ Interval <= 70

\* InProcessGoldenDemoSessionApi derives the stage and stores none.
Stage ==
    IF E.application # NoManeuver THEN "CONFLICT_RESOLVED"
    ELSE IF E.verdict # None THEN "MODIFICATION_REVALIDATED"
    ELSE IF E.decision = "MODIFY" THEN "DECISION_MODIFIED"
    ELSE IF E.decision = "REJECT" THEN "DECISION_REJECTED"
    ELSE IF E.decision = "ACCEPT" THEN "DECISION_ACCEPTED"
    ELSE IF E.resolution # NoSet THEN "RECOMMENDATION_AVAILABLE"
    ELSE IF E.step = NoStep THEN "READY"
    ELSE IF Reported(E.report, {"HIGH", "CRITICAL"}) THEN "CONFLICT_DETECTED"
    ELSE IF Reported(E.report, PriorityLevels \ {"ROUTINE"}) THEN "DEVIATION_DETECTED"
    ELSE "MONITORING"

Checkpoint(stage, elapsed) == Stage = stage /\ clock.tick = elapsed

-----------------------------------------------------------------------------
(* GoldenDemoStepOrchestrator.step, with c the clock it advances to.  The  *)
(* clock, the timeline, the schedulers and the aircraft have moved on when *)
(* the queue refuses a snapshot older than its last one; the step then     *)
(* raises and leaves no result.                                            *)

\* A conflict risk is assessed only when the conflict scheduler is due.
StepReport(c) ==
    [s \in Subjects |->
        IF s \in Pairs /\ ~RunIsDue(scheduler["conflict"], c) THEN Omitted
        ELSE Forecast[c.tick][s]]

Step(c) ==
    /\ c.state = "RUNNING"
    /\ E.step # c.tick
    /\ clock' = c
    /\ timeline' = Polled(timeline, c)
    /\ scheduler' = [k \in Schedulers |-> RanIfDue(scheduler[k], c)]
    /\ aircraft' = [a \in Aircraft |-> SyncedRuntime(aircraft[a], c)]
    /\ queue' = IF TimeAccepted(Q, c.tick) THEN Refreshed(Q, c.tick, StepReport(c)) ELSE Q
    /\ observed' = clock.resets

EvidenceAfterStep(c) ==
    IF TimeAccepted(Q, c.tick)
    THEN [E EXCEPT !.step = c.tick, !.report = StepReport(c)] ELSE E

\* Faulty variant: only the step orchestrator notices the reset.
GetCurrentKeepingEvidence ==
    /\ aircraft' = [a \in Aircraft |-> SyncedRuntime(aircraft[a], clock)]
    /\ queue' = Q /\ catalog' = K /\ audit' = A
    /\ observed' = clock.resets
    /\ UNCHANGED <<clock, timeline, scheduler, evidence>>

\* GET of the session, and every command that raises before it acts: all it
\* does is to let the orchestrators and the aircraft notice a reset.
GetCurrent ==
    /\ aircraft' = [a \in Aircraft |-> SyncedRuntime(aircraft[a], clock)]
    /\ queue' = Q /\ catalog' = K /\ audit' = A /\ evidence' = E
    /\ observed' = clock.resets
    /\ UNCHANGED <<clock, timeline, scheduler>>

Start ==
    /\ Checkpoint("READY", 0)
    /\ Step(Played(clock))
    /\ catalog' = K /\ audit' = A
    /\ evidence' = EvidenceAfterStep(Played(clock))

AdvanceToConflict ==
    /\ Checkpoint("MONITORING", 0)
    /\ Step(Ticked(clock, 70))
    /\ catalog' = K /\ audit' = A
    /\ evidence' = EvidenceAfterStep(Ticked(clock, 70))

-----------------------------------------------------------------------------
(* The step to T+75 and, if it succeeds, the resolution. *)

\* _select_source_exception
SourceExceptionFound(q) ==
    /\ IsActive(q.items[Pair])
    /\ q.items[Pair].assessment.level \in {"HIGH", "CRITICAL"}

GenerateRecommendation ==
    LET c == Ticked(clock, 5)
        e == EvidenceAfterStep(c)
        resolved == /\ e.step = c.tick
                    /\ SourceExceptionFound(Refreshed(Q, c.tick, StepReport(c)))
                    /\ PublishAccepted(K, RecommendationSet)
    IN  /\ Checkpoint("CONFLICT_DETECTED", 70)
        /\ Step(c)
        /\ catalog' = IF resolved THEN Published(K, RecommendationSet) ELSE K
        /\ evidence' = IF resolved THEN [e EXCEPT !.resolution = RecommendationSet] ELSE e
        /\ audit' = A

-----------------------------------------------------------------------------
(* The step to T+90 and, if it succeeds, the decision.  The inputs were    *)
(* validated before; the decision itself can still be refused.             *)

Chosen(entry) == IF entry.type = "ACCEPT" THEN Proposed[entry.rec] ELSE entry.maneuver

DecisionRecorded(e, log) ==
    [e EXCEPT !.decision = LatestEntry(log).type, !.chosen = Chosen(LatestEntry(log)),
              !.logged = log.revision]

DecideRecommendation(type, m) ==
    LET c == Ticked(clock, 15)
        e == EvidenceAfterStep(c)
        log == Decided(A, E.resolution, Primary, type, m, c.tick)
        decided == /\ e.step = c.tick
                   /\ K.current = E.resolution
                   /\ DecideAccepted(A, E.resolution, Primary, type, m, TRUE, c.tick)
    IN  /\ Checkpoint("RECOMMENDATION_AVAILABLE", 75)
        /\ WellFormed(E.resolution, Primary, type, m, TRUE)
        /\ Step(c)
        /\ catalog' = K
        /\ audit' = IF decided THEN log ELSE A
        /\ evidence' = IF decided THEN DecisionRecorded(e, log) ELSE e

AcceptRecommendation == DecideRecommendation("ACCEPT", NoManeuver)
ModifyRecommendation(m) == DecideRecommendation("MODIFY", m)
RejectRecommendation == DecideRecommendation("REJECT", NoManeuver)

-----------------------------------------------------------------------------
(* The commands at T+90.  Their stages exist only in the observed run. *)

\* The latest step is of now and the decision is still the last of the log.
DecisionIsCurrent == E.step = clock.tick /\ A.revision = E.logged

RevalidateModifiedManeuver ==
    /\ Checkpoint("DECISION_MODIFIED", 90)
    /\ DecisionIsCurrent
    /\ Verdict[E.chosen] # "RAISES"
    /\ evidence' = [E EXCEPT !.verdict = Verdict[E.chosen]]
    /\ UNCHANGED <<simulation, services, observed>>

\* The anchor is set before the traffic is recomputed: when the queue refuses
\* the new snapshot the aircraft has moved and there is no result.
Apply(m) ==
    /\ DecisionIsCurrent
    /\ AnchorAccepted(Target, aircraft[Target], clock, clock.tick)
    /\ aircraft' = [aircraft EXCEPT ![Target] = Anchored(@, clock, clock.tick, m)]
    /\ queue' = IF TimeAccepted(Q, clock.tick)
                THEN Refreshed(Q, clock.tick, Outcome[m]) ELSE Q
    /\ evidence' = IF TimeAccepted(Q, clock.tick)
                   THEN [E EXCEPT !.application = m] ELSE E
    /\ UNCHANGED <<clock, timeline, scheduler, catalog, audit, observed>>

ApplyApprovedManeuver ==
    /\ Checkpoint("DECISION_ACCEPTED", 90)
    /\ Apply(E.chosen)

\* Faulty variant: any revalidated modification may be applied.
ApplyUnvalidatedModifiedManeuver ==
    /\ Checkpoint("MODIFICATION_REVALIDATED", 90)
    /\ Apply(E.chosen)

ApplyValidatedModifiedManeuver ==
    /\ Checkpoint("MODIFICATION_REVALIDATED", 90)
    /\ E.verdict = "SAFE"
    /\ Apply(E.chosen)

\* RESET ends with a read of the session, so that the services forget the old
\* run; the timeline and the schedulers notice at their next use.
Reset ==
    /\ clock.resets < MaxResets
    /\ clock' = Restarted(clock)
    /\ aircraft' = [a \in Aircraft |-> SyncedRuntime(aircraft[a], clock')]
    /\ queue' = EmptyQueue /\ catalog' = EmptyCatalog /\ audit' = EmptyAudit
    /\ evidence' = NoEvidence
    /\ observed' = clock'.resets
    /\ UNCHANGED <<timeline, scheduler>>

-----------------------------------------------------------------------------
(* What else can reach the same objects: the queue and decision APIs of    *)
(* the runtime, with times of their clients' choosing and no look at the   *)
(* clock, and a library caller that resets the clock.                      *)

AcknowledgeException(s, t) ==
    /\ queue.revision < MaxRevision
    /\ AcknowledgeAccepted(queue, s, t)
    /\ queue' = Acknowledged(queue, s, t)
    /\ UNCHANGED <<simulation, catalog, audit, evidence, observed>>

SubmitDecision(type, m, t) ==
    /\ RecommendationSet \in catalog.published
    /\ DecideAccepted(audit, RecommendationSet, Primary, type, m, TRUE, t)
    /\ audit' = Decided(audit, RecommendationSet, Primary, type, m, t)
    /\ UNCHANGED <<simulation, queue, catalog, evidence, observed>>

ClockReset ==
    /\ CallersReset
    /\ clock.resets < MaxResets
    /\ clock' = Restarted(clock)
    /\ UNCHANGED <<timeline, scheduler, aircraft, services, evidence, observed>>

-----------------------------------------------------------------------------
NextCommand ==
    \/ Start \/ AdvanceToConflict \/ GenerateRecommendation
    \/ AcceptRecommendation \/ RejectRecommendation
    \/ \E m \in Maneuvers : ModifyRecommendation(m)
    \/ RevalidateModifiedManeuver
    \/ ApplyApprovedManeuver \/ ApplyValidatedModifiedManeuver

FacadeCall ==
    \/ \E s \in Subjects, t \in FacadeTimes : AcknowledgeException(s, t)
    \/ \E type \in DecisionTypes, m \in Maneuvers \cup {NoManeuver}, t \in FacadeTimes :
          SubmitDecision(type, m, t)

Next == NextCommand \/ Reset \/ GetCurrent \/ FacadeCall \/ ClockReset

Spec == Init /\ [][Next]_vars

\* An operator who keeps giving the next command of the guided flow.
FairSpec == Spec /\ WF_vars(NextCommand)

-----------------------------------------------------------------------------
\* An aircraft leaves its scenario trajectory only for a maneuver that the audit
\* log of this run authorizes: the recommended one after an ACCEPT, or the
\* controller's own after a MODIFY, if isolated validation found it SAFE.  Holds
\* also when an application fails half-way and when other clients decide.
AppliedOnlyWhenAuthorized ==
    \A m \in Moved : \E e \in A.entries :
        /\ e.set = RecommendationSet
        /\ \/ e.type = "ACCEPT" /\ m = Proposed[e.rec]
           \/ e.type = "MODIFY" /\ m = e.maneuver /\ Verdict[m] = "SAFE"

\* The session's decision is the last entry of the audit log, on a set that is
\* still in the catalog, so that no later decision or reset can put the log and
\* the session at odds and block the commands that compare them.
EvidenceBackedByAudit ==
    E.decision # None =>
        /\ A.entries # {}
        /\ A.revision = E.logged
        /\ LatestEntry(A).type = E.decision
        /\ LatestEntry(A).set = E.resolution
        /\ E.resolution \in K.published
        /\ Chosen(LatestEntry(A)) = E.chosen

Elapsed(stage) ==
    CASE stage \in {"READY", "MONITORING"} -> 0
      [] stage = "CONFLICT_DETECTED" -> 70
      [] stage = "RECOMMENDATION_AVAILABLE" -> 75
      [] stage = "DEVIATION_DETECTED" -> -1
      [] OTHER -> 90

\* The session is where its stage says: the clock stands at the checkpoint of
\* the stage and the target has been moved by what the session reports, no more.
AtCheckpoint ==
    /\ clock.tick = Elapsed(Stage)
    /\ Moved = {E.application} \ {NoManeuver}

\* A session that is not where its stage says has been put there by another
\* client, in one of two ways: an acknowledgement from the future, which makes
\* the queue refuse the snapshots of now, or a decision submitted beside the
\* session on its recommendation.  Nothing else wedges a session.
WedgeExplained ==
    AtCheckpoint \/ Q.at > clock.tick \/ (E.decision = None /\ A.entries # {})

\* The conflict the session is about stays active in the queue from its
\* detection until a maneuver is reported applied, acknowledged or not.
ConflictStaysActive ==
    Stage \notin {"READY", "MONITORING", "CONFLICT_RESOLVED"} => SourceExceptionFound(Q)

\* The stage CONFLICT_RESOLVED is backed by a resolved conflict.
ResolvedStageHasResolvedException ==
    Stage = "CONFLICT_RESOLVED" => Q.items[Pair].status = "RESOLVED"

-----------------------------------------------------------------------------
Workflow == INSTANCE SessionWorkflow WITH
    run <- clock.resets, stage <- Stage, choice <- E.chosen, moved <- Moved,
    Recommended <- Proposed[Primary],
    SafeManeuvers <- {m \in Maneuvers : Verdict[m] = "SAFE"}

\* The session goes through its stages in order, within one run, and moves the
\* aircraft only when authorized, whatever else happens to its services.
WorkflowFollowed == Workflow!Spec

\* An operator who keeps going ends each run with an outcome: nothing but an
\* unsafe modification, or one whose validation raises, stops the session early.
Settled ==
    \/ Stage \in {"CONFLICT_RESOLVED", "DECISION_REJECTED"}
    \/ Stage = "MODIFICATION_REVALIDATED" /\ E.verdict # "SAFE"
    \/ Stage = "DECISION_MODIFIED" /\ Verdict[E.chosen] = "RAISES"

SessionSettles == <>[]Settled
=============================================================================
