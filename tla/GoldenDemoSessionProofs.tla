----------------------- MODULE GoldenDemoSessionProofs -----------------------
(***************************************************************************)
(* For any scenario, assessments, verdicts and facade times: the session   *)
(* is well-typed, its decision stays backed by the audit log, and an       *)
(* aircraft moves only for a maneuver the log of this run authorizes.  For *)
(* a scenario whose conflict comes (ScenarioAssumption), what the stages   *)
(* promise about the run: the session follows SessionWorkflow, the queue   *)
(* shows the conflict until it is resolved, and a session that can go no   *)
(* further is one that moved its aircraft and did not resolve it.          *)
(***************************************************************************)
EXTENDS GoldenDemoSession, SharedValueProofs

\* No part has seen a run that has not begun, and the target has not seen one
\* that the orchestrators have not.
SeenInOrder == aircraft[Target].observed <= observed /\ observed <= clock.resets

Authorizes(x, m) ==
    /\ x.set = RecommendationSet
    /\ \/ x.type = "ACCEPT" /\ m = Proposed[x.rec]
       \/ x.type = "MODIFY" /\ m = x.maneuver /\ Verdict[m] = "SAFE"

\* What the evidence e of a run claims is borne out by its catalog k, its audit
\* log and the maneuvers applied.
Backed(e, k, log, moved) ==
    /\ e.resolution \in {NoSet, RecommendationSet}
    /\ e.resolution # NoSet => e.resolution \in k.published
    /\ e.decision # None =>
          /\ e.resolution = RecommendationSet
          /\ log.entries # {}
          /\ log.revision = e.logged
          /\ LatestEntry(log).type = e.decision
          /\ LatestEntry(log).set = e.resolution
          /\ Chosen(LatestEntry(log)) = e.chosen
    /\ e.verdict # None => e.decision = "MODIFY" /\ e.verdict = Verdict[e.chosen]
    /\ \A m \in moved : \E x \in log.entries : Authorizes(x, m)

\* The inductive invariant.
SInv == TypeOK /\ SeenInOrder /\ Listed(audit) /\ Backed(E, K, A, Moved)

-----------------------------------------------------------------------------
\* No evidence claims nothing.
LEMMA NoEvidenceFacts ==
    /\ NoEvidence \in Evidences
    /\ EmptyAudit \in Audits /\ EmptyCatalog \in Catalogs /\ Listed(EmptyAudit)
    /\ Backed(NoEvidence, EmptyCatalog, EmptyAudit, {})
  <1>1. [s \in Subjects |-> Omitted] \in Reports
    BY ReportMade
  <1>2. NoEvidence \in Evidences
    BY <1>1 DEF NoEvidence, Evidences
  <1>3. EmptyAudit \in Audits /\ EmptyCatalog \in Catalogs /\ Listed(EmptyAudit)
    BY DEF EmptyAudit, Audits, EmptyCatalog, Catalogs, Listed
  <1>. QED
    BY <1>2, <1>3 DEF NoEvidence, Backed

\* What the orchestrators see is well-typed, and an aircraft they have not
\* brought into this run has not moved in it.
LEMMA ViewFacts ==
    ASSUME SInv
    PROVE  /\ E \in Evidences /\ K \in Catalogs /\ A \in Audits /\ Q \in Queues /\ Listed(A)
           /\ clock \in Clocks /\ clock.resets \in Nat /\ clock.tick \in Nat /\ observed \in Nat
           /\ aircraft[Target] \in Runtimes
           /\ observed # clock.resets =>
                 E = NoEvidence /\ K = EmptyCatalog /\ A = EmptyAudit /\ Moved = {}
           /\ observed = clock.resets =>
                 E = evidence /\ K = catalog /\ A = audit
  <1>1. /\ clock \in Clocks /\ clock.resets \in Nat /\ clock.tick \in Nat
        /\ observed \in Nat /\ aircraft[Target] \in Runtimes
        /\ aircraft[Target].observed \in Nat
    BY ManeuversAssumption DEF SInv, TypeOK, Clocks, Runtimes
  <1>2. E \in Evidences /\ K \in Catalogs /\ A \in Audits /\ Q \in Queues /\ Listed(A)
    BY NoEvidenceFacts, EmptyQueueType DEF SInv, TypeOK, E, K, A, Q, Seen
  <1>3. ASSUME observed # clock.resets
        PROVE  E = NoEvidence /\ K = EmptyCatalog /\ A = EmptyAudit /\ Moved = {}
    <2>1. aircraft[Target].observed # clock.resets
      BY <1>1, <1>3 DEF SInv, SeenInOrder
    <2>2. SyncedRuntime(aircraft[Target], clock).applied = {}
      BY <2>1 DEF SyncedRuntime
    <2>. QED
      BY <1>3, <2>2 DEF E, K, A, Seen, Moved
  <1>. QED
    BY <1>1, <1>2, <1>3 DEF E, K, A, Seen

\* What a stage says of the evidence.
LEMMA StageFacts ==
    ASSUME SInv
    PROVE  /\ Stage = "READY" \/ Stage = "MONITORING" \/ Stage = "CONFLICT_DETECTED" =>
                 E.resolution = NoSet /\ E.decision = None /\ E.verdict = None
           /\ Stage = "RECOMMENDATION_AVAILABLE" =>
                 E.resolution = RecommendationSet /\ E.decision = None /\ E.verdict = None
           /\ Stage = "DECISION_ACCEPTED" => E.decision = "ACCEPT"
           /\ Stage = "DECISION_MODIFIED" => E.decision = "MODIFY"
           /\ Stage = "MODIFICATION_REVALIDATED" => E.decision = "MODIFY" /\ E.verdict # None
  <1>1. E.decision \in DecisionTypes \cup {None}
    BY ViewFacts DEF Evidences
  <1>2. E.resolution \in {NoSet, RecommendationSet} /\ (E.verdict # None => E.decision = "MODIFY")
    BY DEF SInv, Backed
  <1>. QED
    BY <1>1, <1>2 DEF Stage, DecisionTypes, None

\* A maneuver that was decided on is a maneuver.
LEMMA ChosenFacts ==
    ASSUME SInv, E.decision \in {"ACCEPT", "MODIFY"}
    PROVE  /\ observed = clock.resets
           /\ E.chosen \in Maneuvers
           /\ LatestEntry(A) \in A.entries
           /\ E.decision = "ACCEPT" => Authorizes(LatestEntry(A), E.chosen)
           /\ E.decision = "MODIFY" /\ Verdict[E.chosen] = "SAFE"
                 => Authorizes(LatestEntry(A), E.chosen)
  <1>. DEFINE x == LatestEntry(A)
  <1>1. observed = clock.resets
    BY ViewFacts DEF NoEvidence, None
  <1>2. x \in A.entries
    BY ViewFacts, LatestOfListed DEF SInv, Backed, None
  <1>3. x \in Entries
    BY <1>2, ViewFacts DEF Audits
  <1>4. x.type = E.decision /\ x.set = RecommendationSet /\ Chosen(x) = E.chosen
    BY DEF SInv, Backed, None
  <1>. HIDE DEF x
  <1>5. CASE E.decision = "ACCEPT"
    <2>1. E.chosen = Proposed[x.rec] /\ x.rec \in Recommendations
      BY <1>3, <1>4, <1>5 DEF Chosen, Entries
    <2>. QED
      BY <1>1, <1>2, <1>4, <1>5, <2>1, ProposedAssumption DEF Authorizes, x
  <1>6. CASE E.decision = "MODIFY"
    <2>1. E.chosen = x.maneuver /\ x.maneuver \in Maneuvers
      BY <1>3, <1>4, <1>6 DEF Chosen, Entries
    <2>. QED
      BY <1>1, <1>2, <1>4, <1>6, <2>1 DEF Authorizes, x
  <1>. QED
    BY <1>5, <1>6

-----------------------------------------------------------------------------
\* What every step to a checkpoint leaves behind: well-typed parts of the current
\* run, the maneuvers of this run and no others, and a result or none.
LEMMA StepFacts ==
    ASSUME SInv, NEW c \in Clocks, c.resets = clock.resets,
           c.tick \in {0, 70, 75, 90}, Step(c)
    PROVE  /\ clock' \in Clocks /\ timeline' \in Timelines
           /\ scheduler' \in [Schedulers -> SchedulerStates]
           /\ aircraft' \in [Aircraft -> Runtimes] /\ queue' \in Queues
           /\ observed' \in Nat /\ observed' = clock'.resets
           /\ SeenInOrder' /\ Moved' = Moved
           /\ EvidenceAfterStep(c) \in Evidences
           /\ \A log, k : Backed(E, k, log, Moved) => Backed(EvidenceAfterStep(c), k, log, Moved)
           /\ EvidenceAfterStep(c).resolution = E.resolution
           /\ EvidenceAfterStep(c).decision = E.decision
           /\ EvidenceAfterStep(c).verdict = E.verdict
  <1>1. /\ clock' = c /\ observed' = clock.resets
        /\ timeline' = Polled(timeline, c)
        /\ scheduler' = [k \in Schedulers |-> RanIfDue(scheduler[k], c)]
        /\ aircraft' = [a \in Aircraft |-> SyncedRuntime(aircraft[a], c)]
    BY DEF Step
  <1>2. timeline' \in Timelines
    BY <1>1, TimelineTypes DEF SInv, TypeOK
  <1>3. scheduler' \in [Schedulers -> SchedulerStates]
    BY <1>1, SchedulerTypes DEF SInv, TypeOK
  <1>4. aircraft' \in [Aircraft -> Runtimes]
    BY <1>1, SyncedRuntimeType DEF SInv, TypeOK
  <1>5. c.tick \in Nat /\ StepReport(c) \in Reports
    <2>1. Forecast[c.tick] \in Reports
      BY CalibrationAssumption
    <2>2. \A s \in Subjects : Forecast[c.tick][s] \in Assessments[s] \cup {Omitted}
      BY <2>1 DEF Reports
    <2>3. \A s \in Subjects : StepReport(c)[s] \in Assessments[s] \cup {Omitted}
      BY <2>2 DEF StepReport
    <2>4. StepReport(c) = [s \in Subjects |-> StepReport(c)[s]]
      BY DEF StepReport
    <2>. QED
      BY <2>3, <2>4, ReportMade
  <1>6. queue' \in Queues
    <2>1. CASE TimeAccepted(Q, c.tick)
      <3>1. queue' = Refreshed(Q, c.tick, StepReport(c))
        BY <2>1 DEF Step
      <3>. QED
        BY <1>5, <3>1, ViewFacts, RefreshedType
    <2>2. CASE ~TimeAccepted(Q, c.tick)
      <3>1. queue' = Q
        BY <2>2 DEF Step
      <3>. QED
        BY <3>1, ViewFacts
    <2>. QED
      BY <2>1, <2>2
  <1>7. aircraft'[Target] = SyncedRuntime(aircraft[Target], c)
    BY <1>1, ManeuversAssumption
  <1>8. aircraft[Target] \in Runtimes /\ clock \in Clocks /\ clock.resets \in Nat
    BY ViewFacts
  <1>9. SeenInOrder'
    BY <1>1, <1>7, <1>8, SyncedRuntimeType DEF SeenInOrder
  <1>10. Moved' = Moved
    <2>1. SyncedRuntime(aircraft'[Target], clock').applied = SyncedRuntime(aircraft[Target], c).applied
      BY <1>1, <1>7, <1>8, SyncedRuntimeType DEF SyncedRuntime
    <2>2. SyncedRuntime(aircraft[Target], c) = SyncedRuntime(aircraft[Target], clock)
      BY DEF SyncedRuntime
    <2>. QED
      BY <2>1, <2>2 DEF Moved
  <1>11. /\ EvidenceAfterStep(c) \in Evidences
         /\ EvidenceAfterStep(c).resolution = E.resolution
         /\ EvidenceAfterStep(c).decision = E.decision
         /\ EvidenceAfterStep(c).verdict = E.verdict
         /\ EvidenceAfterStep(c).chosen = E.chosen
         /\ EvidenceAfterStep(c).logged = E.logged
    <2>1. E \in Evidences
      BY ViewFacts
    <2>. QED
      BY <1>5, <2>1 DEF EvidenceAfterStep, Evidences
  <1>12. \A log, k : Backed(E, k, log, Moved) => Backed(EvidenceAfterStep(c), k, log, Moved)
    BY <1>11 DEF Backed
  <1>. QED
    BY <1>1, <1>2, <1>3, <1>4, <1>6, <1>8, <1>9, <1>10, <1>11, <1>12

\* Once the reset counts agree, the orchestrators see what there is.
LEMMA ViewAfter ==
    ASSUME observed' = clock'.resets
    PROVE  E' = evidence' /\ K' = catalog' /\ A' = audit'
  BY DEF E, K, A, Seen

\* A step without a result but the report preserves the invariant.
LEMMA PlainStepSInv ==
    ASSUME SInv, NEW c \in Clocks, c.resets = clock.resets,
           c.tick \in {0, 70, 75, 90}, Step(c),
           catalog' = K, audit' = A, evidence' = EvidenceAfterStep(c)
    PROVE  SInv'
  <1>1. E' = EvidenceAfterStep(c) /\ K' = K /\ A' = A
    BY StepFacts, ViewAfter
  <1>2. TypeOK'
    BY StepFacts, ViewFacts DEF TypeOK
  <1>3. Backed(E, K, A, Moved)' 
    BY <1>1, StepFacts DEF SInv
  <1>4. Listed(audit)'
    BY ViewFacts
  <1>. QED
    BY <1>2, <1>3, <1>4, StepFacts DEF SInv

\* The clock of each checkpoint.
LEMMA CheckpointClocks ==
    ASSUME SInv
    PROVE  /\ Checkpoint("READY", 0) => Played(clock).tick = 0
           /\ \A n \in Nat : Ticked(clock, n).state = "RUNNING" =>
                 Ticked(clock, n).tick = clock.tick + n
           /\ Played(clock) \in Clocks /\ Played(clock).resets = clock.resets
           /\ \A n \in Nat : Ticked(clock, n) \in Clocks
                             /\ Ticked(clock, n).resets = clock.resets
  BY ViewFacts DEF Checkpoint, Played, Ticked, Clocks, ClockStates

\* START and the advance to the conflict preserve the invariant.
LEMMA FirstStepsSInv ==
    ASSUME SInv, Start \/ AdvanceToConflict
    PROVE  SInv'
  <1>1. CASE Start
    BY <1>1, CheckpointClocks, PlainStepSInv DEF Start
  <1>2. CASE AdvanceToConflict
    <2>. DEFINE c == Ticked(clock, 70)
    <2>1. c \in Clocks /\ c.resets = clock.resets
      BY CheckpointClocks
    <2>2. clock.tick = 0 /\ c.state = "RUNNING"
      BY <1>2 DEF AdvanceToConflict, Checkpoint, Step
    <2>3. c.tick = 70
      BY <2>2, CheckpointClocks
    <2>4. Step(c) /\ catalog' = K /\ audit' = A /\ evidence' = EvidenceAfterStep(c)
      BY <1>2 DEF AdvanceToConflict
    <2>. HIDE DEF c
    <2>. QED
      BY <2>1, <2>3, <2>4, PlainStepSInv
  <1>. QED
    BY <1>1, <1>2

\* The resolution preserves the invariant: it publishes what it claims.
LEMMA GenerateSInv ==
    ASSUME SInv, GenerateRecommendation
    PROVE  SInv'
  <1>. DEFINE c == Ticked(clock, 5)
              e == EvidenceAfterStep(c)
              resolved == /\ e.step = c.tick
                          /\ SourceExceptionFound(Refreshed(Q, c.tick, StepReport(c)))
                          /\ PublishAccepted(K, RecommendationSet)
  <1>1. /\ Checkpoint("CONFLICT_DETECTED", 70) /\ Step(c)
        /\ catalog' = IF resolved THEN Published(K, RecommendationSet) ELSE K
        /\ evidence' = IF resolved THEN [e EXCEPT !.resolution = RecommendationSet] ELSE e
        /\ audit' = A
    BY DEF GenerateRecommendation
  <1>2. c \in Clocks /\ c.resets = clock.resets
    BY CheckpointClocks
  <1>3. clock.tick = 70 /\ c.state = "RUNNING" /\ Stage = "CONFLICT_DETECTED"
    BY <1>1 DEF Checkpoint, Step
  <1>4. c.tick = 75
    BY <1>3, CheckpointClocks
  <1>. HIDE DEF c, resolved
  <1>5. CASE ~resolved
    BY <1>1, <1>2, <1>4, <1>5, PlainStepSInv
  <1>6. CASE resolved
    <2>1. /\ catalog' = Published(K, RecommendationSet)
          /\ evidence' = [e EXCEPT !.resolution = RecommendationSet]
      BY <1>1, <1>6
    <2>2. e \in Evidences /\ e.decision = None /\ e.verdict = None
      BY <1>1, <1>2, <1>3, <1>4, StepFacts, StageFacts
    <2>3. catalog' \in Catalogs /\ RecommendationSet \in catalog'.published
      BY <2>1, ViewFacts, RecommendationAssumption DEF Published, Catalogs
    <2>. HIDE DEF e
    <2>4. /\ evidence' \in Evidences /\ evidence'.resolution = RecommendationSet
          /\ evidence'.decision = None /\ evidence'.verdict = None
      BY <2>1, <2>2, RecommendationAssumption DEF Evidences
    <2>5. E' = evidence' /\ K' = catalog' /\ A' = A /\ Moved' = Moved
      BY <1>1, <1>2, <1>4, StepFacts, ViewAfter
    <2>6. Backed(E, K, A, Moved)'
      BY <2>3, <2>4, <2>5 DEF SInv, Backed
    <2>7. TypeOK' /\ SeenInOrder'
      BY <1>1, <1>2, <1>4, <2>3, <2>4, StepFacts, ViewFacts DEF TypeOK
    <2>8. Listed(audit)'
      BY <1>1, ViewFacts
    <2>. QED
      BY <2>6, <2>7, <2>8 DEF SInv
  <1>. QED
    BY <1>5, <1>6

\* A decision preserves the invariant: what the session takes for its decision is
\* the entry just recorded.
LEMMA DecideSInv ==
    ASSUME SInv, NEW type \in DecisionTypes, NEW m \in Maneuvers \cup {NoManeuver},
           DecideRecommendation(type, m)
    PROVE  SInv'
  <1>. DEFINE c == Ticked(clock, 15)
              e == EvidenceAfterStep(c)
              log == Decided(A, E.resolution, Primary, type, m, c.tick)
              decided == /\ e.step = c.tick
                         /\ K.current = E.resolution
                         /\ DecideAccepted(A, E.resolution, Primary, type, m, TRUE, c.tick)
  <1>1. /\ Checkpoint("RECOMMENDATION_AVAILABLE", 75) /\ Step(c) /\ catalog' = K
        /\ audit' = IF decided THEN log ELSE A
        /\ evidence' = IF decided THEN DecisionRecorded(e, log) ELSE e
    BY DEF DecideRecommendation
  <1>2. c \in Clocks /\ c.resets = clock.resets
    BY CheckpointClocks
  <1>3. clock.tick = 75 /\ c.state = "RUNNING" /\ Stage = "RECOMMENDATION_AVAILABLE"
    BY <1>1 DEF Checkpoint, Step
  <1>4. c.tick = 90
    BY <1>3, CheckpointClocks
  <1>. HIDE DEF c
  <1>5. CASE ~decided
    BY <1>1, <1>2, <1>4, <1>5, PlainStepSInv
  <1>6. CASE decided
    <2>. DEFINE x == Entry(A, E.resolution, Primary, type, m, c.tick)
    <2>1. E.resolution = RecommendationSet /\ E.resolution \in Sets /\ E.resolution \in K.published
      BY <1>3, StageFacts, RecommendationAssumption, NoManeuverAssumption DEF SInv, Backed
    <2>2. Primary \in Recommendations /\ c.tick \in Nat /\ A \in Audits /\ Listed(A)
      BY <1>4, RecommendationAssumption, HoldsAssumption, ViewFacts
    <2>3. /\ log \in Audits /\ Listed(log) /\ log.entries = A.entries \cup {x}
          /\ log.revision = A.revision + 1 /\ LatestEntry(log) = x
      <3>. DEFINE justified == TRUE
      <3>1. DecideAccepted(A, E.resolution, Primary, type, m, justified, c.tick)
        BY <1>6
      <3>2. justified \in BOOLEAN
        OBVIOUS
      <3>. HIDE DEF decided, e, justified
      <3>. QED
        BY <2>1, <2>2, <3>1, <3>2, DecidedFacts
    <2>4. /\ x.type = type /\ x.set = RecommendationSet /\ Chosen(x) \in Maneuvers \cup {NoManeuver}
      BY <2>1, <2>2, ProposedAssumption DEF Entry, Chosen
    <2>5. audit' = log /\ evidence' = DecisionRecorded(e, log)
      BY <1>1, <1>6
    <2>6. /\ e \in Evidences /\ e.verdict = None
          /\ e.resolution = RecommendationSet
      BY <1>1, <1>2, <1>3, <1>4, <2>1, StepFacts, StageFacts
    <2>. HIDE DEF e, log, x, decided
    <2>7. /\ evidence' = [e EXCEPT !.decision = type, !.chosen = Chosen(x), !.logged = log.revision]
          /\ log.revision \in Nat
      BY <2>2, <2>3, <2>4, <2>5 DEF DecisionRecorded, Audits
    <2>8. /\ evidence' \in Evidences
          /\ evidence'.decision = type /\ evidence'.chosen = Chosen(x)
          /\ evidence'.logged = log.revision
          /\ evidence'.verdict = None /\ evidence'.resolution = RecommendationSet
      BY <2>4, <2>6, <2>7 DEF Evidences
    <2>9. E' = evidence' /\ K' = K /\ A' = log /\ Moved' = Moved
      BY <1>1, <1>2, <1>4, <2>5, StepFacts, ViewAfter
    <2>10. Backed(E, K, A, Moved)'
      <3>1. \A w \in Moved : \E y \in log.entries : Authorizes(y, w)
        BY <2>3 DEF SInv, Backed
      <3>2. Backed(evidence', K, log, Moved)
        BY <2>1, <2>3, <2>4, <2>8, <3>1 DEF Backed
      <3>. QED
        BY <2>9, <3>2
    <2>11. TypeOK' /\ SeenInOrder'
      BY <1>1, <1>2, <1>4, <2>3, <2>5, <2>8, StepFacts, ViewFacts DEF TypeOK
    <2>. QED
      BY <2>3, <2>5, <2>10, <2>11 DEF SInv
  <1>. QED
    BY <1>5, <1>6

-----------------------------------------------------------------------------
\* Isolated validation preserves the invariant: it records its own verdict.
LEMMA RevalidateSInv ==
    ASSUME SInv, RevalidateModifiedManeuver
    PROVE  SInv'
  <1>1. /\ E.decision = "MODIFY"
        /\ evidence' = [E EXCEPT !.verdict = Verdict[E.chosen]]
        /\ UNCHANGED <<clock, timeline, scheduler, aircraft, queue, catalog, audit, observed>>
    BY StageFacts DEF RevalidateModifiedManeuver, Checkpoint, simulation, services
  <1>2. observed = clock.resets /\ Verdict[E.chosen] \in Verdicts /\ E \in Evidences
    BY <1>1, ChosenFacts, ViewFacts, CalibrationAssumption
  <1>3. /\ evidence' \in Evidences
        /\ evidence'.verdict = Verdict[E.chosen] /\ evidence'.chosen = E.chosen
        /\ evidence'.decision = E.decision /\ evidence'.resolution = E.resolution
        /\ evidence'.logged = E.logged
    BY <1>1, <1>2 DEF Evidences
  <1>4. E' = evidence' /\ K' = K /\ A' = A /\ Moved' = Moved
    BY <1>1, <1>2, ViewAfter, ViewFacts DEF Moved
  <1>5. Backed(E, K, A, Moved)'
    <2>1. Backed(evidence', K, A, Moved)
      BY <1>1, <1>3 DEF SInv, Backed
    <2>. QED
      BY <1>4, <2>1
  <1>6. TypeOK' /\ SeenInOrder' /\ Listed(audit)'
    BY <1>1, <1>3 DEF SInv, TypeOK, SeenInOrder
  <1>. QED
    BY <1>5, <1>6 DEF SInv

\* An application preserves the invariant: the log authorizes the maneuver, and
\* that whether or not the recomputed traffic is accepted.
LEMMA ApplySInv ==
    ASSUME SInv, E.decision \in {"ACCEPT", "MODIFY"}, Apply(E.chosen),
           E.decision = "MODIFY" => Verdict[E.chosen] = "SAFE"
    PROVE  SInv'
  <1>. DEFINE m == E.chosen
              r == Anchored(aircraft[Target], clock, clock.tick, m)
  <1>1. /\ aircraft' = [aircraft EXCEPT ![Target] = r]
        /\ queue' = IF TimeAccepted(Q, clock.tick) THEN Refreshed(Q, clock.tick, Outcome[m]) ELSE Q
        /\ evidence' = IF TimeAccepted(Q, clock.tick) THEN [E EXCEPT !.application = m] ELSE E
        /\ UNCHANGED <<clock, timeline, scheduler, catalog, audit, observed>>
    BY DEF Apply
  <1>2. /\ observed = clock.resets /\ m \in Maneuvers /\ m \in Payloads
        /\ LatestEntry(A) \in A.entries /\ Authorizes(LatestEntry(A), m)
    BY ChosenFacts, ManeuversAssumption
  <1>3. /\ E \in Evidences /\ clock.tick \in Nat /\ Outcome[m] \in Reports
        /\ aircraft[Target] \in Runtimes /\ clock \in Clocks /\ clock.resets \in Nat
    BY <1>2, ViewFacts, CalibrationAssumption
  <1>4. /\ r \in Runtimes /\ r.observed = clock.resets
        /\ r.applied = SyncedRuntime(aircraft[Target], clock).applied
                          \cup {[at |-> clock.tick, what |-> m]}
    BY <1>2, <1>3, RuntimeTypes
  <1>. HIDE DEF m, r
  <1>5. /\ evidence' \in Evidences
        /\ evidence'.verdict = E.verdict /\ evidence'.chosen = E.chosen
        /\ evidence'.decision = E.decision /\ evidence'.resolution = E.resolution
        /\ evidence'.logged = E.logged
    BY <1>1, <1>2, <1>3 DEF Evidences
  <1>6. queue' \in Queues
    BY <1>1, <1>3, ViewFacts, RefreshedType
  <1>7. aircraft' \in [Aircraft -> Runtimes] /\ aircraft'[Target] = r
    BY <1>1, <1>4, ManeuversAssumption DEF SInv, TypeOK
  <1>8. E' = evidence' /\ K' = K /\ A' = A
    BY <1>1, <1>2, ViewAfter, ViewFacts
  <1>9. Moved' = Moved \cup {m}
    <2>1. SyncedRuntime(aircraft'[Target], clock') = r
      BY <1>1, <1>4, <1>7 DEF SyncedRuntime
    <2>2. Moved' = {y.what : y \in r.applied}
      BY <2>1 DEF Moved
    <2>. DEFINE S == SyncedRuntime(aircraft[Target], clock).applied
                z == [at |-> clock.tick, what |-> m]
    <2>3. Moved = {y.what : y \in S}
      BY DEF Moved
    <2>4. r.applied = S \cup {z} /\ z.what = m
      BY <1>4
    <2>. HIDE DEF S, z
    <2>5. {y.what : y \in S \cup {z}} = {y.what : y \in S} \cup {z.what}
      OBVIOUS
    <2>. QED
      BY <2>2, <2>3, <2>4, <2>5
  <1>10. Backed(E, K, A, Moved)'
    <2>1. \A w \in Moved \cup {m} : \E y \in A.entries : Authorizes(y, w)
      BY <1>2 DEF SInv, Backed
    <2>2. Backed(evidence', K, A, Moved \cup {m})
      BY <1>5, <2>1 DEF SInv, Backed
    <2>. QED
      BY <1>8, <1>9, <2>2
  <1>11. TypeOK' /\ Listed(audit)'
    BY <1>1, <1>5, <1>6, <1>7 DEF SInv, TypeOK
  <1>12. SeenInOrder'
    BY <1>1, <1>2, <1>3, <1>4, <1>7 DEF SInv, SeenInOrder
  <1>. QED
    BY <1>10, <1>11, <1>12 DEF SInv

-----------------------------------------------------------------------------
\* A read preserves the invariant: it changes nothing the orchestrators can see.
LEMMA GetCurrentSInv ==
    ASSUME SInv, GetCurrent
    PROVE  SInv'
  <1>1. /\ aircraft' = [a \in Aircraft |-> SyncedRuntime(aircraft[a], clock)]
        /\ queue' = Q /\ catalog' = K /\ audit' = A /\ evidence' = E
        /\ observed' = clock.resets
        /\ UNCHANGED <<clock, timeline, scheduler>>
    BY DEF GetCurrent
  <1>2. E' = E /\ K' = K /\ A' = A
    BY <1>1, ViewAfter
  <1>3. /\ aircraft' \in [Aircraft -> Runtimes]
        /\ aircraft'[Target] = SyncedRuntime(aircraft[Target], clock)
    BY <1>1, SyncedRuntimeType, ManeuversAssumption DEF SInv, TypeOK
  <1>4. aircraft'[Target].observed = clock.resets /\ clock.resets \in Nat
    BY <1>3, SyncedRuntimeType, ViewFacts
  <1>5. Moved' = Moved
    BY <1>1, <1>3, <1>4 DEF Moved, SyncedRuntime
  <1>6. Backed(E, K, A, Moved)'
    BY <1>2, <1>5 DEF SInv
  <1>7. TypeOK' /\ Listed(audit)' /\ SeenInOrder'
    BY <1>1, <1>3, <1>4, ViewFacts DEF SInv, TypeOK, SeenInOrder
  <1>. QED
    BY <1>6, <1>7 DEF SInv

\* A reset of the clock, with or without the read that RESET ends with, leaves a
\* run in which nothing has been claimed and nothing has moved.
LEMMA ResetSInv ==
    ASSUME SInv, Reset \/ ClockReset
    PROVE  SInv'
  <1>1. /\ clock' = Restarted(clock) /\ clock' \in Clocks
        /\ clock'.resets = clock.resets + 1 /\ clock.resets \in Nat
        /\ UNCHANGED <<timeline, scheduler>>
    BY ViewFacts, ClockTypes DEF Reset, ClockReset, Restarted
  <1>2. /\ aircraft[Target] \in Runtimes /\ aircraft[Target].observed \in Nat
        /\ aircraft[Target].observed <= observed /\ observed <= clock.resets
        /\ observed \in Nat
    BY ViewFacts DEF SInv, SeenInOrder, Runtimes
  <1>3. SyncedRuntime(aircraft[Target], clock').applied = {}
    BY <1>1, <1>2 DEF SyncedRuntime
  <1>4. CASE Reset
    <2>1. /\ aircraft' = [a \in Aircraft |-> SyncedRuntime(aircraft[a], clock')]
          /\ queue' = EmptyQueue /\ catalog' = EmptyCatalog /\ audit' = EmptyAudit
          /\ evidence' = NoEvidence /\ observed' = clock'.resets
      BY <1>4 DEF Reset
    <2>2. /\ aircraft' \in [Aircraft -> Runtimes]
          /\ aircraft'[Target] = SyncedRuntime(aircraft[Target], clock')
      BY <1>1, <2>1, SyncedRuntimeType, ManeuversAssumption DEF SInv, TypeOK
    <2>3. aircraft'[Target].observed = clock'.resets
      BY <1>1, <1>2, <2>2, SyncedRuntimeType
    <2>4. Moved' = {}
      BY <1>3, <2>2, <2>3 DEF Moved, SyncedRuntime
    <2>5. Backed(E, K, A, Moved)'
      BY <2>1, <2>4, ViewAfter, NoEvidenceFacts
    <2>6. TypeOK' /\ Listed(audit)' /\ SeenInOrder'
      BY <1>1, <2>1, <2>2, <2>3, NoEvidenceFacts, EmptyQueueType
         DEF SInv, TypeOK, SeenInOrder
    <2>. QED
      BY <2>5, <2>6 DEF SInv
  <1>5. CASE ClockReset
    <2>1. UNCHANGED <<aircraft, queue, catalog, audit, evidence, observed>>
      BY <1>5 DEF ClockReset, services
    <2>2. observed' # clock'.resets
      BY <1>1, <1>2, <2>1
    <2>3. E' = NoEvidence /\ K' = EmptyCatalog /\ A' = EmptyAudit /\ Moved' = {}
      BY <1>1, <1>3, <2>1, <2>2 DEF E, K, A, Seen, Moved
    <2>4. Backed(E, K, A, Moved)'
      BY <2>3, NoEvidenceFacts
    <2>5. TypeOK' /\ Listed(audit)' /\ SeenInOrder'
      BY <1>1, <1>2, <2>1 DEF SInv, TypeOK, SeenInOrder
    <2>. QED
      BY <2>4, <2>5 DEF SInv
  <1>. QED
    BY <1>4, <1>5

\* An acknowledgement preserves the invariant: it touches the queue only.
LEMMA AcknowledgeSInv ==
    ASSUME SInv, NEW s \in Subjects, NEW t \in FacadeTimes, AcknowledgeException(s, t)
    PROVE  SInv'
  <1>1. /\ queue' = Acknowledged(queue, s, t) /\ AcknowledgeAccepted(queue, s, t)
        /\ UNCHANGED <<clock, timeline, scheduler, aircraft, catalog, audit, evidence, observed>>
    BY DEF AcknowledgeException, simulation
  <1>2. queue' \in Queues
    BY <1>1, AcknowledgedType, SessionBoundsAssumption DEF SInv, TypeOK
  <1>3. E' = E /\ K' = K /\ A' = A /\ Moved' = Moved
    BY <1>1 DEF E, K, A, Seen, Moved
  <1>4. Backed(E, K, A, Moved)'
    BY <1>3 DEF SInv
  <1>. QED
    BY <1>1, <1>2, <1>4 DEF SInv, TypeOK, SeenInOrder

\* A decision submitted beside the session preserves the invariant: it is refused
\* once the session has decided, and the log only grows.
LEMMA SubmitSInv ==
    ASSUME SInv, NEW type \in DecisionTypes, NEW m \in Maneuvers \cup {NoManeuver},
           NEW t \in FacadeTimes, SubmitDecision(type, m, t)
    PROVE  SInv'
  <1>. DEFINE justified == TRUE
  <1>1. /\ audit' = Decided(audit, RecommendationSet, Primary, type, m, t)
        /\ DecideAccepted(audit, RecommendationSet, Primary, type, m, justified, t)
        /\ UNCHANGED <<clock, timeline, scheduler, aircraft, queue, catalog, evidence, observed>>
    BY DEF SubmitDecision, simulation
  <1>2. /\ Primary \in Recommendations /\ t \in Nat /\ audit \in Audits /\ Listed(audit)
        /\ RecommendationSet \in Sets /\ justified \in BOOLEAN
    BY RecommendationAssumption, HoldsAssumption, SessionBoundsAssumption DEF SInv, TypeOK
  <1>. HIDE DEF justified
  <1>3. /\ audit' \in Audits /\ Listed(audit') /\ audit.entries \subseteq audit'.entries
    BY <1>1, <1>2, DecidedFacts
  <1>4. E' = E /\ K' = K /\ Moved' = Moved
    BY <1>1 DEF E, K, Seen, Moved
  <1>5. A.entries \subseteq A'.entries
    BY <1>1, <1>3 DEF A, Seen
  <1>6. E.decision = None
    <2>. SUFFICES ASSUME E.decision # None PROVE FALSE
      OBVIOUS
    <2>1. A = audit
      BY ViewFacts DEF NoEvidence
    <2>2. LatestEntry(A) \in A.entries /\ LatestEntry(A).set = RecommendationSet
      BY ViewFacts, LatestOfListed DEF SInv, Backed
    <2>3. \A e \in audit.entries : e.set # RecommendationSet
      BY <1>1 DEF DecideAccepted
    <2>. QED
      BY <2>1, <2>2, <2>3
  <1>7. Backed(E, K, A, Moved)'
    <2>1. Backed(E, K, A', Moved)
      BY <1>5, <1>6 DEF SInv, Backed
    <2>. QED
      BY <1>4, <2>1
  <1>8. TypeOK' /\ SeenInOrder'
    BY <1>1, <1>3 DEF SInv, TypeOK, SeenInOrder
  <1>. QED
    BY <1>3, <1>7, <1>8 DEF SInv

-----------------------------------------------------------------------------
\* Every reachable session satisfies the invariant, whatever the scenario, the
\* maneuvers, their verdicts and the times that other clients send.
THEOREM SessionInvariant == Spec => []SInv
  <1>1. Init => SInv
    <2>. SUFFICES ASSUME Init PROVE SInv
      OBVIOUS
    <2>1. /\ clock = InitialClock /\ timeline = InitialTimeline
          /\ scheduler = [k \in Schedulers |-> InitialScheduler]
          /\ aircraft = [a \in Aircraft |-> InitialRuntime]
          /\ queue = EmptyQueue /\ catalog = EmptyCatalog /\ audit = EmptyAudit
          /\ evidence = NoEvidence /\ observed = 0
      BY DEF Init
    <2>2. clock \in Clocks /\ clock.resets = 0 /\ observed = clock.resets
      BY <2>1 DEF InitialClock, Clocks, ClockStates
    <2>3. timeline \in Timelines /\ scheduler \in [Schedulers -> SchedulerStates]
      BY <2>1, EventsType DEF InitialTimeline, Timelines, InitialScheduler, SchedulerStates
    <2>4. aircraft \in [Aircraft -> Runtimes] /\ aircraft[Target] = InitialRuntime
      BY <2>1, InitialRuntimeType, ManeuversAssumption
    <2>5. TypeOK
      BY <2>1, <2>2, <2>3, <2>4, EmptyQueueType, NoEvidenceFacts DEF TypeOK
    <2>6. Moved = {} /\ SeenInOrder
      BY <2>1, <2>2, <2>4 DEF Moved, SyncedRuntime, InitialRuntime, SeenInOrder
    <2>7. E = NoEvidence /\ K = EmptyCatalog /\ A = EmptyAudit
      BY <2>1, <2>2 DEF E, K, A, Seen
    <2>. QED
      BY <2>1, <2>5, <2>6, <2>7, NoEvidenceFacts DEF SInv
  <1>2. SInv /\ [Next]_vars => SInv'
    <2>. SUFFICES ASSUME SInv, [Next]_vars PROVE SInv'
      OBVIOUS
    <2>1. CASE Start \/ AdvanceToConflict
      BY <2>1, FirstStepsSInv
    <2>2. CASE GenerateRecommendation
      BY <2>2, GenerateSInv
    <2>3. CASE AcceptRecommendation \/ RejectRecommendation
      BY <2>3, DecideSInv DEF AcceptRecommendation, RejectRecommendation, DecisionTypes
    <2>4. ASSUME NEW m \in Maneuvers, ModifyRecommendation(m) PROVE SInv'
      BY <2>4, DecideSInv DEF ModifyRecommendation, DecisionTypes
    <2>5. CASE RevalidateModifiedManeuver
      BY <2>5, RevalidateSInv
    <2>6. CASE ApplyApprovedManeuver
      <3>1. E.decision = "ACCEPT" /\ Apply(E.chosen)
        BY <2>6, StageFacts DEF ApplyApprovedManeuver, Checkpoint
      <3>. QED
        BY <3>1, ApplySInv
    <2>7. CASE ApplyValidatedModifiedManeuver
      <3>1. E.decision = "MODIFY" /\ E.verdict = "SAFE" /\ Apply(E.chosen)
        BY <2>7, StageFacts DEF ApplyValidatedModifiedManeuver, Checkpoint
      <3>2. Verdict[E.chosen] = "SAFE"
        BY <3>1 DEF SInv, Backed, None
      <3>. QED
        BY <3>1, <3>2, ApplySInv
    <2>8. CASE Reset \/ ClockReset
      BY <2>8, ResetSInv
    <2>9. CASE GetCurrent
      BY <2>9, GetCurrentSInv
    <2>10. CASE FacadeCall
      BY <2>10, AcknowledgeSInv, SubmitSInv DEF FacadeCall
    <2>11. CASE UNCHANGED vars
      <3>1. UNCHANGED <<clock, timeline, scheduler, aircraft, queue, catalog, audit, evidence, observed>>
        BY <2>11 DEF vars, simulation, services
      <3>2. E' = E /\ K' = K /\ A' = A /\ Moved' = Moved
        BY <3>1 DEF E, K, A, Seen, Moved
      <3>. QED
        BY <3>1, <3>2 DEF SInv, TypeOK, SeenInOrder
    <2>. QED
      BY <2>1, <2>2, <2>3, <2>4, <2>5, <2>6, <2>7, <2>8, <2>9, <2>10, <2>11
      DEF Next, NextCommand
  <1>. QED
    BY <1>1, <1>2, PTL DEF Spec

\* The session and its parts are always well-typed.
THEOREM SessionTypeOK == Spec => []TypeOK
  BY SessionInvariant, PTL DEF SInv

\* An aircraft has moved only for a maneuver that the audit log of this run
\* authorizes.
THEOREM SessionAppliedOnlyWhenAuthorized == Spec => []AppliedOnlyWhenAuthorized
  <1>1. SInv => AppliedOnlyWhenAuthorized
    BY DEF SInv, Backed, Authorizes, AppliedOnlyWhenAuthorized
  <1>. QED
    BY <1>1, SessionInvariant, PTL

\* The session's decision is the last entry of the audit log.
THEOREM SessionEvidenceBacked == Spec => []EvidenceBackedByAudit
  <1>1. SInv => EvidenceBackedByAudit
    BY NoManeuverAssumption, RecommendationAssumption DEF SInv, Backed, EvidenceBackedByAudit
  <1>. QED
    BY <1>1, SessionInvariant, PTL
-----------------------------------------------------------------------------
(* The course of one run, for scenarios with the demo's conflict. *)

\* The anchors applied to the target in this run.
TargetAnchors == SyncedRuntime(aircraft[Target], clock).applied

\* Only a decision moves the target, and the clock stands still once it has.
MovedNow ==
    /\ E.decision = None => TargetAnchors = {}
    /\ \A x \in TargetAnchors : x.at = clock.tick

\* Nothing but the session's resolution is ever published.
CatalogFollows ==
    IF E.resolution = NoSet THEN K = EmptyCatalog ELSE K.current = RecommendationSet

\* At the start of a run the conflict scheduler has served the first slot at most.
SlotsServed ==
    /\ scheduler["conflict"].observed <= clock.resets
    /\ clock.tick = 0 => SyncedScheduler(scheduler["conflict"], clock).lastSlot <= 0

\* The inductive invariant of the guided course, on top of SInv.
CourseInv ==
    /\ MovedNow /\ CatalogFollows /\ SlotsServed
    /\ Stage # "DEVIATION_DETECTED"
    /\ ConflictStaysActive /\ WedgeExplained

\* The slot of T+70 comes after the first.
LEMMA LaterSlot ==
    ASSUME NEW c \in Clocks
    PROVE  /\ c.tick = 0 => Slot(c) = 0
           /\ c.tick = 70 => Slot(c) > 0
  <1>. DEFINE q == c.tick \div Interval
  <1>1. Interval \in Nat /\ Interval > 0 /\ Interval <= 70 /\ c.tick \in Nat
    BY IntervalAssumption, ScenarioAssumption DEF Clocks
  <1>2. PICK p \in Int : p = Interval * q /\ p <= c.tick /\ c.tick < p + Interval
    BY <1>1
  <1>3. q \in Int
    BY <1>1
  <1>. HIDE DEF q
  <1>4. (q <= 0 => p <= 0) /\ (q > 0 => p > 0)
    BY <1>1, <1>2, <1>3
  <1>5. q < 0 => p + Interval <= 0
    <2>1. Interval * (q + 1) = p + Interval
      BY <1>1, <1>2, <1>3
    <2>2. q < 0 => Interval * (q + 1) <= 0
      <3>1. PICK r \in Int : r = q + 1
        BY <1>3
      <3>2. r <= 0 => Interval * r <= 0
        BY <1>1
      <3>. QED
        BY <1>3, <3>1, <3>2
    <2>. QED
      BY <2>1, <2>2
  <1>6. c.tick = 70 => q > 0
    BY <1>1, <1>2, <1>3, <1>4
  <1>7. c.tick = 0 => q = 0
    <2>1. c.tick = 0 => ~(p > 0) /\ ~(p + Interval <= 0)
      BY <1>1, <1>2
    <2>. QED
      BY <1>3, <1>4, <1>5, <2>1
  <1>. QED
    BY <1>6, <1>7 DEF Slot, q

\* The target has moved exactly when an anchor has been applied to it.
LEMMA MovedAnchors == Moved = {x.what : x \in TargetAnchors} /\ (Moved = {} <=> TargetAnchors = {})
  BY DEF Moved, TargetAnchors

\* A refresh that reports the conflict, or says nothing about one that is active,
\* leaves it active.
LEMMA ConflictReported ==
    ASSUME NEW q \in Queues, NEW t \in Nat, NEW r \in Reports,
           r[Pair] = Omitted => SourceExceptionFound(q),
           r[Pair] # Omitted => r[Pair].level \in {"HIGH", "CRITICAL"}
    PROVE  SourceExceptionFound(Refreshed(q, t, r))
  <1>. DEFINE i == q.items[Pair]
              a == r[Pair]
              j == Refreshed(q, t, r).items[Pair]
  <1>1. Pair \in Subjects /\ i \in Items \cup {NoItem}
    BY SubjectsAssumption DEF Queues
  <1>2. CASE a = Omitted
    <2>1. j = i
      BY <1>1, <1>2 DEF Refreshed
    <2>. QED
      BY <1>2, <2>1 DEF SourceExceptionFound
  <1>3. CASE a # Omitted
    <2>1. a \in AssessmentRecords /\ a.level \in {"HIGH", "CRITICAL"}
      BY <1>1, <1>3, ReportFacts
    <2>2. j = ItemAfter(i, a, t)
      BY <1>1, <1>3 DEF Refreshed
    <2>3. j = [assessment |-> a, evaluated |-> t,
               opened |-> IF IsActive(i) THEN i.opened ELSE t,
               updated |-> t, status |-> IF IsActive(i) THEN i.status ELSE "OPEN"]
      BY <2>1, <2>2 DEF ItemAfter, IsCleared
    <2>4. IsActive(i) => i.status \in ActiveStatuses /\ i.opened \in Nat
      BY <1>1 DEF IsActive, Items
    <2>. HIDE DEF a, i
    <2>5. j.assessment = a /\ j.status \in ActiveStatuses /\ j \in Items
      BY <2>1, <2>3, <2>4 DEF Items, Statuses, ActiveStatuses
    <2>6. j # NoItem
      BY <2>5, NoItemAssumption
    <2>. QED
      BY <2>1, <2>5, <2>6 DEF SourceExceptionFound, IsActive
  <1>. QED
    BY <1>2, <1>3

\* The report of a later checkpoint names the conflict, if it is assessed at all.
LEMMA StepReportFacts ==
    ASSUME NEW c \in Clocks, c.tick \in {0, 70, 75, 90}
    PROVE  /\ StepReport(c) \in Reports
           /\ \A s \in Subjects : StepReport(c)[s] \in {Omitted, Forecast[c.tick][s]}
           /\ c.tick # 0 /\ StepReport(c)[Pair] # Omitted
                 => StepReport(c)[Pair].level \in {"HIGH", "CRITICAL"}
           /\ RunIsDue(scheduler["conflict"], c) => StepReport(c)[Pair] = Forecast[c.tick][Pair]
  <1>1. Forecast[c.tick] \in Reports /\ Pair \in Subjects /\ Pair \in Pairs
    BY CalibrationAssumption, SubjectsAssumption
  <1>2. /\ StepReport(c) = [s \in Subjects |-> StepReport(c)[s]]
        /\ \A s \in Subjects : StepReport(c)[s] \in {Omitted, Forecast[c.tick][s]}
        /\ RunIsDue(scheduler["conflict"], c) => StepReport(c)[Pair] = Forecast[c.tick][Pair]
    BY <1>1 DEF StepReport
  <1>3. \A s \in Subjects : StepReport(c)[s] \in Assessments[s] \cup {Omitted}
    BY <1>1, <1>2 DEF Reports
  <1>4. StepReport(c) \in Reports
    BY <1>2, <1>3, ReportMade
  <1>. QED
    BY <1>1, <1>2, <1>4, ScenarioAssumption

\* What a step to a checkpoint does to what the session sees.
LEMMA StepOutcome ==
    ASSUME SInv, CourseInv, NEW c \in Clocks, c.resets = clock.resets,
           clock.tick <= c.tick, c.tick \in {0, 70, 75, 90}, Step(c)
    PROVE  LET e == EvidenceAfterStep(c)
           IN  /\ clock' = c /\ c.state = "RUNNING" /\ observed' = clock'.resets
               /\ SlotsServed' /\ TargetAnchors' = TargetAnchors /\ Moved' = Moved
               /\ \/ Q.at > c.tick /\ Q' = Q /\ e = E
                  \/ /\ ~(Q.at > c.tick) /\ Q' = Refreshed(Q, c.tick, StepReport(c))
                     /\ e.step = c.tick /\ e.report = StepReport(c)
                     /\ e.resolution = E.resolution /\ e.decision = E.decision
                     /\ e.chosen = E.chosen /\ e.verdict = E.verdict
                     /\ e.application = E.application
  <1>. DEFINE e == EvidenceAfterStep(c)
              s == scheduler["conflict"]
  <1>1. /\ clock' = c /\ c.state = "RUNNING" /\ observed' = clock.resets
        /\ scheduler' = [k \in Schedulers |-> RanIfDue(scheduler[k], c)]
        /\ aircraft' = [a \in Aircraft |-> SyncedRuntime(aircraft[a], c)]
        /\ queue' = IF TimeAccepted(Q, c.tick) THEN Refreshed(Q, c.tick, StepReport(c)) ELSE Q
    BY DEF Step
  <1>2. observed' = clock'.resets /\ Moved' = Moved
    BY StepFacts
  <1>3. TargetAnchors' = TargetAnchors
    <2>1. aircraft'[Target] = SyncedRuntime(aircraft[Target], c)
      BY <1>1, ManeuversAssumption
    <2>2. SyncedRuntime(aircraft[Target], c) = SyncedRuntime(aircraft[Target], clock)
      BY DEF SyncedRuntime
    <2>3. SyncedRuntime(aircraft[Target], c).observed = c.resets
      BY SyncedRuntimeType, ViewFacts
    <2>4. SyncedRuntime(aircraft'[Target], c) = SyncedRuntime(aircraft[Target], c)
      BY <2>1, <2>3 DEF SyncedRuntime
    <2>. QED
      BY <1>1, <2>2, <2>4 DEF TargetAnchors
  <1>4. SlotsServed'
    <2>1. s \in SchedulerStates /\ scheduler'["conflict"] = RanIfDue(s, c)
      BY <1>1 DEF SInv, TypeOK, Schedulers
    <2>2. RanIfDue(s, c).observed = c.resets /\ c.resets \in Nat
      BY <2>1, SchedulerTypes DEF Clocks
    <2>3. SyncedScheduler(RanIfDue(s, c), c) = RanIfDue(s, c)
      BY <2>2 DEF SyncedScheduler
    <2>4. ASSUME c.tick = 0 PROVE RanIfDue(s, c).lastSlot <= 0
      <3>1. Slot(c) = 0
        BY <2>4, LaterSlot
      <3>2. SyncedScheduler(s, c).lastSlot \in Nat \cup {NoSlot}
        BY <2>1, SchedulerTypes DEF SchedulerStates
      <3>3. CASE RunIsDue(s, c)
        BY <3>1, <3>3 DEF RanIfDue
      <3>4. CASE ~RunIsDue(s, c)
        <4>1. RanIfDue(s, c) = SyncedScheduler(s, c)
          BY <3>4 DEF RanIfDue
        <4>2. clock.tick = 0
          BY <2>4, ViewFacts
        <4>3. SyncedScheduler(s, c) = SyncedScheduler(s, clock)
          BY DEF SyncedScheduler
        <4>. QED
          BY <4>1, <4>2, <4>3 DEF CourseInv, SlotsServed
      <3>. QED
        BY <3>3, <3>4
    <2>. QED
      BY <1>1, <2>1, <2>2, <2>3, <2>4 DEF SlotsServed
  <1>5. Q' = queue'
    BY <1>2 DEF Q, Seen
  <1>6. Q.at \in Nat \cup {NoTime} /\ c.tick \in Nat
    BY ViewFacts DEF Queues
  <1>7. CASE TimeAccepted(Q, c.tick)
    <2>1. e = [E EXCEPT !.step = c.tick, !.report = StepReport(c)] /\ E \in Evidences
      BY <1>7, ViewFacts DEF EvidenceAfterStep
    <2>2. /\ e.step = c.tick /\ e.report = StepReport(c)
          /\ e.resolution = E.resolution /\ e.decision = E.decision
          /\ e.chosen = E.chosen /\ e.verdict = E.verdict
          /\ e.application = E.application
      BY <2>1 DEF Evidences
    <2>3. ~(Q.at > c.tick)
      BY <1>6, <1>7 DEF TimeAccepted, NoTime
    <2>4. Q' = Refreshed(Q, c.tick, StepReport(c))
      BY <1>1, <1>5, <1>7, Zenon
    <2>. QED
      BY <1>1, <1>2, <1>3, <1>4, <2>2, <2>3, <2>4
  <1>8. CASE ~TimeAccepted(Q, c.tick)
    <2>1. Q.at > c.tick /\ Q' = Q /\ e = E
      BY <1>1, <1>5, <1>6, <1>8 DEF TimeAccepted, EvidenceAfterStep, NoTime
    <2>. QED
      BY <1>1, <1>2, <1>3, <1>4, <2>1
  <1>. QED
    BY <1>7, <1>8

-----------------------------------------------------------------------------
(* Every step keeps the course and follows the workflow. *)

\* What a step looks like in the workflow: one of its steps, or none.
WorkflowStep == Workflow!Next \/ UNCHANGED Workflow!vars

LEMMA ElapsedFacts ==
    /\ Elapsed("READY") = 0 /\ Elapsed("MONITORING") = 0
    /\ Elapsed("CONFLICT_DETECTED") = 70 /\ Elapsed("RECOMMENDATION_AVAILABLE") = 75
    /\ Elapsed("DECISION_ACCEPTED") = 90 /\ Elapsed("DECISION_MODIFIED") = 90
    /\ Elapsed("DECISION_REJECTED") = 90 /\ Elapsed("MODIFICATION_REVALIDATED") = 90
    /\ Elapsed("CONFLICT_RESOLVED") = 90
  BY DEF Elapsed

\* Until a maneuver is reported applied, none is.
LEMMA NotYetApplied == Stage # "CONFLICT_RESOLVED" => E.application = NoManeuver
  BY DEF Stage

\* A step that changes nothing the orchestrators see keeps the stage.
LEMMA SameView ==
    ASSUME E' = E, Moved' = Moved, clock'.resets = clock.resets
    PROVE  Stage' = Stage /\ WorkflowStep
  BY DEF Stage, WorkflowStep, Workflow!vars

\* Steps that leave the clock and the evidence alone keep the course.
LEMMA IdleCourse ==
    ASSUME CourseInv, E' = E, K' = K, TargetAnchors' = TargetAnchors,
           clock' = clock, scheduler' = scheduler,
           SourceExceptionFound(Q) => SourceExceptionFound(Q'),
           Q.at > clock.tick => Q'.at > clock.tick,
           E.decision = None /\ A.entries # {} => A'.entries # {}
    PROVE  CourseInv' /\ WorkflowStep
  <1>1. Moved' = Moved
    BY MovedAnchors DEF Moved, TargetAnchors
  <1>2. Stage' = Stage /\ WorkflowStep
    BY <1>1, SameView
  <1>3. MovedNow' /\ CatalogFollows' /\ SlotsServed' /\ Stage' # "DEVIATION_DETECTED"
    BY <1>2 DEF CourseInv, MovedNow, CatalogFollows, SlotsServed
  <1>4. ConflictStaysActive'
    BY <1>2 DEF CourseInv, ConflictStaysActive
  <1>5. WedgeExplained'
    BY <1>1, <1>2 DEF CourseInv, WedgeExplained, AtCheckpoint
  <1>. QED
    BY <1>2, <1>3, <1>4, <1>5 DEF CourseInv

\* A read of the session keeps the course.
LEMMA GetCurrentCourse ==
    ASSUME SInv, CourseInv, GetCurrent
    PROVE  CourseInv' /\ WorkflowStep
  <1>1. /\ aircraft' = [a \in Aircraft |-> SyncedRuntime(aircraft[a], clock)]
        /\ queue' = Q /\ catalog' = K /\ audit' = A /\ evidence' = E
        /\ observed' = clock.resets /\ clock' = clock /\ scheduler' = scheduler
    BY DEF GetCurrent
  <1>2. E' = E /\ K' = K /\ A' = A /\ Q' = Q
    BY <1>1 DEF E, K, A, Q, Seen
  <1>3. TargetAnchors' = TargetAnchors
    <2>1. aircraft'[Target] = SyncedRuntime(aircraft[Target], clock)
      BY <1>1, ManeuversAssumption
    <2>2. SyncedRuntime(aircraft[Target], clock).observed = clock.resets
      BY SyncedRuntimeType, ViewFacts
    <2>. QED
      BY <1>1, <2>1, <2>2 DEF TargetAnchors, SyncedRuntime
  <1>. QED
    BY <1>1, <1>2, <1>3, IdleCourse

\* An acknowledgement keeps the course: the conflict stays active and the time of
\* the queue does not go back.
LEMMA AcknowledgeCourse ==
    ASSUME SInv, CourseInv, NEW s \in Subjects, NEW t \in FacadeTimes, AcknowledgeException(s, t)
    PROVE  CourseInv' /\ WorkflowStep
  <1>1. /\ queue' = Acknowledged(queue, s, t) /\ AcknowledgeAccepted(queue, s, t)
        /\ UNCHANGED <<clock, timeline, scheduler, aircraft, catalog, audit, evidence, observed>>
    BY DEF AcknowledgeException, simulation
  <1>2. E' = E /\ K' = K /\ A' = A /\ TargetAnchors' = TargetAnchors
    BY <1>1 DEF E, K, A, Seen, TargetAnchors
  <1>3. CASE observed # clock.resets
    <2>1. Q' = Q
      BY <1>1, <1>3 DEF Q, Seen
    <2>. QED
      BY <1>1, <1>2, <2>1, IdleCourse
  <1>4. CASE observed = clock.resets
    <2>1. Q = queue /\ Q' = Acknowledged(Q, s, t) /\ AcknowledgeAccepted(Q, s, t) /\ Q \in Queues
      BY <1>1, <1>4, ViewFacts DEF Q, Seen
    <2>2. t >= Q.at /\ Q'.at = t /\ t \in Nat /\ Q.at \in Nat \cup {NoTime} /\ clock.tick \in Nat
      BY <2>1, SessionBoundsAssumption, ViewFacts DEF Queues, Acknowledged, AcknowledgeAccepted, TimeAccepted
    <2>3. Q.at > clock.tick => Q'.at > clock.tick
      BY <2>2 DEF NoTime
    <2>4. SourceExceptionFound(Q) => SourceExceptionFound(Q')
      <3>1. /\ Pair \in Subjects /\ Q.items \in [Subjects -> Items \cup {NoItem}]
            /\ Q.items[s] \in Items /\ IsActive(Q.items[s])
        BY <2>1, SubjectsAssumption DEF Queues, AcknowledgeAccepted, IsActive
      <3>2. CASE Q.items[s].status = "ACKNOWLEDGED"
        <4>1. Q'.items = Q.items
          BY <2>1, <3>2 DEF Acknowledged
        <4>. QED
          BY <4>1 DEF SourceExceptionFound
      <3>3. CASE Q.items[s].status # "ACKNOWLEDGED"
        <4>1. Q'.items = [Q.items EXCEPT ![s].status = "ACKNOWLEDGED", ![s].updated = t]
          BY <2>1, <3>3 DEF Acknowledged
        <4>2. CASE Pair = s
          <5>1. /\ Q'.items[Pair].status = "ACKNOWLEDGED"
                /\ Q'.items[Pair].assessment = Q.items[Pair].assessment
                /\ Q'.items[Pair] \in Items
            BY <2>2, <3>1, <4>1, <4>2 DEF Items, Statuses, ActiveStatuses
          <5>. QED
            BY <5>1, NoItemAssumption DEF SourceExceptionFound, IsActive, ActiveStatuses
        <4>3. CASE Pair # s
          <5>1. Q'.items[Pair] = Q.items[Pair]
            BY <3>1, <4>1, <4>3
          <5>. QED
            BY <5>1 DEF SourceExceptionFound
        <4>. QED
          BY <4>2, <4>3
      <3>. QED
        BY <3>2, <3>3
    <2>. QED
      BY <1>1, <1>2, <2>3, <2>4, IdleCourse
  <1>. QED
    BY <1>3, <1>4

\* A decision submitted beside the session keeps the course.
LEMMA SubmitCourse ==
    ASSUME SInv, CourseInv, NEW type \in DecisionTypes, NEW m \in Maneuvers \cup {NoManeuver},
           NEW t \in FacadeTimes, SubmitDecision(type, m, t)
    PROVE  CourseInv' /\ WorkflowStep
  <1>1. /\ audit' = Decided(audit, RecommendationSet, Primary, type, m, t)
        /\ UNCHANGED <<clock, timeline, scheduler, aircraft, queue, catalog, evidence, observed>>
    BY DEF SubmitDecision, simulation
  <1>2. E' = E /\ K' = K /\ Q' = Q /\ TargetAnchors' = TargetAnchors
    BY <1>1 DEF E, K, Q, Seen, TargetAnchors
  <1>3. A.entries # {} => A'.entries # {}
    BY <1>1 DEF A, Seen, Decided
  <1>. QED
    BY <1>1, <1>2, <1>3, IdleCourse

\* A reset begins a new run of the workflow.
LEMMA ResetCourse ==
    ASSUME SInv, CourseInv, Reset \/ ClockReset
    PROVE  CourseInv' /\ WorkflowStep
  <1>1. /\ clock' = Restarted(clock) /\ clock'.resets = clock.resets + 1 /\ clock'.tick = 0
        /\ clock.resets \in Nat /\ scheduler' = scheduler
    BY ViewFacts DEF Reset, ClockReset, Restarted
  <1>2. E' = NoEvidence /\ K' = EmptyCatalog /\ TargetAnchors' = {}
    <2>1. /\ aircraft[Target] \in Runtimes /\ aircraft[Target].observed \in Nat
          /\ aircraft[Target].observed <= observed /\ observed <= clock.resets
          /\ observed \in Nat
      BY ViewFacts DEF SInv, SeenInOrder, Runtimes
    <2>2. SyncedRuntime(aircraft[Target], clock').applied = {}
      BY <1>1, <2>1 DEF SyncedRuntime
    <2>3. CASE Reset
      <3>1. /\ aircraft' = [a \in Aircraft |-> SyncedRuntime(aircraft[a], clock')]
            /\ catalog' = EmptyCatalog /\ evidence' = NoEvidence /\ observed' = clock'.resets
        BY <2>3 DEF Reset
      <3>2. aircraft'[Target] = SyncedRuntime(aircraft[Target], clock')
        BY <3>1, ManeuversAssumption
      <3>3. TargetAnchors' = {}
        BY <2>2, <3>2 DEF TargetAnchors, SyncedRuntime
      <3>. QED
        BY <3>1, <3>3 DEF E, K, Seen
    <2>4. CASE ClockReset
      <3>1. UNCHANGED <<aircraft, catalog, evidence, observed>>
        BY <2>4 DEF ClockReset, services
      <3>2. observed' # clock'.resets
        BY <1>1, <2>1, <3>1
      <3>. QED
        BY <2>2, <3>1, <3>2 DEF E, K, Seen, TargetAnchors
    <2>. QED
      BY <2>3, <2>4
  <1>3. Stage' = "READY" /\ Moved' = {} /\ E'.chosen = NoManeuver
    <2>1. /\ E'.application = NoManeuver /\ E'.verdict = None /\ E'.decision = None
          /\ E'.resolution = NoSet /\ E'.step = NoStep /\ E'.chosen = NoManeuver
      BY <1>2 DEF NoEvidence
    <2>2. Stage' = "READY"
      BY <2>1 DEF Stage, None
    <2>3. Moved' = {}
      BY <1>2 DEF Moved, TargetAnchors
    <2>. QED
      BY <2>1, <2>2, <2>3
  <1>4. WorkflowStep
    BY <1>1, <1>3 DEF WorkflowStep, Workflow!Next, Workflow!NewRun
  <1>5. MovedNow' /\ CatalogFollows'
    BY <1>2 DEF MovedNow, CatalogFollows, NoEvidence
  <1>6. SlotsServed'
    <2>1. scheduler["conflict"].observed \in Nat /\ scheduler["conflict"].observed <= clock.resets
      BY DEF SInv, TypeOK, SchedulerStates, Schedulers, CourseInv, SlotsServed
    <2>. QED
      BY <1>1, <2>1 DEF SlotsServed, SyncedScheduler, NoSlot
  <1>7. ConflictStaysActive' /\ WedgeExplained'
    BY <1>1, <1>2, <1>3, ElapsedFacts DEF ConflictStaysActive, WedgeExplained, AtCheckpoint, NoEvidence
  <1>. QED
    BY <1>3, <1>4, <1>5, <1>6, <1>7 DEF CourseInv

\* A step to a checkpoint that the queue refuses keeps the course: the stage stays
\* behind the clock, because the queue is ahead of it.
LEMMA RefusedCourse ==
    ASSUME SInv, CourseInv, NEW c \in Clocks, c.resets = clock.resets,
           clock.tick <= c.tick, c.tick \in {0, 70, 75, 90}, Step(c),
           Q.at > c.tick, E.decision = None,
           catalog' = K, evidence' = EvidenceAfterStep(c)
    PROVE  CourseInv' /\ WorkflowStep
  <1>1. /\ clock' = c /\ SlotsServed' /\ TargetAnchors' = TargetAnchors /\ Moved' = Moved
        /\ Q' = Q /\ E' = E /\ K' = K
    BY StepOutcome, ViewAfter
  <1>2. Stage' = Stage /\ WorkflowStep
    BY <1>1, SameView
  <1>3. MovedNow' /\ CatalogFollows'
    BY <1>1 DEF CourseInv, MovedNow, CatalogFollows
  <1>4. ConflictStaysActive' /\ WedgeExplained'
    BY <1>1, <1>2 DEF CourseInv, ConflictStaysActive, WedgeExplained
  <1>. QED
    BY <1>1, <1>2, <1>3, <1>4 DEF CourseInv

\* What a step to a checkpoint adds to the evidence before it is used further.
LEMMA AcceptedStep ==
    ASSUME SInv, CourseInv, NEW c \in Clocks, c.resets = clock.resets,
           clock.tick <= c.tick, c.tick \in {0, 70, 75, 90}, Step(c), ~(Q.at > c.tick),
           E.decision = None
    PROVE  LET e == EvidenceAfterStep(c)
           IN  /\ clock' = c /\ observed' = clock'.resets /\ SlotsServed'
               /\ TargetAnchors = {} /\ TargetAnchors' = {} /\ Moved = {} /\ Moved' = {}
               /\ Q' = Refreshed(Q, c.tick, StepReport(c)) /\ Q \in Queues /\ c.tick \in Nat
               /\ e.step = c.tick /\ e.report = StepReport(c)
               /\ e.resolution = E.resolution /\ e.decision = None
               /\ e.chosen = E.chosen /\ e.verdict = E.verdict
               /\ e.application = E.application
  BY StepOutcome, ViewFacts, MovedAnchors DEF CourseInv, MovedNow

\* START proceeds to MONITORING, or is refused.
LEMMA StartCourse ==
    ASSUME SInv, CourseInv, Start
    PROVE  CourseInv' /\ WorkflowStep
  <1>. DEFINE c == Played(clock)
  <1>1. /\ Stage = "READY" /\ clock.tick = 0 /\ Step(c) /\ catalog' = K /\ audit' = A
        /\ evidence' = EvidenceAfterStep(c)
    BY DEF Start, Checkpoint
  <1>2. c \in Clocks /\ c.resets = clock.resets /\ c.tick = 0
    BY <1>1, CheckpointClocks DEF Start
  <1>3. /\ E.resolution = NoSet /\ E.decision = None /\ E.verdict = None
        /\ E.application = NoManeuver
    BY <1>1, StageFacts, NotYetApplied
  <1>. HIDE DEF c
  <1>4. CASE Q.at > c.tick
    BY <1>1, <1>2, <1>3, <1>4, RefusedCourse
  <1>5. CASE ~(Q.at > c.tick)
    <2>1. /\ clock' = c /\ SlotsServed' /\ TargetAnchors' = {} /\ Moved = {} /\ Moved' = {}
          /\ E' = evidence' /\ K' = K
          /\ E'.step = 0 /\ E'.report = StepReport(c) /\ E'.resolution = NoSet
          /\ E'.decision = None /\ E'.chosen = E.chosen /\ E'.verdict = None
          /\ E'.application = NoManeuver
      BY <1>1, <1>2, <1>3, <1>5, AcceptedStep, ViewAfter
    <2>2. Stage' = "MONITORING"
      <3>1. \A s \in Subjects : StepReport(c)[s] \in {Omitted, Forecast[0][s]}
        BY <1>2, StepReportFacts
      <3>2. ~Reported(E'.report, {"HIGH", "CRITICAL"} \cup (PriorityLevels \ {"ROUTINE"}))
        BY <2>1, <3>1, ScenarioAssumption DEF Reported
      <3>3. /\ ~Reported(E'.report, {"HIGH", "CRITICAL"})
            /\ ~Reported(E'.report, PriorityLevels \ {"ROUTINE"})
        BY <3>2 DEF Reported
      <3>. QED
        BY <2>1, <3>3 DEF Stage, None, NoStep
    <2>3. WorkflowStep
      BY <1>1, <1>2, <2>1, <2>2 DEF WorkflowStep, Workflow!Next, Workflow!Proceed
    <2>4. MovedNow' /\ CatalogFollows' /\ ConflictStaysActive'
      BY <1>3, <2>1, <2>2 DEF MovedNow, CourseInv, CatalogFollows, ConflictStaysActive
    <2>5. WedgeExplained'
      BY <1>2, <2>1, <2>2, ElapsedFacts DEF WedgeExplained, AtCheckpoint
    <2>. QED
      BY <2>1, <2>2, <2>3, <2>4, <2>5 DEF CourseInv
  <1>. QED
    BY <1>4, <1>5

\* The advance proceeds to CONFLICT_DETECTED, or is refused: the conflict scheduler
\* is due at T+70 and the scenario has its conflict there.
LEMMA AdvanceCourse ==
    ASSUME SInv, CourseInv, AdvanceToConflict
    PROVE  CourseInv' /\ WorkflowStep
  <1>. DEFINE c == Ticked(clock, 70)
  <1>1. /\ Stage = "MONITORING" /\ clock.tick = 0 /\ Step(c) /\ catalog' = K /\ audit' = A
        /\ evidence' = EvidenceAfterStep(c) /\ c.state = "RUNNING"
    BY DEF AdvanceToConflict, Checkpoint, Step
  <1>2. c \in Clocks /\ c.resets = clock.resets /\ c.tick = 70
    BY <1>1, CheckpointClocks
  <1>3. /\ E.resolution = NoSet /\ E.decision = None /\ E.verdict = None
        /\ E.application = NoManeuver
    BY <1>1, StageFacts, NotYetApplied
  <1>. HIDE DEF c
  <1>4. CASE Q.at > c.tick
    BY <1>1, <1>2, <1>3, <1>4, RefusedCourse
  <1>5. CASE ~(Q.at > c.tick)
    <2>1. /\ clock' = c /\ SlotsServed' /\ TargetAnchors' = {} /\ Moved = {} /\ Moved' = {}
          /\ E' = evidence' /\ K' = K /\ Q' = Refreshed(Q, 70, StepReport(c)) /\ Q \in Queues
          /\ E'.step = 70 /\ E'.report = StepReport(c) /\ E'.resolution = NoSet
          /\ E'.decision = None /\ E'.chosen = E.chosen /\ E'.verdict = None
          /\ E'.application = NoManeuver
      BY <1>1, <1>2, <1>3, <1>5, AcceptedStep, ViewAfter
    <2>2. RunIsDue(scheduler["conflict"], c)
      <3>. DEFINE s == scheduler["conflict"]
      <3>1. SyncedScheduler(s, c) = SyncedScheduler(s, clock)
        BY <1>2 DEF SyncedScheduler
      <3>2. SyncedScheduler(s, c).lastSlot <= 0
        BY <1>1, <3>1 DEF CourseInv, SlotsServed
      <3>3. s \in SchedulerStates
        BY DEF SInv, TypeOK, Schedulers
      <3>4. SyncedScheduler(s, c).lastSlot \in Int
        BY <1>2, <3>3, SchedulerTypes DEF SchedulerStates, NoSlot
      <3>5. Slot(c) > 0 /\ Slot(c) \in Nat
        BY <1>2, LaterSlot, SlotType
      <3>. QED
        BY <1>1, <3>2, <3>4, <3>5 DEF RunIsDue
    <2>3. /\ Pair \in Subjects /\ StepReport(c) \in Reports /\ StepReport(c)[Pair] # Omitted
          /\ StepReport(c)[Pair].level \in {"HIGH", "CRITICAL"}
      BY <1>2, <2>2, StepReportFacts, ScenarioAssumption, SubjectsAssumption
    <2>4. Stage' = "CONFLICT_DETECTED"
      <3>1. Reported(E'.report, {"HIGH", "CRITICAL"})
        BY <2>1, <2>3 DEF Reported
      <3>. QED
        BY <2>1, <3>1 DEF Stage, None, NoStep
    <2>5. WorkflowStep
      BY <1>1, <1>2, <2>1, <2>4 DEF WorkflowStep, Workflow!Next, Workflow!Proceed
    <2>6. MovedNow' /\ CatalogFollows'
      BY <1>3, <2>1 DEF MovedNow, CourseInv, CatalogFollows
    <2>7. ConflictStaysActive'
      BY <2>1, <2>3, ConflictReported DEF ConflictStaysActive
    <2>8. WedgeExplained'
      BY <1>2, <2>1, <2>4, ElapsedFacts DEF WedgeExplained, AtCheckpoint
    <2>. QED
      BY <2>1, <2>4, <2>5, <2>6, <2>7, <2>8 DEF CourseInv
  <1>. QED
    BY <1>4, <1>5

\* A step at a later stage keeps the conflict active.
LEMMA LaterStepKeepsConflict ==
    ASSUME SInv, CourseInv, NEW c \in Clocks, c.tick \in {75, 90},
           Stage \notin {"READY", "MONITORING", "CONFLICT_RESOLVED"}
    PROVE  SourceExceptionFound(Refreshed(Q, c.tick, StepReport(c)))
  <1>1. SourceExceptionFound(Q) /\ Q \in Queues
    BY ViewFacts DEF CourseInv, ConflictStaysActive
  <1>2. /\ StepReport(c) \in Reports /\ c.tick \in Nat
        /\ StepReport(c)[Pair] # Omitted => StepReport(c)[Pair].level \in {"HIGH", "CRITICAL"}
    BY StepReportFacts
  <1>. QED
    BY <1>1, <1>2, ConflictReported

\* The resolution proceeds to RECOMMENDATION_AVAILABLE, or its step is refused:
\* once the step succeeds, the conflict is found and the catalog is empty.
LEMMA GenerateCourse ==
    ASSUME SInv, CourseInv, GenerateRecommendation
    PROVE  CourseInv' /\ WorkflowStep
  <1>. DEFINE c == Ticked(clock, 5)
              e == EvidenceAfterStep(c)
              resolved == /\ e.step = c.tick
                          /\ SourceExceptionFound(Refreshed(Q, c.tick, StepReport(c)))
                          /\ PublishAccepted(K, RecommendationSet)
  <1>1. /\ Stage = "CONFLICT_DETECTED" /\ clock.tick = 70 /\ Step(c) /\ c.state = "RUNNING"
        /\ catalog' = IF resolved THEN Published(K, RecommendationSet) ELSE K
        /\ evidence' = IF resolved THEN [e EXCEPT !.resolution = RecommendationSet] ELSE e
        /\ E.step # c.tick
    BY DEF GenerateRecommendation, Checkpoint, Step
  <1>2. c \in Clocks /\ c.resets = clock.resets /\ c.tick = 75
    BY <1>1, CheckpointClocks
  <1>3. /\ E.resolution = NoSet /\ E.decision = None /\ E.verdict = None
        /\ E.application = NoManeuver /\ K = EmptyCatalog
    BY <1>1, StageFacts, NotYetApplied DEF CourseInv, CatalogFollows
  <1>. HIDE DEF c
  <1>4. CASE Q.at > c.tick
    <2>1. e = E
      BY <1>1, <1>2, <1>4, StepOutcome
    <2>2. ~resolved
      BY <1>1, <2>1
    <2>3. catalog' = K /\ evidence' = e
      BY <1>1, <2>2
    <2>. QED
      BY <1>1, <1>2, <1>3, <1>4, <2>3, RefusedCourse
  <1>5. CASE ~(Q.at > c.tick)
    <2>1. /\ clock' = c /\ observed' = clock'.resets /\ SlotsServed'
          /\ TargetAnchors' = {} /\ Moved = {} /\ Moved' = {}
          /\ Q' = Refreshed(Q, c.tick, StepReport(c))
          /\ e.step = c.tick /\ e.decision = None /\ e.chosen = E.chosen /\ e.verdict = None
          /\ e.application = NoManeuver
      BY <1>1, <1>2, <1>3, <1>5, AcceptedStep
    <2>2. SourceExceptionFound(Q')
      BY <1>1, <1>2, <2>1, LaterStepKeepsConflict
    <2>3. PublishAccepted(K, RecommendationSet)
      BY <1>3 DEF PublishAccepted, EmptyCatalog
    <2>4. /\ catalog' = Published(K, RecommendationSet)
          /\ evidence' = [e EXCEPT !.resolution = RecommendationSet]
      BY <1>1, <2>1, <2>2, <2>3
    <2>5. e \in Evidences
      BY <1>1, <1>2, StepFacts
    <2>. HIDE DEF e, resolved
    <2>6. /\ evidence'.resolution = RecommendationSet /\ evidence'.decision = None
          /\ evidence'.verdict = None /\ evidence'.application = NoManeuver
          /\ evidence'.chosen = E.chosen
      BY <2>1, <2>4, <2>5 DEF Evidences
    <2>7. E' = evidence' /\ K' = catalog' /\ RecommendationSet # NoSet
      BY <2>1, ViewAfter, RecommendationAssumption, NoManeuverAssumption
    <2>8. Stage' = "RECOMMENDATION_AVAILABLE"
      BY <2>6, <2>7 DEF Stage, None
    <2>9. WorkflowStep
      BY <1>1, <1>2, <2>1, <2>6, <2>7, <2>8 DEF WorkflowStep, Workflow!Next, Workflow!Proceed
    <2>10. MovedNow' /\ CatalogFollows'
      BY <2>1, <2>4, <2>6, <2>7 DEF MovedNow, CatalogFollows, Published
    <2>11. ConflictStaysActive' /\ WedgeExplained'
      BY <1>2, <2>1, <2>2, <2>6, <2>7, <2>8, ElapsedFacts
      DEF ConflictStaysActive, WedgeExplained, AtCheckpoint
    <2>. QED
      BY <2>1, <2>8, <2>9, <2>10, <2>11 DEF CourseInv
  <1>. QED
    BY <1>4, <1>5

\* A decision is recorded with the stage it leads to; or its step is refused; or the
\* log refuses it, and then the log is no longer empty.
LEMMA DecideCourse ==
    ASSUME SInv, CourseInv, NEW type \in DecisionTypes, NEW m \in Maneuvers \cup {NoManeuver},
           DecideRecommendation(type, m)
    PROVE  CourseInv' /\ WorkflowStep
  <1>. DEFINE c == Ticked(clock, 15)
              e == EvidenceAfterStep(c)
              log == Decided(A, E.resolution, Primary, type, m, c.tick)
              decided == /\ e.step = c.tick
                         /\ K.current = E.resolution
                         /\ DecideAccepted(A, E.resolution, Primary, type, m, TRUE, c.tick)
  <1>1. /\ Stage = "RECOMMENDATION_AVAILABLE" /\ clock.tick = 75 /\ Step(c)
        /\ c.state = "RUNNING" /\ E.step # c.tick
        /\ WellFormed(E.resolution, Primary, type, m, TRUE)
        /\ catalog' = K /\ audit' = IF decided THEN log ELSE A
        /\ evidence' = IF decided THEN DecisionRecorded(e, log) ELSE e
    BY DEF DecideRecommendation, Checkpoint, Step
  <1>2. c \in Clocks /\ c.resets = clock.resets /\ c.tick = 90
    BY <1>1, CheckpointClocks
  <1>3. /\ E.resolution = RecommendationSet /\ E.decision = None /\ E.verdict = None
        /\ E.application = NoManeuver /\ RecommendationSet # NoSet
        /\ K.current = RecommendationSet
    BY <1>1, StageFacts, NotYetApplied, RecommendationAssumption, NoManeuverAssumption
       DEF CourseInv, CatalogFollows
  <1>. HIDE DEF c
  <1>4. CASE Q.at > c.tick
    <2>1. e = E
      BY <1>1, <1>2, <1>4, StepOutcome
    <2>2. ~decided
      BY <1>1, <2>1
    <2>3. catalog' = K /\ evidence' = e
      BY <1>1, <2>2
    <2>. QED
      <3>1. Step(c) /\ E.decision = None /\ clock.tick <= c.tick /\ c.tick \in {0, 70, 75, 90}
        BY <1>1, <1>2, <1>3
      <3>. HIDE DEF decided, log
      <3>. QED
        BY <1>2, <1>4, <2>3, <3>1, RefusedCourse
  <1>5. CASE ~(Q.at > c.tick)
    <2>1. /\ clock' = c /\ observed' = clock'.resets /\ SlotsServed'
          /\ TargetAnchors' = {} /\ Moved = {} /\ Moved' = {}
          /\ Q' = Refreshed(Q, c.tick, StepReport(c))
          /\ e.step = c.tick /\ e.decision = None /\ e.chosen = E.chosen /\ e.verdict = None
          /\ e.resolution = RecommendationSet /\ e.application = NoManeuver
      BY <1>1, <1>2, <1>3, <1>5, AcceptedStep
    <2>2. SourceExceptionFound(Q') /\ e \in Evidences
      BY <1>1, <1>2, <2>1, LaterStepKeepsConflict, StepFacts
    <2>3. E' = evidence' /\ K' = K /\ A' = audit'
      BY <1>1, <2>1, ViewAfter
    <2>4. A \in Audits /\ Listed(A) /\ Primary \in Recommendations /\ RecommendationSet \in Sets
      BY ViewFacts, RecommendationAssumption, HoldsAssumption
    <2>5. CASE ~decided
      <3>1. E' = e /\ A' = A
        BY <1>1, <2>3, <2>5
      <3>2. ~DecideAccepted(A, RecommendationSet, Primary, type, m, TRUE, c.tick)
        BY <1>3, <2>1, <2>5
      <3>3. A.entries # {}
        <4>. SUFFICES ASSUME A.entries = {} PROVE FALSE
          OBVIOUS
        <4>1. A = EmptyAudit
          BY <2>4 DEF Listed
        <4>2. Primary \in Holds[RecommendationSet] /\ c.tick >= Generated[RecommendationSet]
          BY <1>2, RecommendationAssumption
        <4>3. c.tick >= A.at
          BY <1>2, <4>1 DEF EmptyAudit, NeverDecided
        <4>4. WellFormed(RecommendationSet, Primary, type, m, TRUE)
          BY <1>1 DEF WellFormed
        <4>. QED
          BY <3>2, <4>2, <4>3, <4>4 DEF DecideAccepted
      <3>. HIDE DEF e, decided
      <3>4. Stage' = "RECOMMENDATION_AVAILABLE"
        BY <1>3, <2>1, <3>1 DEF Stage, None
      <3>5. WorkflowStep
        BY <1>1, <1>2, <2>1, <3>1, <3>4 DEF WorkflowStep, Workflow!vars
      <3>6. MovedNow' /\ CatalogFollows'
        BY <1>3, <2>1, <2>3, <3>1 DEF MovedNow, CatalogFollows
      <3>7. ConflictStaysActive' /\ WedgeExplained'
        BY <2>1, <2>2, <3>1, <3>3 DEF ConflictStaysActive, WedgeExplained
      <3>. QED
        BY <2>1, <3>4, <3>5, <3>6, <3>7 DEF CourseInv
    <2>6. CASE decided
      <3>. DEFINE x == Entry(A, RecommendationSet, Primary, type, m, c.tick)
      <3>1. LatestEntry(log) = x
        <4>. DEFINE justified == TRUE
        <4>1. DecideAccepted(A, RecommendationSet, Primary, type, m, justified, c.tick)
          BY <1>3, <2>6
        <4>2. justified \in BOOLEAN /\ c.tick \in Nat
          BY <1>2
        <4>. HIDE DEF decided, e, justified
        <4>. QED
          BY <1>3, <2>4, <4>1, <4>2, DecidedFacts
      <3>2. x.type = type /\ x.rec = Primary /\ x.maneuver = m
        BY DEF Entry
      <3>3. evidence' = DecisionRecorded(e, log)
        BY <1>1, <2>6
      <3>. HIDE DEF e, log, x, decided
      <3>4. evidence' = [e EXCEPT !.decision = type, !.chosen = Chosen(x), !.logged = log.revision]
        BY <3>1, <3>2, <3>3 DEF DecisionRecorded
      <3>5. /\ E'.decision = type /\ E'.chosen = Chosen(x) /\ E'.verdict = None
            /\ E'.resolution = RecommendationSet /\ E'.application = NoManeuver
        BY <2>1, <2>2, <2>3, <3>4 DEF Evidences
      <3>6. /\ type = "ACCEPT" => Stage' = "DECISION_ACCEPTED"
            /\ type = "MODIFY" => Stage' = "DECISION_MODIFIED"
            /\ type = "REJECT" => Stage' = "DECISION_REJECTED"
        BY <3>5 DEF Stage
      <3>7. /\ type = "ACCEPT" => Chosen(x) = Proposed[Primary]
            /\ type # "ACCEPT" => Chosen(x) = m
            /\ type = "MODIFY" => m \in Maneuvers \ {Proposed[Primary]}
            /\ type = "REJECT" => m = NoManeuver
        BY <1>1, <3>2 DEF Chosen, WellFormed
      <3>8. type = "ACCEPT" \/ type = "MODIFY" \/ type = "REJECT"
        BY DEF DecisionTypes
      <3>9. WorkflowStep
        BY <1>1, <1>2, <2>1, <3>5, <3>6, <3>7, <3>8
        DEF WorkflowStep, Workflow!Next, Workflow!Decide
      <3>10. Elapsed(Stage') = 90 /\ Stage' # "DEVIATION_DETECTED"
        BY <3>6, <3>8, ElapsedFacts
      <3>11. MovedNow' /\ CatalogFollows'
        BY <1>3, <2>1, <2>3, <3>5 DEF MovedNow, CatalogFollows
      <3>12. ConflictStaysActive' /\ WedgeExplained'
        BY <1>2, <2>1, <2>2, <3>5, <3>10 DEF ConflictStaysActive, WedgeExplained, AtCheckpoint
      <3>. QED
        BY <2>1, <3>9, <3>10, <3>11, <3>12 DEF CourseInv
    <2>. QED
      BY <2>5, <2>6
  <1>. QED
    BY <1>4, <1>5

\* The revalidation proceeds to MODIFICATION_REVALIDATED.
LEMMA RevalidateCourse ==
    ASSUME SInv, CourseInv, RevalidateModifiedManeuver
    PROVE  CourseInv' /\ WorkflowStep
  <1>1. /\ Stage = "DECISION_MODIFIED" /\ clock.tick = 90
        /\ evidence' = [E EXCEPT !.verdict = Verdict[E.chosen]]
        /\ UNCHANGED <<clock, timeline, scheduler, aircraft, queue, catalog, audit, observed>>
    BY DEF RevalidateModifiedManeuver, Checkpoint, simulation, services
  <1>2. E.decision = "MODIFY" /\ E.application = NoManeuver
    BY <1>1, StageFacts, NotYetApplied
  <1>3. observed = clock.resets /\ Verdict[E.chosen] \in Verdicts /\ E \in Evidences
    BY <1>2, ChosenFacts, ViewFacts, CalibrationAssumption
  <1>4. /\ evidence'.verdict = Verdict[E.chosen] /\ evidence'.chosen = E.chosen
        /\ evidence'.decision = "MODIFY" /\ evidence'.resolution = E.resolution
        /\ evidence'.application = NoManeuver
    BY <1>1, <1>2, <1>3 DEF Evidences
  <1>5. /\ E' = evidence' /\ K' = K /\ A' = A /\ Q' = Q
        /\ TargetAnchors' = TargetAnchors /\ Moved' = Moved
    BY <1>1, <1>3, ViewAfter, ViewFacts DEF Moved, TargetAnchors, Q, Seen
  <1>6. Stage' = "MODIFICATION_REVALIDATED"
    BY <1>3, <1>4, <1>5 DEF Stage, Verdicts, None
  <1>7. WorkflowStep
    BY <1>1, <1>4, <1>5, <1>6 DEF WorkflowStep, Workflow!Next, Workflow!Proceed
  <1>8. MovedNow' /\ CatalogFollows' /\ SlotsServed'
    BY <1>1, <1>2, <1>4, <1>5 DEF CourseInv, MovedNow, CatalogFollows, SlotsServed, None
  <1>9. ConflictStaysActive'
    BY <1>1, <1>5 DEF CourseInv, ConflictStaysActive
  <1>10. WedgeExplained'
    BY <1>1, <1>2, <1>4, <1>5, <1>6, ElapsedFacts DEF CourseInv, WedgeExplained, AtCheckpoint, None
  <1>. QED
    BY <1>6, <1>7, <1>8, <1>9, <1>10 DEF CourseInv

\* An application moves the aircraft once: a second one at the same time would put
\* an anchor on an anchor.  If the queue refuses the new traffic the stage stays.
LEMMA ApplyCourse ==
    ASSUME SInv, CourseInv, clock.tick = 90, Apply(E.chosen),
           \/ Stage = "DECISION_ACCEPTED"
           \/ Stage = "MODIFICATION_REVALIDATED" /\ Verdict[E.chosen] = "SAFE"
    PROVE  CourseInv' /\ WorkflowStep
  <1>. DEFINE m == E.chosen
              r == Anchored(aircraft[Target], clock, clock.tick, m)
  <1>1. /\ AnchorAccepted(Target, aircraft[Target], clock, clock.tick)
        /\ aircraft' = [aircraft EXCEPT ![Target] = r]
        /\ queue' = IF TimeAccepted(Q, clock.tick) THEN Refreshed(Q, clock.tick, Outcome[m]) ELSE Q
        /\ evidence' = IF TimeAccepted(Q, clock.tick) THEN [E EXCEPT !.application = m] ELSE E
        /\ UNCHANGED <<clock, timeline, scheduler, catalog, audit, observed>>
    BY DEF Apply
  <1>2. E.decision \in {"ACCEPT", "MODIFY"} /\ E.decision # None /\ E.application = NoManeuver
    BY StageFacts, NotYetApplied DEF None
  <1>3. /\ observed = clock.resets /\ m \in Maneuvers /\ m \in Payloads /\ m # NoManeuver
        /\ E \in Evidences /\ clock.tick \in Nat /\ Q.at \in Nat \cup {NoTime}
        /\ aircraft[Target] \in Runtimes /\ clock \in Clocks
    BY <1>2, ChosenFacts, ViewFacts, ManeuversAssumption, NoManeuverAssumption DEF Queues
  <1>4. TargetAnchors = {} /\ Moved = {}
    <2>1. \A x \in TargetAnchors : x.at # clock.tick
      BY <1>1 DEF AnchorAccepted, AnchorTimes, TargetAnchors
    <2>. QED
      BY <2>1, MovedAnchors DEF CourseInv, MovedNow
  <1>5. m \in {z \in Maneuvers : Verdict[z] = "SAFE"} \/ Stage = "DECISION_ACCEPTED"
    BY <1>3
  <1>6. r \in Runtimes /\ r.observed = clock.resets /\ r.applied = {[at |-> clock.tick, what |-> m]}
    BY <1>3, <1>4, RuntimeTypes DEF TargetAnchors
  <1>. HIDE DEF m, r
  <1>7. TargetAnchors' = {[at |-> clock.tick, what |-> m]} /\ Moved' = {m}
    <2>1. aircraft'[Target] = r /\ clock' = clock
      BY <1>1, <1>6, ManeuversAssumption DEF SInv, TypeOK
    <2>2. TargetAnchors' = r.applied
      BY <1>6, <2>1 DEF TargetAnchors, SyncedRuntime
    <2>3. Moved' = {x.what : x \in r.applied}
      BY <1>6, <2>1 DEF Moved, SyncedRuntime
    <2>. QED
      BY <1>6, <2>2, <2>3
  <1>8. E' = evidence' /\ K' = K /\ A' = A /\ Q' = queue'
    BY <1>1, <1>3, ViewAfter, ViewFacts DEF Q, Seen
  <1>9. /\ E'.decision = E.decision /\ E'.chosen = m /\ E'.resolution = E.resolution
        /\ E'.verdict = E.verdict
        /\ TimeAccepted(Q, clock.tick) => E'.application = m
        /\ ~TimeAccepted(Q, clock.tick) => E' = E
    BY <1>1, <1>3, <1>8 DEF Evidences, m
  <1>10. /\ TimeAccepted(Q, clock.tick) => Stage' = "CONFLICT_RESOLVED"
         /\ ~TimeAccepted(Q, clock.tick) => Stage' = Stage
    BY <1>3, <1>9 DEF Stage
  <1>11. WorkflowStep
    <2>1. Workflow!Authorized
      BY <1>5 DEF Workflow!Authorized, m
    <2>2. Workflow!Apply
      BY <1>1, <1>4, <1>7, <1>9, <1>10, <2>1 DEF Workflow!Apply, m
    <2>. QED
      BY <2>2 DEF WorkflowStep, Workflow!Next
  <1>12. MovedNow' /\ CatalogFollows' /\ SlotsServed' /\ Stage' # "DEVIATION_DETECTED"
    BY <1>1, <1>2, <1>7, <1>8, <1>9, <1>10
    DEF CourseInv, MovedNow, CatalogFollows, SlotsServed
  <1>13. CASE TimeAccepted(Q, clock.tick)
    <2>1. ConflictStaysActive'
      BY <1>10, <1>13 DEF ConflictStaysActive
    <2>2. WedgeExplained'
      BY <1>1, <1>3, <1>7, <1>9, <1>10, <1>13, ElapsedFacts DEF WedgeExplained, AtCheckpoint
    <2>. QED
      BY <1>11, <1>12, <2>1, <2>2 DEF CourseInv
  <1>14. CASE ~TimeAccepted(Q, clock.tick)
    <2>1. Q' = Q /\ Stage' = Stage
      BY <1>1, <1>8, <1>10, <1>14
    <2>2. ConflictStaysActive'
      BY <2>1 DEF CourseInv, ConflictStaysActive
    <2>3. WedgeExplained'
      BY <1>1, <1>3, <1>14, <2>1 DEF WedgeExplained, TimeAccepted, NoTime
    <2>. QED
      BY <1>11, <1>12, <2>2, <2>3 DEF CourseInv
  <1>. QED
    BY <1>13, <1>14

\* The invariant of the course holds initially, and no step leaves it.
LEMMA CourseInit == Init => CourseInv
  <1>. SUFFICES ASSUME Init PROVE CourseInv
    OBVIOUS
  <1>1. /\ clock = InitialClock /\ scheduler = [k \in Schedulers |-> InitialScheduler]
        /\ aircraft = [a \in Aircraft |-> InitialRuntime]
        /\ queue = EmptyQueue /\ catalog = EmptyCatalog /\ evidence = NoEvidence /\ observed = 0
    BY DEF Init
  <1>2. clock.resets = 0 /\ clock.tick = 0 /\ E = NoEvidence /\ K = EmptyCatalog
    BY <1>1 DEF InitialClock, E, K, Seen
  <1>3. TargetAnchors = {} /\ Moved = {}
    BY <1>1, <1>2, ManeuversAssumption DEF TargetAnchors, Moved, SyncedRuntime, InitialRuntime
  <1>4. /\ E.application = NoManeuver /\ E.verdict = None /\ E.decision = None
        /\ E.resolution = NoSet /\ E.step = NoStep
    BY <1>2 DEF NoEvidence
  <1>5. Stage = "READY"
    BY <1>4 DEF Stage, None
  <1>6. SlotsServed
    BY <1>1, <1>2 DEF SlotsServed, SyncedScheduler, InitialScheduler, Schedulers, NoSlot
  <1>7. MovedNow /\ CatalogFollows /\ ConflictStaysActive
    BY <1>2, <1>3, <1>4, <1>5 DEF MovedNow, CatalogFollows, ConflictStaysActive
  <1>8. WedgeExplained
    BY <1>2, <1>3, <1>4, <1>5, ElapsedFacts DEF WedgeExplained, AtCheckpoint
  <1>. QED
    BY <1>5, <1>6, <1>7, <1>8 DEF CourseInv

LEMMA NextCourse ==
    ASSUME SInv, CourseInv, [Next]_vars
    PROVE  CourseInv' /\ WorkflowStep
  <1>1. CASE Start
    BY <1>1, StartCourse
  <1>2. CASE AdvanceToConflict
    BY <1>2, AdvanceCourse
  <1>3. CASE GenerateRecommendation
    BY <1>3, GenerateCourse
  <1>4. CASE AcceptRecommendation \/ RejectRecommendation
    BY <1>4, DecideCourse DEF AcceptRecommendation, RejectRecommendation, DecisionTypes
  <1>5. ASSUME NEW m \in Maneuvers, ModifyRecommendation(m) PROVE CourseInv' /\ WorkflowStep
    BY <1>5, DecideCourse DEF ModifyRecommendation, DecisionTypes
  <1>6. CASE RevalidateModifiedManeuver
    BY <1>6, RevalidateCourse
  <1>7. CASE ApplyApprovedManeuver
    BY <1>7, ApplyCourse DEF ApplyApprovedManeuver, Checkpoint
  <1>8. CASE ApplyValidatedModifiedManeuver
    <2>1. /\ Stage = "MODIFICATION_REVALIDATED" /\ clock.tick = 90 /\ E.verdict = "SAFE"
          /\ Apply(E.chosen)
      BY <1>8 DEF ApplyValidatedModifiedManeuver, Checkpoint
    <2>2. Verdict[E.chosen] = "SAFE"
      BY <2>1 DEF SInv, Backed, None
    <2>. QED
      BY <2>1, <2>2, ApplyCourse
  <1>9. CASE Reset \/ ClockReset
    BY <1>9, ResetCourse
  <1>10. CASE GetCurrent
    BY <1>10, GetCurrentCourse
  <1>11. CASE FacadeCall
    BY <1>11, AcknowledgeCourse, SubmitCourse DEF FacadeCall
  <1>12. CASE UNCHANGED vars
    <2>1. UNCHANGED <<clock, timeline, scheduler, aircraft, queue, catalog, audit, evidence, observed>>
      BY <1>12 DEF vars, simulation, services
    <2>2. E' = E /\ K' = K /\ A' = A /\ Q' = Q /\ TargetAnchors' = TargetAnchors
      BY <2>1 DEF E, K, A, Q, Seen, TargetAnchors
    <2>. QED
      BY <2>1, <2>2, IdleCourse
  <1>. QED
    BY <1>1, <1>2, <1>3, <1>4, <1>5, <1>6, <1>7, <1>8, <1>9, <1>10, <1>11, <1>12
    DEF Next, NextCommand

\* Every reachable session is on the guided course, or has been taken off it in a way
\* that WedgeExplained names.
THEOREM CourseInvariant == Spec => []CourseInv
  <1>1. Init => CourseInv
    BY CourseInit
  <1>2. SInv /\ CourseInv /\ [Next]_vars => CourseInv'
    BY NextCourse
  <1>. QED
    BY <1>1, <1>2, SessionInvariant, PTL DEF Spec

\* The conflict stays active in the queue from its detection until a maneuver is
\* reported applied, whatever other clients acknowledge.
THEOREM SessionConflictStaysActive == Spec => []ConflictStaysActive
  <1>1. CourseInv => ConflictStaysActive
    BY DEF CourseInv
  <1>. QED
    BY <1>1, CourseInvariant, PTL

\* A session that is not where its stage says has been put there by a queue that is
\* ahead of the clock or by a decision submitted beside it.
THEOREM SessionWedgeExplained == Spec => []WedgeExplained
  <1>1. CourseInv => WedgeExplained
    BY DEF CourseInv
  <1>. QED
    BY <1>1, CourseInvariant, PTL

\* The session implements the workflow it promises its operator.
THEOREM SessionFollowsWorkflow == Spec => WorkflowFollowed
  <1>1. Init => Workflow!Init
    <2>. SUFFICES ASSUME Init PROVE Workflow!Init
      OBVIOUS
    <2>1. clock = InitialClock /\ evidence = NoEvidence /\ observed = 0
          /\ aircraft = [a \in Aircraft |-> InitialRuntime]
      BY DEF Init
    <2>2. clock.resets = 0 /\ E = NoEvidence
      BY <2>1 DEF InitialClock, E, Seen
    <2>3. /\ E.application = NoManeuver /\ E.verdict = None /\ E.decision = None
          /\ E.resolution = NoSet /\ E.step = NoStep /\ E.chosen = NoManeuver
      BY <2>2 DEF NoEvidence
    <2>4. Stage = "READY"
      BY <2>3 DEF Stage, None
    <2>5. Moved = {}
      BY <2>1, <2>2, ManeuversAssumption DEF Moved, SyncedRuntime, InitialRuntime
    <2>. QED
      BY <2>2, <2>3, <2>4, <2>5 DEF Workflow!Init
  <1>2. SInv /\ CourseInv /\ [Next]_vars => [Workflow!Next]_(Workflow!vars)
    BY NextCourse DEF WorkflowStep
  <1>. QED
    BY <1>1, <1>2, SessionInvariant, CourseInvariant, PTL DEF Spec, WorkflowFollowed, Workflow!Spec

-----------------------------------------------------------------------------
(* A session that has its services to itself. *)

\* The queue is not ahead of the clock and the log holds the session's decision only.
Undisturbed ==
    /\ Q.at <= clock.tick
    /\ A.entries # {} => E.decision # None

\* Without other clients no step disturbs the session, and so none is refused.
LEMMA NextUndisturbed ==
    ASSUME FacadeTimes = {}, SInv, CourseInv, Undisturbed, [Next]_vars
    PROVE  Undisturbed'
  <1>1. ASSUME NEW c \in Clocks, c.resets = clock.resets, clock.tick <= c.tick,
               c.tick \in {0, 70, 75, 90}, Step(c), audit' = A,
               evidence'.decision = EvidenceAfterStep(c).decision
        PROVE  Undisturbed'
    <2>1. Q.at \in Nat \cup {NoTime} /\ clock.tick \in Nat /\ c.tick \in Nat
      BY <1>1, ViewFacts DEF Queues
    <2>2. ~(Q.at > c.tick)
      BY <1>1, <2>1 DEF Undisturbed, NoTime
    <2>3. /\ clock' = c /\ observed' = clock'.resets
          /\ Q' = Refreshed(Q, c.tick, StepReport(c))
          /\ EvidenceAfterStep(c).decision = E.decision
      BY <1>1, <2>2, StepOutcome
    <2>4. E' = evidence' /\ A' = A
      BY <1>1, <2>3, ViewAfter
    <2>. QED
      BY <1>1, <2>1, <2>3, <2>4 DEF Undisturbed, Refreshed
  <1>2. ASSUME NEW n \in Nat, Step(Ticked(clock, n))
        PROVE  /\ Ticked(clock, n) \in Clocks /\ Ticked(clock, n).resets = clock.resets
               /\ Ticked(clock, n).tick = clock.tick + n /\ clock.tick <= Ticked(clock, n).tick
    <2>1. Ticked(clock, n).state = "RUNNING"
      BY <1>2 DEF Step
    <2>. QED
      BY <2>1, CheckpointClocks, ViewFacts
  <1>3. CASE Start
    <2>1. Played(clock).tick = 0 /\ clock.tick = 0
      BY <1>3, CheckpointClocks DEF Start, Checkpoint
    <2>. QED
      BY <1>1, <1>3, <2>1, CheckpointClocks DEF Start
  <1>4. CASE AdvanceToConflict
    <2>1. clock.tick = 0
      BY <1>4 DEF AdvanceToConflict, Checkpoint
    <2>. QED
      BY <1>1, <1>2, <1>4, <2>1 DEF AdvanceToConflict
  <1>5. CASE GenerateRecommendation
    <2>. DEFINE e == EvidenceAfterStep(Ticked(clock, 5))
    <2>1. /\ clock.tick = 70 /\ Step(Ticked(clock, 5)) /\ audit' = A
          /\ evidence' = e \/ evidence' = [e EXCEPT !.resolution = RecommendationSet]
      BY <1>5 DEF GenerateRecommendation, Checkpoint
    <2>2. Ticked(clock, 5).tick = 75 /\ Ticked(clock, 5) \in Clocks
          /\ Ticked(clock, 5).resets = clock.resets
      BY <1>2, <2>1
    <2>3. e \in Evidences
      BY <2>1, <2>2, StepFacts
    <2>4. evidence'.decision = e.decision
      BY <2>1, <2>3 DEF Evidences
    <2>. QED
      BY <1>1, <1>2, <2>1, <2>2, <2>4
  <1>6. ASSUME NEW type \in DecisionTypes, NEW m \in Maneuvers \cup {NoManeuver},
               DecideRecommendation(type, m)
        PROVE  Undisturbed'
    <2>. DEFINE c == Ticked(clock, 15)
                e == EvidenceAfterStep(c)
                log == Decided(A, E.resolution, Primary, type, m, c.tick)
    <2>1. /\ clock.tick = 75 /\ Step(c)
          /\ \/ audit' = A /\ evidence' = e
             \/ evidence' = DecisionRecorded(e, log) /\ LatestEntry(log).type = type
      <3>. DEFINE decided == /\ e.step = c.tick
                             /\ K.current = E.resolution
                             /\ DecideAccepted(A, E.resolution, Primary, type, m, TRUE, c.tick)
      <3>1. /\ clock.tick = 75 /\ Step(c) /\ Stage = "RECOMMENDATION_AVAILABLE"
            /\ audit' = IF decided THEN log ELSE A
            /\ evidence' = IF decided THEN DecisionRecorded(e, log) ELSE e
        BY <1>6 DEF DecideRecommendation, Checkpoint
      <3>2. CASE decided
        <4>. DEFINE justified == TRUE
        <4>1. /\ E.resolution \in Sets /\ Primary \in Recommendations
              /\ A \in Audits /\ Listed(A) /\ justified \in BOOLEAN
          BY <3>1, StageFacts, RecommendationAssumption, HoldsAssumption, ViewFacts
        <4>2. c.tick \in Nat
          BY <1>2, <3>1
        <4>3. DecideAccepted(A, E.resolution, Primary, type, m, justified, c.tick)
          BY <3>2
        <4>4. LatestEntry(log) = Entry(A, E.resolution, Primary, type, m, c.tick)
          <5>. HIDE DEF c, e, decided, justified
          <5>. QED
            BY <4>1, <4>2, <4>3, DecidedFacts
        <4>. QED
          BY <3>1, <3>2, <4>4 DEF Entry
      <3>3. CASE ~decided
        BY <3>1, <3>3
      <3>. QED
        BY <3>2, <3>3
    <2>2. c.tick = 90 /\ c \in Clocks /\ c.resets = clock.resets /\ clock.tick <= c.tick
      BY <1>2, <2>1
    <2>. HIDE DEF c, log
    <2>3. CASE audit' = A /\ evidence' = e
      BY <1>1, <2>1, <2>2, <2>3
    <2>4. CASE evidence' = DecisionRecorded(e, log) /\ LatestEntry(log).type = type
      <3>1. e \in Evidences
        BY <2>1, <2>2, StepFacts
      <3>2. evidence'.decision = type
        BY <2>4, <3>1 DEF DecisionRecorded, Evidences
      <3>3. Q.at \in Nat \cup {NoTime} /\ clock.tick \in Nat /\ c.tick \in Nat
        BY <2>2, ViewFacts DEF Queues
      <3>4. ~(Q.at > c.tick)
        BY <2>2, <3>3 DEF Undisturbed, NoTime
      <3>5. clock' = c /\ observed' = clock'.resets /\ Q' = Refreshed(Q, c.tick, StepReport(c))
        BY <2>1, <2>2, <3>4, StepOutcome
      <3>6. E'.decision # None
        BY <3>2, <3>5, ViewAfter DEF DecisionTypes, None
      <3>. QED
        BY <3>3, <3>5, <3>6 DEF Undisturbed, Refreshed
    <2>. QED
      BY <2>1, <2>3, <2>4
  <1>7. CASE RevalidateModifiedManeuver
    <2>1. /\ Stage = "DECISION_MODIFIED"
          /\ evidence' = [E EXCEPT !.verdict = Verdict[E.chosen]]
          /\ UNCHANGED <<clock, queue, audit, observed>>
      BY <1>7 DEF RevalidateModifiedManeuver, Checkpoint, simulation, services
    <2>2. observed = clock.resets /\ E \in Evidences /\ E.decision = "MODIFY"
      BY <2>1, StageFacts, ChosenFacts, ViewFacts
    <2>3. Q' = Q /\ A' = A /\ E'.decision = E.decision
      BY <2>1, <2>2, ViewFacts DEF Q, A, E, Seen, Evidences
    <2>. QED
      BY <2>1, <2>3 DEF Undisturbed
  <1>8. CASE ApplyApprovedManeuver \/ ApplyValidatedModifiedManeuver
    <2>. DEFINE m == E.chosen
    <2>1. /\ Stage \in {"DECISION_ACCEPTED", "MODIFICATION_REVALIDATED"}
          /\ queue' = Q \/ queue' = Refreshed(Q, clock.tick, Outcome[m])
          /\ evidence' = E \/ evidence' = [E EXCEPT !.application = m]
          /\ UNCHANGED <<clock, audit, observed>>
      BY <1>8 DEF ApplyApprovedManeuver, ApplyValidatedModifiedManeuver, Checkpoint, Apply
    <2>2. observed = clock.resets /\ E \in Evidences /\ E.decision \in {"ACCEPT", "MODIFY"}
          /\ clock.tick \in Nat
      BY <2>1, StageFacts, ChosenFacts, ViewFacts
    <2>3. Q' = queue' /\ A' = A /\ E' = evidence'
      BY <2>1, <2>2, ViewFacts DEF Q, A, E, Seen
    <2>4. E'.decision = E.decision
      BY <2>1, <2>2, <2>3 DEF Evidences
    <2>5. Q'.at <= clock'.tick
      BY <2>1, <2>2, <2>3 DEF Undisturbed, Refreshed
    <2>. QED
      BY <2>3, <2>4, <2>5 DEF Undisturbed
  <1>9. CASE Reset \/ ClockReset
    <2>1. clock'.tick = 0 /\ clock'.resets = clock.resets + 1 /\ clock.resets \in Nat
          /\ observed \in Nat /\ observed <= clock.resets
      BY <1>9, ViewFacts DEF Reset, ClockReset, Restarted, SInv, SeenInOrder
    <2>2. Q' = EmptyQueue /\ A' = EmptyAudit
      <3>1. CASE Reset
        BY <3>1 DEF Reset, Q, A, Seen
      <3>2. CASE ClockReset
        <4>1. observed' # clock'.resets
          BY <2>1, <3>2 DEF ClockReset
        <4>. QED
          BY <4>1 DEF Q, A, Seen
      <3>. QED
        BY <1>9, <3>1, <3>2
    <2>. QED
      BY <2>1, <2>2 DEF Undisturbed, EmptyQueue, EmptyAudit, NoTime
  <1>10. CASE GetCurrent
    BY <1>10 DEF GetCurrent, Undisturbed, Q, A, E, Seen
  <1>11. CASE FacadeCall
    BY <1>11 DEF FacadeCall
  <1>12. CASE UNCHANGED vars
    <2>1. UNCHANGED <<clock, queue, audit, evidence, observed>>
      BY <1>12 DEF vars, simulation, services
    <2>. QED
      BY <2>1 DEF Undisturbed, Q, A, E, Seen
  <1>. QED
    BY <1>3, <1>4, <1>5, <1>6, <1>7, <1>8, <1>9, <1>10, <1>11, <1>12
    DEF Next, NextCommand, AcceptRecommendation, RejectRecommendation, ModifyRecommendation,
        DecisionTypes

\* Where no other client uses the queue or the log, the session is always where its
\* stage says: no command is ever refused half-way.
THEOREM SessionAtCheckpoint ==
    ASSUME FacadeTimes = {}
    PROVE  Spec => []AtCheckpoint
  <1>1. Init => Undisturbed
    <2>. SUFFICES ASSUME Init PROVE Undisturbed
      OBVIOUS
    <2>1. clock = InitialClock /\ queue = EmptyQueue /\ audit = EmptyAudit /\ observed = 0
      BY DEF Init
    <2>2. Q = EmptyQueue /\ A = EmptyAudit /\ clock.tick = 0
      BY <2>1 DEF Q, A, Seen, InitialClock
    <2>. QED
      BY <2>2 DEF Undisturbed, EmptyQueue, EmptyAudit, NoTime
  <1>2. SInv /\ CourseInv /\ Undisturbed /\ [Next]_vars => Undisturbed'
    BY NextUndisturbed
  <1>3. SInv /\ CourseInv /\ Undisturbed => AtCheckpoint
    <2>. SUFFICES ASSUME SInv, CourseInv, Undisturbed PROVE AtCheckpoint
      OBVIOUS
    <2>1. Q.at \in Nat \cup {NoTime} /\ clock.tick \in Nat
      BY ViewFacts DEF Queues
    <2>2. ~(Q.at > clock.tick)
      BY <2>1 DEF Undisturbed, NoTime
    <2>. QED
      BY <2>2 DEF CourseInv, WedgeExplained, Undisturbed
  <1>. QED
    BY <1>1, <1>2, <1>3, SessionInvariant, CourseInvariant, PTL DEF Spec
=============================================================================
