------------------------- MODULE HttpAdaptersProofs -------------------------
(***************************************************************************)
(* For any requests, flaws, assessments, sets and times: behind their HTTP *)
(* adapters the queue, the catalog and the audit log go only through steps *)
(* of their specifications, a decision that was settled stays so, and what *)
(* a client is shown tells it what it can do.                              *)
(***************************************************************************)
EXTENDS HttpAdapters, SharedValueProofs

\* The catalog and the log of the composed specification have steps of the
\* same meaning as the operators of DecisionAudit.
LEMMA DecisionOperators ==
    /\ DecisionService!EmptyCatalog = EmptyCatalog
    /\ DecisionService!EmptyAudit = EmptyAudit
    /\ \A k, s : /\ DecisionService!PublishAccepted(k, s) <=> PublishAccepted(k, s)
                 /\ DecisionService!Published(k, s) = Published(k, s)
    /\ \A a, s, r, type, m, t :
          DecisionService!Decided(a, s, r, type, m, t) = Decided(a, s, r, type, m, t)
    /\ DecisionService!DecisionTypes = DecisionTypes
  BY DEF EmptyCatalog, DecisionService!EmptyCatalog, EmptyAudit, DecisionService!EmptyAudit,
         NeverDecided, DecisionService!NeverDecided,
         PublishAccepted, DecisionService!PublishAccepted,
         Published, DecisionService!Published, Decided, DecisionService!Decided,
         DecisionTypes, DecisionService!DecisionTypes

\* A submission is a decision request with a time within the bound.
LEMMA SubmissionFacts ==
    ASSUME NEW d \in Submissions
    PROVE  /\ d \in Decisions
           /\ d.set \in Sets /\ d.rec \in Recommendations /\ d.type \in DecisionTypes
           /\ d.maneuver \in Maneuvers \cup {NoManeuver} /\ d.justified \in BOOLEAN
           /\ d.at \in 0 .. MaxTime /\ d.at \in Int
  <1>1. d \in Decisions
    BY SubmissionsAssumption
  <1>. QED
    BY <1>1 DEF Decisions

\* What is answered 201 is what the decision service accepts.
LEMMA CreatedIsAccepted ==
    ASSUME NEW d \in Submissions, audit.at \in Int, DecisionStatus(d) = 201
    PROVE  /\ d.set \in catalog.published
           /\ d.at >= audit.at
           /\ d.set \notin DecidedSets /\ d.rec \notin DecidedRecommendations
           /\ d.rec \in Holds[d.set] /\ EntryAccepted(d)
  BY SubmissionFacts DEF DecisionStatus

\* A request with a flaw is refused, whatever it asks for.
LEMMA FlawedIsRefused ==
    ASSUME NEW flaws \in FlawSets, flaws # {}
    PROVE  Refusal(flaws) \in {400, 404, 405, 413, 415, 422}
  <1>. DEFINE names == {"route", "method", "query", "media type", "length", "size", "text",
                        "object", "fields", "values"}
              First(i) == /\ Checks[i][1] \in flaws
                          /\ \A j \in 1 .. (i - 1) : Checks[j][1] \notin flaws
  <1>1. DOMAIN Checks = 1 .. 10
    BY DEF Checks
  <1>. HIDE DEF First
  <1>2. \E i \in DOMAIN Checks : First(i)
    <2>1. \E i \in 1 .. 10 : Checks[i][1] \in flaws
      BY <1>1, FlawSetsAssumption
    <2>. DEFINE P(i) == Checks[i][1] \in flaws
    <2>. HIDE DEF P
    <2>2. \E i \in 1 .. 10 : P(i)
      BY <2>1 DEF P
    <2>3. \E i \in 1 .. 10 : P(i) /\ \A j \in 1 .. (i - 1) : ~P(j)
      <3>1. \/ P(1) \/ P(2) \/ P(3) \/ P(4) \/ P(5) \/ P(6) \/ P(7) \/ P(8) \/ P(9) \/ P(10)
        BY <2>2
      <3>. QED
        BY <3>1
    <2>. QED
      BY <1>1, <2>3 DEF P, First
  <1>3. PICK i \in 1 .. 10 : Refusal(flaws) = Checks[i][2]
    <2>1. Refusal(flaws) = Checks[CHOOSE i \in DOMAIN Checks : First(i)][2]
      BY DEF Refusal, First
    <2>. QED
      BY <1>1, <1>2, <2>1
  <1>4. /\ Checks[1][2] = 404 /\ Checks[2][2] = 405 /\ Checks[3][2] = 400
        /\ Checks[4][2] = 415 /\ Checks[5][2] = 400 /\ Checks[6][2] = 413
        /\ Checks[7][2] = 400 /\ Checks[8][2] = 422 /\ Checks[9][2] = 422
        /\ Checks[10][2] = 422
    BY DEF Checks
  <1>5. i = 1 \/ i = 2 \/ i = 3 \/ i = 4 \/ i = 5 \/ i = 6 \/ i = 7 \/ i = 8 \/ i = 9 \/ i = 10
    OBVIOUS
  <1>. HIDE DEF names, First
  <1>. QED
    BY <1>3, <1>4, <1>5

-----------------------------------------------------------------------------
\* What a client may have in mind is settled: its set is decided, or its time is
\* behind the log.  What a client has just been shown of the log is the log.
IInv ==
    /\ audit.at \in Int
    /\ settled \in Submissions =>
          /\ settled.set \in catalog.published
          /\ settled.at < audit.at \/ settled.set \in DecidedSets
    /\ answer.shown.kind = "LOG" => answer.shown = LogView(audit)

\* An acknowledgement is not a decision, nor is the absence of a request.
LEMMA OtherRequests ==
    /\ Nothing \notin Submissions
    /\ \A k \in Acknowledgements : k \notin Submissions
  <1>1. \A d \in Decisions : "set" \in DOMAIN d
    BY DEF Decisions
  <1>2. "set" \notin DOMAIN Nothing
    BY DEF Nothing
  <1>3. \A k \in Acknowledgements : "set" \notin DOMAIN k
    BY DEF Acknowledgements
  <1>. QED
    BY <1>1, <1>2, <1>3, SubmissionsAssumption

\* The state of all services forgotten together satisfies the invariant.
LEMMA ForgottenIInv ==
    ASSUME NEW log, NEW mind, NEW last,
           log = EmptyAudit, mind = Nothing, last = NoAnswer
    PROVE  /\ log.at \in Int /\ mind \notin Submissions
           /\ last.shown.kind # "LOG"
  BY OtherRequests DEF EmptyAudit, NeverDecided, NoAnswer, Nothing

\* A submission preserves the invariant: if it is recorded, its set is decided
\* and no time behind the log gets ahead of it.
LEMMA SubmitIInv ==
    ASSUME IInv, NEW flaws \in FlawSets, NEW d \in Submissions, Submit(flaws, d)
    PROVE  IInv'
  <1>. DEFINE status == IF flaws # {} THEN Refusal(flaws) ELSE DecisionStatus(d)
              entry == [set |-> d.set, rec |-> d.rec, type |-> d.type,
                        maneuver |-> d.maneuver, at |-> d.at,
                        revision |-> audit.revision + 1]
  <1>1. catalog' = catalog /\ settled' \in {settled} \cup {r \in {d} : status \in {201, 409}}
    BY DEF Submit, Minded
  <1>2. CASE status = 201
    <2>1. flaws = {} /\ DecisionStatus(d) = 201
      BY <1>2, FlawedIsRefused
    <2>2. d.set \in catalog.published /\ d.at >= audit.at /\ d.at \in Int
      BY <2>1, CreatedIsAccepted, SubmissionFacts DEF IInv
    <2>3. audit' = [entries |-> audit.entries \cup {entry}, at |-> d.at,
                    revision |-> audit.revision + 1]
      BY <1>2 DEF Submit, Decided
    <2>4. answer' = [status |-> 201, shown |-> LogView(audit')]
      BY <1>2 DEF Submit
    <2>5. audit'.at = d.at /\ audit'.entries = audit.entries \cup {entry}
      BY <2>3
    <2>6. d.set \in DecidedSets' /\ DecidedSets \subseteq DecidedSets'
      <3>1. entry.set = d.set
        OBVIOUS
      <3>. HIDE DEF entry
      <3>. QED
        BY <2>5, <3>1 DEF DecidedSets
    <2>7. answer'.shown = LogView(audit)'
      BY <2>4 DEF LogView
    <2>8. settled' = settled \/ settled' = d
      BY <1>1
    <2>9. settled' \in Submissions =>
             /\ settled'.set \in catalog'.published
             /\ settled'.at < audit'.at \/ settled'.set \in DecidedSets'
      <3>1. ASSUME settled' = settled, settled \in Submissions
            PROVE  settled'.at < audit'.at \/ settled'.set \in DecidedSets'
        <4>1. settled.at \in Int
          BY <3>1, SubmissionFacts
        <4>2. settled.at < audit.at \/ settled.set \in DecidedSets
          BY <3>1 DEF IInv
        <4>3. settled.at < audit.at => settled.at < audit'.at
          BY <2>2, <2>5, <4>1 DEF IInv
        <4>. QED
          BY <2>6, <3>1, <4>2, <4>3
      <3>. QED
        BY <1>1, <2>2, <2>6, <2>8, <3>1 DEF IInv
    <2>. QED
      BY <2>2, <2>5, <2>7, <2>9 DEF IInv
  <1>3. CASE status # 201
    <2>1. audit' = audit /\ answer'.shown = Nothing
      BY <1>3 DEF Submit
    <2>2. status = 409 => flaws = {} /\ DecisionStatus(d) = 409
      BY FlawedIsRefused
    <2>3. DecisionStatus(d) = 409 =>
             d.set \in catalog.published /\ (d.at < audit.at \/ d.set \in DecidedSets)
      BY DEF DecisionStatus
    <2>4. settled' = settled \/ (settled' = d /\ status = 409)
      BY <1>1, <1>3
    <2>5. answer'.shown.kind # "LOG"
      BY <2>1 DEF Nothing
    <2>. QED
      BY <1>1, <2>1, <2>2, <2>3, <2>4, <2>5 DEF IInv, DecidedSets
  <1>. QED
    BY <1>2, <1>3

\* Every reachable state satisfies the invariant.
THEOREM AdaptersInvariant == Spec => []IInv
  <1>1. Init => IInv
    <2>. SUFFICES ASSUME Init PROVE IInv
      OBVIOUS
    <2>. QED
      BY ForgottenIInv DEF Init, IInv
  <1>2. IInv /\ [Next]_vars => IInv'
    <2>. SUFFICES ASSUME IInv, [Next]_vars PROVE IInv'
      OBVIOUS
    <2>1. ASSUME NEW flaws \in FlawSets, NEW all \in BOOLEAN, GetQueue(flaws, all) PROVE IInv'
      <3>1. answer'.shown.kind # "LOG"
        BY <2>1 DEF GetQueue, NoAnswer, NoContent, OK, QueueView, Nothing
      <3>2. UNCHANGED <<services, settled>>
        BY <2>1 DEF GetQueue
      <3>. QED
        BY <3>1, <3>2 DEF IInv, services, DecidedSets
    <2>2. ASSUME NEW flaws \in FlawSets, NEW k \in Acknowledgements, NEW all \in BOOLEAN,
                 Acknowledge(flaws, k, all)
          PROVE  IInv'
      <3>1. answer'.shown.kind # "LOG"
        BY <2>2 DEF Acknowledge, QueueView, Nothing
      <3>2. UNCHANGED <<catalog, audit>> /\ (settled' = settled \/ settled' = k)
        BY <2>2 DEF Acknowledge, Minded
      <3>. QED
        BY <3>1, <3>2, OtherRequests DEF IInv, DecidedSets
    <2>3. ASSUME NEW flaws \in FlawSets, GetRecommendation(flaws) PROVE IInv'
      <3>1. answer'.shown.kind # "LOG"
        BY <2>3 DEF GetRecommendation, NoAnswer, NoContent, OK, RecommendationView, Nothing
      <3>2. UNCHANGED <<services, settled>>
        BY <2>3 DEF GetRecommendation
      <3>. QED
        BY <3>1, <3>2 DEF IInv, services, DecidedSets
    <2>4. ASSUME NEW flaws \in FlawSets, GetDecisions(flaws) PROVE IInv'
      <3>1. UNCHANGED <<services, settled>>
        BY <2>4 DEF GetDecisions
      <3>2. answer'.shown.kind = "LOG" => answer'.shown = LogView(audit)
        BY <2>4 DEF GetDecisions, NoAnswer, NoContent, OK, Nothing
      <3>. QED
        BY <3>1, <3>2 DEF IInv, services, DecidedSets, LogView
    <2>5. ASSUME NEW flaws \in FlawSets, NEW d \in Submissions, Submit(flaws, d) PROVE IInv'
      BY <2>5, SubmitIInv
    <2>6. ASSUME NEW t \in 0 .. MaxTime, NEW r \in Reports, Refresh(t, r) PROVE IInv'
      BY <2>6 DEF Refresh, IInv, DecidedSets, NoAnswer, Nothing
    <2>7. ASSUME NEW s \in Sets, Publish(s) PROVE IInv'
      <3>1. catalog.published \subseteq catalog'.published
        BY <2>7 DEF Publish, Published
      <3>2. UNCHANGED <<audit, settled>> /\ answer'.shown.kind # "LOG"
        BY <2>7 DEF Publish, NoAnswer, Nothing
      <3>. QED
        BY <3>1, <3>2 DEF IInv, DecidedSets
    <2>8. CASE Reset
      BY <2>8, ForgottenIInv DEF Reset, IInv
    <2>9. CASE UNCHANGED vars
      BY <2>9 DEF vars, services, IInv, DecidedSets, LogView
    <2>. QED
      BY <2>1, <2>2, <2>3, <2>4, <2>5, <2>6, <2>7, <2>8, <2>9 DEF Next
  <1>. QED
    BY <1>1, <1>2, PTL DEF Spec

\* A decision that was recorded, or refused as a conflict, is a conflict when it
\* is sent again, until the run is reset.
THEOREM SettledDecisionsStay == Spec => []SettledStaysSettled
  <1>1. IInv => SettledStaysSettled
    BY DEF IInv, SettledStaysSettled, DecisionStatus
  <1>. QED
    BY <1>1, AdaptersInvariant, PTL

\* The log a client is shown tells which decisions are still open.
THEOREM LogShowsOpenDecisions == Spec => []LogTellsWhatIsOpen
  <1>1. ASSUME IInv PROVE LogTellsWhatIsOpen
    <2>. SUFFICES ASSUME answer.shown.kind = "LOG", NEW d \in Submissions,
                         d.set \in catalog.published, d.rec \in Holds[d.set],
                         EntryAccepted(d), d.at >= answer.shown.at
                  PROVE  DecisionStatus(d) = 201 <=>
                            \A e \in answer.shown.entries :
                                e.decision.set # d.set /\ e.decision.rec # d.rec
      BY DEF LogTellsWhatIsOpen
    <2>1. /\ answer.shown.at = audit.at
          /\ answer.shown.entries = {ShownEntry(e) : e \in audit.entries}
      BY <1>1 DEF IInv, LogView
    <2>2. ~(d.at < audit.at)
      BY <1>1, <2>1, SubmissionFacts DEF IInv
    <2>3. DecisionStatus(d) = 201 <=> d.set \notin DecidedSets /\ d.rec \notin DecidedRecommendations
      BY <2>2 DEF DecisionStatus
    <2>4. \A e \in audit.entries : ShownEntry(e).decision = e
      BY DEF ShownEntry
    <2>5. (\A e \in answer.shown.entries : e.decision.set # d.set /\ e.decision.rec # d.rec)
          <=> \A e \in audit.entries : e.set # d.set /\ e.rec # d.rec
      BY <2>1, <2>4
    <2>. QED
      BY <2>3, <2>5 DEF DecidedSets, DecidedRecommendations
  <1>. QED
    BY <1>1, AdaptersInvariant, PTL

\* The catalog and the audit log go only through steps of their specification:
\* a submission answered 201 is a decision of the service, everything else
\* leaves both alone, publishes a set or resets them.
THEOREM DecisionsRefineService == Spec => DecisionStepsOnly
  <1>. USE DecisionOperators
  <1>1. Init => DecisionService!Init
    BY DEF Init, DecisionService!Init
  <1>2. IInv /\ [Next]_vars => [DecisionService!Next]_(DecisionService!vars)
    <2>. SUFFICES ASSUME IInv, [Next]_vars, ~ UNCHANGED <<catalog, audit>>
                  PROVE  DecisionService!Next
      BY DEF DecisionService!vars
    <2>1. ASSUME NEW flaws \in FlawSets, NEW d \in Submissions, Submit(flaws, d)
          PROVE  DecisionService!Next
      <3>. DEFINE status == IF flaws # {} THEN Refusal(flaws) ELSE DecisionStatus(d)
      <3>1. status = 201 /\ catalog' = catalog
            /\ audit' = Decided(audit, d.set, d.rec, d.type, d.maneuver, d.at)
        BY <2>1 DEF Submit
      <3>2. flaws = {} /\ DecisionStatus(d) = 201
        BY <3>1, FlawedIsRefused
      <3>. HIDE DEF status
      <3>3. DecisionService!DecideAccepted(audit, d.set, d.rec, d.type, d.maneuver,
                                           d.justified, d.at)
        BY <3>2, CreatedIsAccepted
           DEF IInv, EntryAccepted, WellFormed, DecisionService!DecideAccepted,
               DecisionService!WellFormed, DecidedSets, DecidedRecommendations
      <3>4. DecisionService!Submit(d.set, d.rec, d.type, d.maneuver, d.justified, d.at)
        BY <3>1, <3>2, <3>3, CreatedIsAccepted DEF IInv, DecisionService!Submit
      <3>. QED
        BY <3>4, SubmissionFacts DEF DecisionService!Next
    <2>2. ASSUME NEW s \in Sets, Publish(s) PROVE DecisionService!Next
      <3>1. DecisionService!Publish(s)
        BY <2>2 DEF Publish, DecisionService!Publish
      <3>. QED
        BY <3>1 DEF DecisionService!Next
    <2>3. CASE Reset
      BY <2>3 DEF Reset, DecisionService!Reset, DecisionService!Next
    <2>. QED
      BY <2>1, <2>2, <2>3
         DEF Next, GetQueue, Acknowledge, GetRecommendation, GetDecisions, Refresh, vars, services
  <1>. QED
    BY <1>1, <1>2, AdaptersInvariant, PTL DEF Spec, DecisionStepsOnly, DecisionService!Spec

\* A request that is not answered with success leaves no trace in any service.
THEOREM RefusalsChangeNothing == Spec => RefusedChangesNothing
  <1>1. [Next]_vars => [answer'.status >= 400 => UNCHANGED services]_vars
    <2>. SUFFICES ASSUME Next, answer'.status >= 400 PROVE UNCHANGED services
      OBVIOUS
    <2>1. ASSUME NEW flaws \in FlawSets, NEW k \in Acknowledgements, NEW all \in BOOLEAN,
                 Acknowledge(flaws, k, all)
          PROVE  UNCHANGED services
      <3>. DEFINE status == IF flaws # {} THEN Refusal(flaws) ELSE AcknowledgeStatus(k)
      <3>. HIDE DEF status
      <3>1. answer'.status = status /\ (status # 200 => queue' = queue) /\ UNCHANGED <<catalog, audit>>
        BY <2>1 DEF Acknowledge, status
      <3>. QED
        BY <3>1 DEF services
    <2>2. ASSUME NEW flaws \in FlawSets, NEW d \in Submissions, Submit(flaws, d)
          PROVE  UNCHANGED services
      <3>. DEFINE status == IF flaws # {} THEN Refusal(flaws) ELSE DecisionStatus(d)
      <3>. HIDE DEF status
      <3>1. answer'.status = status /\ (status # 201 => audit' = audit) /\ UNCHANGED <<queue, catalog>>
        BY <2>2 DEF Submit, status
      <3>. QED
        BY <3>1 DEF services
    <2>3. (\E t \in 0 .. MaxTime, r \in Reports : Refresh(t, r)) \/ (\E s \in Sets : Publish(s)) \/ Reset
          => answer' = NoAnswer
      BY DEF Refresh, Publish, Reset
    <2>4. answer' # NoAnswer
      BY DEF NoAnswer
    <2>. QED
      BY <2>1, <2>2, <2>3, <2>4 DEF Next, GetQueue, GetRecommendation, GetDecisions
  <1>. QED
    BY <1>1, PTL DEF Spec, RefusedChangesNothing

-----------------------------------------------------------------------------
(* The queue behind its adapter. *)

\* The operators of the composed queue specification are those of ExceptionItems.
LEMMA QueueOperators ==
    /\ QueueService!Reports = Reports
    /\ QueueService!EmptyQueue = EmptyQueue
    /\ \A q, t : QueueService!TimeAccepted(q, t) <=> TimeAccepted(q, t)
    /\ \A q, t, r : QueueService!Refreshed(q, t, r) = Refreshed(q, t, r)
    /\ \A q, s, t : /\ QueueService!AcknowledgeAccepted(q, s, t) <=> AcknowledgeAccepted(q, s, t)
                    /\ QueueService!Acknowledged(q, s, t) = Acknowledged(q, s, t)
  BY DEF Reports, QueueService!Reports, EmptyQueue, QueueService!EmptyQueue,
         NoTime, QueueService!NoTime, TimeAccepted, QueueService!TimeAccepted,
         Refreshed, QueueService!Refreshed, ItemAfter, QueueService!ItemAfter,
         IsCleared, QueueService!IsCleared, IsActive, QueueService!IsActive,
         ActiveStatuses, QueueService!ActiveStatuses,
         AcknowledgeAccepted, QueueService!AcknowledgeAccepted,
         Acknowledged, QueueService!Acknowledged

\* The queue is well-typed and no item opened after its last snapshot.
OpenedInTime(q) ==
    \A s \in Subjects : q.items[s] # NoItem => q.at \in Nat /\ q.items[s].opened <= q.at

QInv == queue \in Queues /\ OpenedInTime(queue)

\* What is answered 200 is what the queue service accepts.
LEMMA AcknowledgedIsAccepted ==
    ASSUME QInv, NEW k \in Acknowledgements, AcknowledgeStatus(k) = 200
    PROVE  /\ k.exception \in Subjects /\ k.at \in 0 .. MaxTime
           /\ AcknowledgeAccepted(queue, k.exception, k.at)
  <1>1. k.exception \in Subjects /\ k.at \in 0 .. MaxTime
    BY DEF Acknowledgements
  <1>2. /\ TimeAccepted(queue, k.at)
        /\ queue.items[k.exception] # NoItem
        /\ queue.items[k.exception].status # "RESOLVED"
    BY DEF AcknowledgeStatus
  <1>3. queue.items[k.exception] \in Items
    BY <1>1, <1>2 DEF QInv, Queues
  <1>. QED
    BY <1>1, <1>2, <1>3 DEF Items, Statuses, AcknowledgeAccepted, IsActive

\* An acknowledgement that passes the adapter is a step of the queue service;
\* any other leaves the queue alone.
LEMMA AcknowledgeIsStep ==
    ASSUME QInv, NEW flaws \in FlawSets, NEW k \in Acknowledgements, NEW all \in BOOLEAN,
           Acknowledge(flaws, k, all)
    PROVE  \/ UNCHANGED queue
           \/ /\ queue' = Acknowledged(queue, k.exception, k.at)
              /\ AcknowledgeAccepted(queue, k.exception, k.at)
              /\ queue.revision < MaxRevision
              /\ k.exception \in Subjects /\ k.at \in 0 .. MaxTime
  <1>. DEFINE status == IF flaws # {} THEN Refusal(flaws) ELSE AcknowledgeStatus(k)
  <1>1. /\ queue.revision < MaxRevision
        /\ queue' = IF status = 200 THEN Acknowledged(queue, k.exception, k.at) ELSE queue
    BY DEF Acknowledge
  <1>2. status = 200 => AcknowledgeStatus(k) = 200
    BY FlawedIsRefused
  <1>. HIDE DEF status
  <1>. QED
    BY <1>1, <1>2, AcknowledgedIsAccepted

\* A refresh opens items no later than the snapshot it publishes.
LEMMA RefreshedInTime ==
    ASSUME NEW q \in Queues, OpenedInTime(q), NEW t \in Nat, NEW r \in Reports, t >= q.at
    PROVE  OpenedInTime(Refreshed(q, t, r))
  <1>. DEFINE p == Refreshed(q, t, r)
  <1>. SUFFICES ASSUME NEW s \in Subjects, p.items[s] # NoItem
                PROVE  p.at \in Nat /\ p.items[s].opened <= p.at
    BY DEF OpenedInTime
  <1>1. /\ p.at = t
        /\ p.items[s] = IF r[s] = Omitted THEN q.items[s] ELSE ItemAfter(q.items[s], r[s], t)
    BY DEF Refreshed
  <1>2. q.items[s] # NoItem => q.items[s] \in Items /\ q.at \in Nat /\ q.items[s].opened <= q.at
    BY DEF Queues, OpenedInTime
  <1>3. q.items[s] # NoItem => q.items[s].opened <= t
    BY <1>2 DEF Items
  <1>. HIDE DEF p
  <1>4. CASE r[s] = Omitted
    BY <1>1, <1>3, <1>4
  <1>5. CASE r[s] # Omitted
    <2>1. p.items[s] = ItemAfter(q.items[s], r[s], t)
      BY <1>1, <1>5
    <2>2. CASE IsCleared(r[s])
      BY <1>1, <1>3, <2>1, <2>2 DEF ItemAfter
    <2>3. CASE ~IsCleared(r[s])
      BY <1>1, <1>3, <2>1, <2>3 DEF ItemAfter, IsActive
    <2>. QED
      BY <2>2, <2>3
  <1>. QED
    BY <1>4, <1>5

\* An acknowledgement opens nothing.
LEMMA AcknowledgedInTime ==
    ASSUME NEW q \in Queues, OpenedInTime(q), NEW u \in Subjects, NEW t \in Nat,
           AcknowledgeAccepted(q, u, t)
    PROVE  OpenedInTime(Acknowledged(q, u, t))
  <1>. DEFINE p == Acknowledged(q, u, t)
  <1>. SUFFICES ASSUME NEW s \in Subjects, p.items[s] # NoItem
                PROVE  p.at \in Nat /\ p.items[s].opened <= p.at
    BY DEF OpenedInTime
  <1>1. t >= q.at /\ q.items[u] \in Items /\ q.items \in [Subjects -> Items \cup {NoItem}]
    BY DEF AcknowledgeAccepted, TimeAccepted, IsActive, Queues
  <1>2. p.at = t
    BY DEF Acknowledged
  <1>3. /\ q.items[s] # NoItem
        /\ p.items[s].opened = q.items[s].opened
    <2>1. CASE q.items[u].status = "ACKNOWLEDGED"
      BY <2>1 DEF Acknowledged
    <2>2. CASE q.items[u].status # "ACKNOWLEDGED"
      <3>1. p.items = [q.items EXCEPT ![u].status = "ACKNOWLEDGED", ![u].updated = t]
        BY <2>2 DEF Acknowledged
      <3>2. CASE s = u
        BY <1>1, <3>1, <3>2, NoItemAssumption DEF Items
      <3>3. CASE s # u
        BY <1>1, <3>1, <3>3
      <3>. QED
        BY <3>2, <3>3
    <2>. QED
      BY <2>1, <2>2
  <1>4. q.at \in Nat /\ q.items[s].opened <= q.at /\ q.items[s] \in Items
    BY <1>1, <1>3 DEF OpenedInTime
  <1>. HIDE DEF p
  <1>. QED
    BY <1>1, <1>2, <1>3, <1>4 DEF Items

\* Whatever clients send, the queue stays well-typed and its items opened no
\* later than the last snapshot.
THEOREM QueueBehindAdapters == Spec => []QInv
  <1>1. EmptyQueue \in Queues /\ OpenedInTime(EmptyQueue)
    BY EmptyQueueType DEF OpenedInTime, EmptyQueue
  <1>2. Init => QInv
    BY <1>1 DEF Init, QInv
  <1>3. QInv /\ [Next]_vars => QInv'
    <2>. SUFFICES ASSUME QInv, [Next]_vars, queue' # queue PROVE QInv'
      BY DEF QInv
    <2>1. ASSUME NEW flaws \in FlawSets, NEW k \in Acknowledgements, NEW all \in BOOLEAN,
                 Acknowledge(flaws, k, all)
          PROVE  QInv'
      <3>1. /\ queue' = Acknowledged(queue, k.exception, k.at)
            /\ AcknowledgeAccepted(queue, k.exception, k.at)
            /\ k.exception \in Subjects /\ k.at \in Nat
        BY <2>1, AcknowledgeIsStep, FlawSetsAssumption
      <3>. QED
        BY <3>1, AcknowledgedType, AcknowledgedInTime DEF QInv
    <2>2. ASSUME NEW t \in 0 .. MaxTime, NEW r \in Reports, Refresh(t, r)
          PROVE  QInv'
      <3>1. queue' = Refreshed(queue, t, r) /\ t \in Nat /\ t >= queue.at
        BY <2>2, FlawSetsAssumption DEF Refresh, TimeAccepted
      <3>. QED
        BY <3>1, RefreshedType, RefreshedInTime DEF QInv
    <2>3. CASE Reset
      BY <1>1, <2>3 DEF Reset, QInv
    <2>. QED
      BY <2>1, <2>2, <2>3
         DEF Next, GetQueue, GetRecommendation, GetDecisions, Submit, Publish, vars, services
  <1>. QED
    BY <1>2, <1>3, PTL DEF Spec

\* The queue goes only through steps of its specification: an acknowledgement
\* answered 200 is one of the service, everything else a refresh, a reset or
\* nothing.
THEOREM QueuesRefineService == Spec => QueueStepsOnly
  <1>. USE QueueOperators
  <1>1. Init => QueueService!Init
    BY DEF Init, QueueService!Init
  <1>2. QInv /\ [Next]_vars => [QueueService!Next]_(QueueService!vars)
    <2>. SUFFICES ASSUME QInv, [Next]_vars, queue' # queue PROVE QueueService!Next
      BY DEF QueueService!vars
    <2>1. ASSUME NEW flaws \in FlawSets, NEW k \in Acknowledgements, NEW all \in BOOLEAN,
                 Acknowledge(flaws, k, all)
          PROVE  QueueService!Next
      <3>1. /\ QueueService!Acknowledge(k.exception, k.at)
            /\ k.exception \in Subjects /\ k.at \in 0 .. MaxTime
        BY <2>1, AcknowledgeIsStep DEF QueueService!Acknowledge
      <3>. QED
        BY <3>1 DEF QueueService!Next
    <2>2. ASSUME NEW t \in 0 .. MaxTime, NEW r \in Reports, Refresh(t, r)
          PROVE  QueueService!Next
      <3>1. QueueService!Refresh(t, r)
        BY <2>2 DEF Refresh, QueueService!Refresh
      <3>. QED
        BY <3>1 DEF QueueService!Next
    <2>3. CASE Reset
      BY <2>3 DEF Reset, QueueService!Reset, QueueService!Next
    <2>. QED
      BY <2>1, <2>2, <2>3
         DEF Next, GetQueue, GetRecommendation, GetDecisions, Submit, Publish, vars, services
  <1>. QED
    BY <1>1, <1>2, QueueBehindAdapters, PTL DEF Spec, QueueStepsOnly, QueueService!Spec

\* An acknowledgement sent again acknowledges nothing that opened after it.
THEOREM RetriesAcknowledgeNothingNew == Spec => []RetryAcknowledgesNothingNew
  <1>1. QInv => RetryAcknowledgesNothingNew
    <2>. SUFFICES ASSUME QInv, settled \in Acknowledgements, AcknowledgeStatus(settled) = 200
                  PROVE  queue.items[settled.exception].opened <= settled.at
      BY DEF RetryAcknowledgesNothingNew
    <2>1. /\ settled.exception \in Subjects /\ settled.at \in Nat /\ settled.at >= queue.at
          /\ queue.items[settled.exception] # NoItem
      BY AcknowledgedIsAccepted, FlawSetsAssumption
         DEF AcknowledgeAccepted, TimeAccepted, IsActive
    <2>2. /\ queue.at \in Nat /\ queue.items[settled.exception].opened <= queue.at
          /\ queue.items[settled.exception].opened \in Nat
      BY <2>1 DEF QInv, OpenedInTime, Queues, Items
    <2>. QED
      BY <2>1, <2>2
  <1>. QED
    BY <1>1, QueueBehindAdapters, PTL

-----------------------------------------------------------------------------
(* What the list shows. *)

\* A client that has just been shown the list has been shown the queue as it is.
ListInv == answer.shown.kind = "QUEUE" => \E all \in BOOLEAN : answer.shown = QueueView(queue, all)

\* Only the list of exceptions is a list of exceptions.
LEMMA OtherViews ==
    /\ Nothing.kind # "QUEUE" /\ NoAnswer.shown = Nothing /\ NoContent.shown = Nothing
    /\ \A s : RecommendationView(s).kind # "QUEUE"
    /\ \A a : LogView(a).kind # "QUEUE"
    /\ \A v : OK(v).shown = v
  BY DEF Nothing, NoAnswer, NoContent, RecommendationView, LogView, OK

\* Each answer that shows a list shows the queue after the request.
THEOREM ListInvariant == Spec => []ListInv
  <1>1. Init => ListInv
    BY OtherViews DEF Init, ListInv
  <1>2. ListInv /\ [Next]_vars => ListInv'
    <2>. SUFFICES ASSUME ListInv, [Next]_vars, answer'.shown.kind = "QUEUE"
                  PROVE  \E all \in BOOLEAN : answer'.shown = QueueView(queue', all)
      <3>1. \A all : QueueView(queue, all)' = QueueView(queue', all')
        BY DEF QueueView, ListedItems, ShownItems, TopItem, Selected, Arranged, Known, Precedes,
               SortKey, IsActive
      <3>. QED
        BY <3>1 DEF ListInv
    <2>1. ASSUME NEW flaws \in FlawSets, NEW all \in BOOLEAN, GetQueue(flaws, all)
          PROVE  answer'.shown = QueueView(queue', all)
      <3>1. queue' = queue
        BY <2>1 DEF GetQueue, services
      <3>2. answer'.shown = Nothing \/ answer'.shown = QueueView(queue, all)
        BY <2>1, OtherViews DEF GetQueue, NoAnswer
      <3>. QED
        BY <3>1, <3>2, OtherViews
    <2>2. ASSUME NEW flaws \in FlawSets, NEW k \in Acknowledgements, NEW all \in BOOLEAN,
                 Acknowledge(flaws, k, all)
          PROVE  answer'.shown = QueueView(queue', all)
      <3>1. answer'.shown = Nothing \/ answer'.shown = QueueView(queue', all)
        BY <2>2 DEF Acknowledge
      <3>. QED
        BY <3>1, OtherViews
    <2>3. ASSUME NEW flaws \in FlawSets, GetRecommendation(flaws)
          PROVE  answer'.shown.kind # "QUEUE"
      BY <2>3, OtherViews DEF GetRecommendation, NoAnswer
    <2>4. ASSUME NEW flaws \in FlawSets, GetDecisions(flaws)
          PROVE  answer'.shown.kind # "QUEUE"
      BY <2>4, OtherViews DEF GetDecisions, NoAnswer
    <2>5. ASSUME NEW flaws \in FlawSets, NEW d \in Submissions, Submit(flaws, d)
          PROVE  answer'.shown.kind # "QUEUE"
      BY <2>5, OtherViews DEF Submit
    <2>6. (\E t \in 0 .. MaxTime, r \in Reports : Refresh(t, r)) \/ (\E s \in Sets : Publish(s)) \/ Reset
          => answer'.shown.kind # "QUEUE"
      BY OtherViews DEF Refresh, Publish, Reset
    <2>7. CASE UNCHANGED vars
      <3>1. queue' = queue /\ answer' = answer
        BY <2>7 DEF vars, services
      <3>. QED
        BY <3>1 DEF ListInv
    <2>. QED
      BY <2>1, <2>2, <2>3, <2>4, <2>5, <2>6, <2>7 DEF Next
  <1>. QED
    BY <1>1, <1>2, PTL DEF Spec

\* The list shows what can be worked on: the items shown as active, and no
\* others, can be acknowledged; and of a list with the resolved items, one that
\* it does not show is not found.
THEOREM ListShowsWhatCanBeAcknowledged == Spec => []ListTellsWhatCanBeAcknowledged
  <1>1. QInv /\ ListInv => ListTellsWhatCanBeAcknowledged
    <2>. DEFINE Shown(k) == {i \in DOMAIN answer.shown.ids : answer.shown.ids[i] = k.exception}
    <2>. SUFFICES ASSUME QInv, ListInv, answer.shown.kind = "QUEUE",
                         NEW k \in Acknowledgements, k.at >= answer.shown.at
                  PROVE  /\ AcknowledgeStatus(k) = 200 <=>
                               /\ Shown(k) # {}
                               /\ answer.shown.items[k.exception].status # "RESOLVED"
                         /\ AcknowledgeStatus(k) = 404 => Shown(k) = {}
      BY DEF ListTellsWhatCanBeAcknowledged
    <2>. DEFINE s == k.exception
                i == queue.items[s]
    <2>1. PICK all \in BOOLEAN : answer.shown = QueueView(queue, all)
      BY DEF ListInv
    <2>. DEFINE S == Selected(queue, all)
    <2>2. /\ answer.shown.ids = Arranged(queue, S) /\ answer.shown.at = queue.at
          /\ answer.shown.items = [u \in S |-> queue.items[u]]
      BY <2>1 DEF QueueView, ListedItems, ShownItems
    <2>3. queue \in Queues /\ s \in Subjects /\ i \in Items \cup {NoItem}
      BY DEF QInv, Acknowledgements, Queues
    <2>4. s \in S <=> i # NoItem /\ (all \/ IsActive(i))
      BY <2>3 DEF Selected, Known
    <2>5. S \in SUBSET Known(queue)
      BY DEF Selected
    <2>6. Shown(k) # {} <=> s \in S
      <3>. DEFINE f == Arranged(queue, S)
      <3>1. f \in [1 .. Cardinality(S) -> S] /\ \A u \in S : \E n \in DOMAIN f : f[n] = u
        BY <2>3, <2>5, ArrangedFacts
      <3>. HIDE DEF f, S
      <3>2. Shown(k) = {n \in DOMAIN f : f[n] = s}
        BY <2>2 DEF f
      <3>3. \A n \in DOMAIN f : f[n] \in S
        BY <3>1
      <3>. QED
        BY <3>1, <3>2, <3>3
    <2>7. s \in S => answer.shown.items[k.exception] = i
      BY <2>2
    <2>8. i # NoItem => (IsActive(i) <=> i.status # "RESOLVED")
      BY <2>3 DEF IsActive, Items, Statuses, ActiveStatuses
    <2>9. AcknowledgeStatus(k) = IF i = NoItem THEN 404
                                 ELSE IF i.status = "RESOLVED" THEN 409 ELSE 200
      BY <2>2 DEF AcknowledgeStatus, TimeAccepted
    <2>. HIDE DEF S, s, i, Shown
    <2>. QED
      BY <2>4, <2>6, <2>7, <2>8, <2>9
  <1>. QED
    BY <1>1, QueueBehindAdapters, ListInvariant, PTL
=============================================================================
