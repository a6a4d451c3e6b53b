---------------------------- MODULE HttpAdapters ----------------------------
(***************************************************************************)
(* The WSGI adapters of the exception queue, of the current recommendation *)
(* and of the controller decisions, with the in-process APIs and read      *)
(* models behind them.  Each exchange is one step: a request is checked,   *)
(* the service called, the result shown or an error turned into a status.  *)
(* The steps of the simulation that feed the services run in between.      *)
(*                                                                         *)
(* A request that is wrong in itself is the set of what is wrong with it.  *)
(* Any client may send any request again, not knowing whether an earlier   *)
(* one arrived.                                                            *)
(***************************************************************************)
EXTENDS ExceptionItems, DecisionAudit

CONSTANTS
    FlawSets,      \* what may be wrong with one request
    Submissions,   \* the decisions that clients send
    MaxTime,       \* bound on operation times
    MaxRevision    \* bound on published snapshots between resets

\* What the adapters check before they call a service, in this order, with the
\* status of a request that fails the check.
Checks == << <<"route", 404>>, <<"method", 405>>, <<"query", 400>>, <<"media type", 415>>,
             <<"length", 400>>, <<"size", 413>>, <<"text", 400>>, <<"object", 422>>,
             <<"fields", 422>>, <<"values", 422>> >>

ASSUME FlawSetsAssumption ==
    /\ FlawSets \subseteq SUBSET {Checks[i][1] : i \in DOMAIN Checks}
    /\ MaxTime \in Nat /\ MaxRevision \in Nat

Acknowledgements == [exception : Subjects, at : 0 .. MaxTime]

Decisions == [set : Sets, rec : Recommendations, type : DecisionTypes,
              maneuver : Maneuvers \cup {NoManeuver}, justified : BOOLEAN, at : 0 .. MaxTime]

ASSUME SubmissionsAssumption == Submissions \subseteq Decisions

VARIABLES
    queue, catalog, audit,  \* the services behind the adapters
    answer,                 \* the answer to the last request: status and what it shows
    settled                 \* a request that was executed, or refused as a conflict,
                            \* in this run: some client may send it again

services == <<queue, catalog, audit>>
vars == <<services, answer, settled>>

-----------------------------------------------------------------------------
(* The read models: what the services' current values look like to clients. *)

\* The resolved items are left out unless they are asked for; what is left keeps
\* its order.
Selected(q, all) == {s \in Known(q) : all \/ IsActive(q.items[s])}

ListedItems(q, all) == Arranged(q, Selected(q, all))

ShownItems(q, all) == [s \in Selected(q, all) |-> q.items[s]]

\* The first of the active items, if there is one.
TopItem(q) == {s \in Selected(q, FALSE) : s = ListedItems(q, FALSE)[1]}

\* Faulty variant: the default list leaves out what has been acknowledged.
QueueViewOpenOnly(q, all) ==
    [kind   |-> "QUEUE", at |-> q.at, revision |-> q.revision,
     ids    |-> Arranged(q, {s \in Selected(q, all) : all \/ q.items[s].status = "OPEN"}),
     items  |-> ShownItems(q, all), active |-> Cardinality(Selected(q, FALSE)),
     top    |-> TopItem(q)]

\* The count and the top item do not depend on whether resolved items are asked for.
QueueView(q, all) ==
    [kind   |-> "QUEUE", at |-> q.at, revision |-> q.revision,
     ids    |-> ListedItems(q, all),
     items  |-> ShownItems(q, all), active |-> Cardinality(Selected(q, FALSE)),
     top    |-> TopItem(q)]

ShownRecommendation(r) == [recommendation |-> r, maneuver |-> Proposed[r]]

RecommendationView(s) ==
    [kind |-> "RECOMMENDATION", set |-> s, at |-> Generated[s],
     recommendations |-> {ShownRecommendation(r) : r \in Holds[s]}]

ShownEntry(e) ==
    [decision |-> e, authorizes_application |-> e.type = "ACCEPT",
     requires_revalidation |-> e.type = "MODIFY"]

\* Faulty variant: only the latest decision is shown.
LogViewLatest(a) ==
    [kind    |-> "LOG", at |-> a.at, revision |-> a.revision,
     entries |-> {ShownEntry(LatestEntry(a))}, latest |-> LatestEntry(a).revision]

LogView(a) ==
    [kind    |-> "LOG", at |-> a.at, revision |-> a.revision,
     entries |-> {ShownEntry(e) : e \in a.entries}, latest |-> LatestEntry(a).revision]

Nothing == [kind |-> "NOTHING"]

OK(view)  == [status |-> 200, shown |-> view]
NoContent == [status |-> 204, shown |-> Nothing]
NoAnswer  == [status |-> 0, shown |-> Nothing]

-----------------------------------------------------------------------------
(* The statuses.  The APIs raise KeyError, ValueError and TypeError; the   *)
(* adapters tell conflicts from bad requests by the message.               *)

\* The first check that fails decides.
Refusal(flaws) ==
    LET first == CHOOSE i \in DOMAIN Checks :
                     /\ Checks[i][1] \in flaws
                     /\ \A j \in 1 .. (i - 1) : Checks[j][1] \notin flaws
    IN  Checks[first][2]

\* Faulty variant: a resolved item can be acknowledged.
AcknowledgeStatusOfKnown(k) ==
    IF ~TimeAccepted(queue, k.at) THEN 409
    ELSE IF queue.items[k.exception] = NoItem THEN 404
    ELSE 200

\* Faulty variant: the time of the client is not compared with the last snapshot.
AcknowledgeStatusAnytime(k) ==
    IF queue.items[k.exception] = NoItem THEN 404
    ELSE IF queue.items[k.exception].status = "RESOLVED" THEN 409
    ELSE 200

AcknowledgeStatus(k) ==
    IF ~TimeAccepted(queue, k.at) THEN 409
    ELSE IF queue.items[k.exception] = NoItem THEN 404
    ELSE IF queue.items[k.exception].status = "RESOLVED" THEN 409
    ELSE 200

EntryAccepted(d) ==
    /\ d.at >= Generated[d.set]
    /\ WellFormed(d.set, d.rec, d.type, d.maneuver, d.justified)

DecidedSets == {e.set : e \in audit.entries}
DecidedRecommendations == {e.rec : e \in audit.entries}

\* Faulty variant: whether the set has been decided is looked at last.
DecisionStatusSetLast(d) ==
    IF d.set \notin catalog.published THEN 404
    ELSE IF d.at < audit.at THEN 409
    ELSE IF d.rec \notin Holds[d.set] THEN 404
    ELSE IF ~EntryAccepted(d) \/ d.rec \in DecidedRecommendations THEN 422
    ELSE IF d.set \in DecidedSets THEN 409
    ELSE 201

\* Faulty variant: the time of the client is not compared with the last log.
DecisionStatusOutOfOrder(d) ==
    IF d.set \notin catalog.published THEN 404
    ELSE IF d.set \in DecidedSets THEN 409
    ELSE IF d.rec \notin Holds[d.set] THEN 404
    ELSE IF ~EntryAccepted(d) \/ d.rec \in DecidedRecommendations THEN 422
    ELSE 201

DecisionStatus(d) ==
    IF d.set \notin catalog.published THEN 404
    ELSE IF d.at < audit.at \/ d.set \in DecidedSets THEN 409
    ELSE IF d.rec \notin Holds[d.set] THEN 404
    ELSE IF ~EntryAccepted(d) \/ d.rec \in DecidedRecommendations THEN 422
    ELSE 201

\* A client may keep this request in mind, or go on minding another.
Minded(request, status, those) ==
    settled' \in {settled} \cup {r \in {request} : status \in those}

-----------------------------------------------------------------------------
Init ==
    /\ queue = EmptyQueue
    /\ catalog = EmptyCatalog
    /\ audit = EmptyAudit
    /\ answer = NoAnswer
    /\ settled = Nothing

GetQueue(flaws, all) ==
    /\ answer' = IF flaws # {} THEN [NoAnswer EXCEPT !.status = Refusal(flaws)]
                 ELSE IF queue.at = NoTime THEN NoContent
                 ELSE OK(QueueView(queue, all))
    /\ UNCHANGED <<services, settled>>

\* POST /api/v1/exceptions/{exception_id}/acknowledgements
Acknowledge(flaws, k, all) ==
    LET status == IF flaws # {} THEN Refusal(flaws) ELSE AcknowledgeStatus(k)
        after  == IF status = 200 THEN Acknowledged(queue, k.exception, k.at) ELSE queue
    IN  /\ queue.revision < MaxRevision
        /\ queue' = after
        /\ answer' = [status |-> status,
                      shown |-> IF status = 200 THEN QueueView(after, all) ELSE Nothing]
        /\ Minded(k, status, {200})
        /\ UNCHANGED <<catalog, audit>>

GetRecommendation(flaws) ==
    /\ answer' = IF flaws # {} THEN [NoAnswer EXCEPT !.status = Refusal(flaws)]
                 ELSE IF catalog.current = NoSet THEN NoContent
                 ELSE OK(RecommendationView(catalog.current))
    /\ UNCHANGED <<services, settled>>

GetDecisions(flaws) ==
    /\ answer' = IF flaws # {} THEN [NoAnswer EXCEPT !.status = Refusal(flaws)]
                 ELSE IF audit.revision = 0 THEN NoContent
                 ELSE OK(LogView(audit))
    /\ UNCHANGED <<services, settled>>

\* POST /api/v1/controller-decisions
Submit(flaws, d) ==
    LET status == IF flaws # {} THEN Refusal(flaws) ELSE DecisionStatus(d)
        after  == IF status = 201 THEN Decided(audit, d.set, d.rec, d.type, d.maneuver, d.at)
                  ELSE audit
    IN  /\ audit' = after
        /\ answer' = [status |-> status,
                      shown |-> IF status = 201 THEN LogView(after) ELSE Nothing]
        /\ Minded(d, status, {201, 409})
        /\ UNCHANGED <<queue, catalog>>

\* The step orchestrator feeds the queue, the resolution step the catalog, and
\* a new run forgets everything.
Refresh(t, r) ==
    /\ queue.revision < MaxRevision
    /\ TimeAccepted(queue, t)
    /\ queue' = Refreshed(queue, t, r)
    /\ answer' = NoAnswer
    /\ UNCHANGED <<catalog, audit, settled>>

Publish(s) ==
    /\ PublishAccepted(catalog, s)
    /\ catalog' = Published(catalog, s)
    /\ answer' = NoAnswer
    /\ UNCHANGED <<queue, audit, settled>>

Reset ==
    /\ queue' = EmptyQueue
    /\ catalog' = EmptyCatalog
    /\ audit' = EmptyAudit
    /\ answer' = NoAnswer
    /\ settled' = Nothing

Next ==
    \/ \E flaws \in FlawSets, all \in BOOLEAN : GetQueue(flaws, all)
    \/ \E flaws \in FlawSets, k \in Acknowledgements, all \in BOOLEAN :
          Acknowledge(flaws, k, all)
    \/ \E flaws \in FlawSets : GetRecommendation(flaws)
    \/ \E flaws \in FlawSets : GetDecisions(flaws)
    \/ \E flaws \in FlawSets, d \in Submissions : Submit(flaws, d)
    \/ \E t \in 0 .. MaxTime, r \in Reports : Refresh(t, r)
    \/ \E s \in Sets : Publish(s)
    \/ Reset

Spec == Init /\ [][Next]_vars

-----------------------------------------------------------------------------
\* Whatever clients send, in whatever order and however often, the queue behind
\* its adapter goes through steps of the Exception Queue specification only.
QueueService == INSTANCE ExceptionQueue
QueueStepsOnly == QueueService!Spec

\* The same for the catalog and the audit log behind theirs.
DecisionService == INSTANCE ControllerDecision
DecisionStepsOnly == DecisionService!Spec

\* A request that is not answered with success has left no trace in any service
\* ("a failed request does not change the revision of the Decision Service").
RefusedChangesNothing ==
    [][answer'.status >= 400 => UNCHANGED services]_vars

\* What the list shows is what can be worked on: the items it shows as active,
\* and no others, can be acknowledged from the time of the list on; when the
\* list includes the resolved items, one it does not show is not found.
ListTellsWhatCanBeAcknowledged ==
    answer.shown.kind = "QUEUE" =>
        \A k \in Acknowledgements :
            k.at >= answer.shown.at =>
                LET shown == {i \in DOMAIN answer.shown.ids : answer.shown.ids[i] = k.exception}
                IN  /\ AcknowledgeStatus(k) = 200 <=>
                          /\ shown # {}
                          /\ answer.shown.items[k.exception].status # "RESOLVED"
                    /\ AcknowledgeStatus(k) = 404 => shown = {}

\* An acknowledgement that took effect and is sent again, its answer lost, does
\* not acknowledge a new occurrence of the exception that the controller has not
\* seen, unless it opened at the very time of the acknowledgement.
RetryAcknowledgesNothingNew ==
    settled \in Acknowledgements /\ AcknowledgeStatus(settled) = 200 =>
        \/ queue.items[settled.exception].status = "ACKNOWLEDGED"
        \/ queue.items[settled.exception].opened <= settled.at

\* The log tells which decisions are still open: a well-formed decision on a
\* published set, no older than the log, is recorded exactly when no entry shown
\* has its set or its recommendation.
LogTellsWhatIsOpen ==
    answer.shown.kind = "LOG" =>
        \A d \in Submissions :
            /\ d.set \in catalog.published /\ d.rec \in Holds[d.set]
            /\ EntryAccepted(d)
            /\ d.at >= answer.shown.at
            => (DecisionStatus(d) = 201 <=>
                   \A e \in answer.shown.entries :
                       e.decision.set # d.set /\ e.decision.rec # d.rec)

\* A decision that was recorded, or refused as a conflict, and is sent again is
\* refused as a conflict until the run is reset, whatever others do in between:
\* a client that retries never records twice and never learns that a decision
\* of its own was unknown or malformed.
SettledStaysSettled ==
    settled \in Submissions => DecisionStatus(settled) = 409
=============================================================================
