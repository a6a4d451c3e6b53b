-------------------------- MODULE DashboardClient --------------------------
(***************************************************************************)
(* The dashboard tabs of one local server.  A tab shows the session that   *)
(* the last answer brought, sends the command that the stage shown calls   *)
(* for, and locks its controls while a request is in flight; its playback  *)
(* sends commands of its own when it reaches a cue.  The server handles    *)
(* one request at a time, on a session that follows SessionWorkflow.  The  *)
(* network may fail a request before or after the server has handled it,   *)
(* and a page may be reloaded at any time; the server may still handle a   *)
(* request whose tab has given up on it.                                   *)
(***************************************************************************)
EXTENDS PlaybackPlayer

CONSTANTS
    Tabs,
    Maneuvers, NoManeuver, Recommended, SafeManeuvers,
    Raising,       \* modified maneuvers whose validation raises
    Malformed,     \* what a form holds that the server finds invalid
    ManifestLoads, \* whether the playback manifest can be fetched
    MaxRuns,       \* bound on RESET
    MaxAbandoned,  \* bound on requests that outlive their tab
    MaxReloads     \* bound on page loads after the first

ASSUME FormsAssumption ==
    /\ Recommended \in Maneuvers /\ SafeManeuvers \subseteq Maneuvers
    /\ Raising \subseteq Maneuvers \ {Recommended}
    /\ NoManeuver \notin Maneuvers /\ Malformed \notin Maneuvers \cup {NoManeuver}
ASSUME ClientBoundsAssumption ==
    /\ MaxRuns \in Nat /\ MaxAbandoned \in Nat /\ MaxReloads \in Nat
    /\ ManifestLoads \in BOOLEAN

VARIABLES
    run, stage, choice, moved,  \* the session, as SessionWorkflow has it
    version,     \* commands that have taken effect so far
    requests,    \* sent and not yet settled, of all tabs
    view, busy, mode, connection, player,  \* of each tab
    unseen,      \* per tab, the version that its latest command made, if the tab
                 \* waited for the answer and has not shown it yet, or 0
    reloads

session == <<run, stage, choice, moved, version>>
screen == <<view, mode, player>>
vars == <<session, requests, screen, busy, connection, unseen, reloads>>

Session == INSTANCE SessionWorkflow

\* The stage at which the server takes each command, RESET at any.
CheckpointOf ==
    [START |-> "READY", ADVANCE_TO_CONFLICT |-> "MONITORING",
     GENERATE_RECOMMENDATION |-> "CONFLICT_DETECTED",
     ACCEPT_RECOMMENDATION |-> "RECOMMENDATION_AVAILABLE",
     MODIFY_RECOMMENDATION |-> "RECOMMENDATION_AVAILABLE",
     REJECT_RECOMMENDATION |-> "RECOMMENDATION_AVAILABLE",
     REVALIDATE_MODIFIED_MANEUVER |-> "DECISION_MODIFIED",
     APPLY_APPROVED_MANEUVER |-> "DECISION_ACCEPTED",
     APPLY_VALIDATED_MODIFIED_MANEUVER |-> "MODIFICATION_REVALIDATED"]

Fetch == "GET"

\* What a tab knows of the session: of the read model, the stage and whether
\* a revalidated modification is safe to apply; the version says which one.
NoView == [version |-> -1, stage |-> "NONE", safe |-> FALSE]

Elapsed(s) ==
    CASE s \in {"READY", "MONITORING"} -> 0
      [] s = "CONFLICT_DETECTED" -> 70
      [] s = "RECOMMENDATION_AVAILABLE" -> 75
      [] OTHER -> 90

\* A command or a fetch, with the form that was filled in; seen is the stage that
\* the tab showed when it sent the request.
NewRequest(t, what, form) ==
    [tab |-> t, what |-> what, form |-> form, seen |-> view[t].stage,
     phase |-> "SENT", status |-> "NONE", session |-> NoView]

\* A tab whose manifest cannot be fetched keeps the session and its commands.
FirstPlayer == [InitialPlayer EXCEPT !.manifest = IF ManifestLoads THEN @ ELSE "FAILED"]

\* Every page load fetches the session and the manifest.
Init ==
    /\ Session!Init
    /\ version = 0
    /\ view = [t \in Tabs |-> NoView]
    /\ requests = {NewRequest(t, Fetch, NoManeuver) : t \in Tabs}
    /\ busy = [t \in Tabs |-> TRUE]
    /\ mode = [t \in Tabs |-> "NONE"]
    /\ connection = [t \in Tabs |-> "loading"]
    /\ player = [t \in Tabs |-> FirstPlayer]
    /\ unseen = [t \in Tabs |-> 0]
    /\ reloads = 0

-----------------------------------------------------------------------------
(* The server handles one request. *)

\* The inputs of a command are validated before its checkpoint is.
Invalid(r) ==
    \/ r.form = Malformed
    \/ /\ r.what = "MODIFY_RECOMMENDATION" /\ r.form = Recommended
       /\ stage \notin {"READY", "MONITORING", "CONFLICT_DETECTED"}

Refused(r) ==
    /\ r.what # "RESET"
    /\ \/ stage # CheckpointOf[r.what]
       \/ r.what = "APPLY_VALIDATED_MODIFIED_MANEUVER" /\ choice \notin SafeManeuvers
       \/ stage \in {"DECISION_ACCEPTED", "MODIFICATION_REVALIDATED"} /\ moved # {}

Raises(r) == r.what = "REVALIDATE_MODIFIED_MANEUVER" /\ choice \in Raising

\* What the command does to the session, once it is neither.
Effect(r) ==
    CASE r.what = "RESET" -> Session!NewRun
      [] r.what = "START" -> Session!Proceed("READY", "MONITORING")
      [] r.what = "ADVANCE_TO_CONFLICT" ->
            Session!Proceed("MONITORING", "CONFLICT_DETECTED")
      [] r.what = "GENERATE_RECOMMENDATION" ->
            Session!Proceed("CONFLICT_DETECTED", "RECOMMENDATION_AVAILABLE")
      [] r.what = "ACCEPT_RECOMMENDATION" ->
            Session!Decide("DECISION_ACCEPTED", Recommended)
      [] r.what = "MODIFY_RECOMMENDATION" -> Session!Decide("DECISION_MODIFIED", r.form)
      [] r.what = "REJECT_RECOMMENDATION" ->
            Session!Decide("DECISION_REJECTED", NoManeuver)
      [] r.what = "REVALIDATE_MODIFIED_MANEUVER" ->
            Session!Proceed("DECISION_MODIFIED", "MODIFICATION_REVALIDATED")
      [] OTHER -> Session!Apply

Snapshot(v, s, c) ==
    [version |-> v, stage |-> s, safe |-> s = "MODIFICATION_REVALIDATED" /\ c \in SafeManeuvers]

\* The answer goes to the tab that still waits for it.
Answer(r, status, shown) ==
    requests' = (requests \ {r}) \cup
        (IF r.phase = "ABANDONED" THEN {}
         ELSE {[r EXCEPT !.phase = "ANSWERED", !.status = status, !.session = shown]})

ServeUnchanged(r, status, shown) ==
    /\ Answer(r, status, shown)
    /\ UNCHANGED <<session, unseen>>

\* An application that fails half-way has moved the aircraft and is answered
\* as a conflict.
ServeEffect(r) ==
    /\ Effect(r)
    /\ version' = version + 1
    /\ unseen' = [unseen EXCEPT ![r.tab] = IF r.phase = "SENT" THEN version' ELSE @]
    /\ LET halfway == r.what # "RESET" /\ stage' = stage
       IN  Answer(r, IF halfway THEN "CONFLICT" ELSE "OK",
                  IF halfway THEN NoView ELSE Snapshot(version', stage', choice'))

Serve(r) ==
    /\ r.phase \in {"SENT", "ABANDONED"}
    /\ IF r.what = Fetch THEN ServeUnchanged(r, "OK", Snapshot(version, stage, choice))
       ELSE IF Invalid(r) THEN ServeUnchanged(r, "INVALID", NoView)
       ELSE IF Refused(r) THEN ServeUnchanged(r, "CONFLICT", NoView)
       ELSE IF Raises(r) THEN ServeUnchanged(r, "BROKEN", NoView)
       ELSE ServeEffect(r)
    /\ UNCHANGED <<screen, busy, connection, reloads>>

-----------------------------------------------------------------------------
(* A tab sends and receives. *)

\* Faulty variant: once the session is on the screen, nothing stops a request.
CanSendAnytime(t) == busy[t] => view[t] # NoView

\* requestBusy locks the tab from the request to its last answer.
CanSend(t) == ~busy[t]

Send(t, what, form) ==
    /\ requests' = requests \cup {NewRequest(t, what, form)}
    /\ busy' = [busy EXCEPT ![t] = TRUE]
    /\ connection' = [connection EXCEPT ![t] = "loading"]

\* Faulty variant: the decision form survives the decision.
ModeKept(t, s) == mode[t]

ModeAfter(t, s) == IF s.stage = "RECOMMENDATION_AVAILABLE" THEN mode[t] ELSE "NONE"

Shown(t, s) == Synchronized(player[t], s.stage, Elapsed(s.stage), view[t].stage)

\* After START the playback runs, or will once its manifest has come.
Begun(p) == [Started(p) EXCEPT !.autoStart = p.manifest = "LOADING"]

Render(t, r) ==
    /\ view' = [view EXCEPT ![t] = r.session]
    /\ mode' = [mode EXCEPT ![t] = ModeAfter(t, r.session)]
    /\ player' = [player EXCEPT ![t] = IF r.what = "START" THEN Begun(Shown(t, r.session))
                                       ELSE Shown(t, r.session)]
    /\ unseen' = [unseen EXCEPT ![t] = IF r.session.version >= @ THEN 0 ELSE @]

Settle(t, r, status) ==
    /\ requests' = requests \ {r}
    /\ busy' = [busy EXCEPT ![t] = FALSE]
    /\ connection' = [connection EXCEPT ![t] = status]

ReceiveOK(t, r) == r.status = "OK" /\ Render(t, r) /\ Settle(t, r, "online")

\* Faulty variant: a conflict is reported and the screen left as it is.
ReceiveConflictOnly(t, r) ==
    /\ r.status = "CONFLICT"
    /\ Settle(t, r, "online")
    /\ UNCHANGED <<screen, unseen>>

\* A conflict makes the tab fetch the session before it unlocks.
ReceiveConflict(t, r) ==
    /\ r.status = "CONFLICT"
    /\ requests' = (requests \ {r}) \cup {NewRequest(t, Fetch, NoManeuver)}
    /\ UNCHANGED <<screen, busy, connection, unseen>>

\* An answer that is no JSON reads like a dead server.
ReceiveError(t, r) ==
    /\ r.status \in {"INVALID", "BROKEN"}
    /\ Settle(t, r, IF r.status = "INVALID" THEN "online" ELSE "error")
    /\ UNCHANGED <<screen, unseen>>

Receive(r) ==
    /\ r.phase = "ANSWERED"
    /\ ReceiveOK(r.tab, r) \/ ReceiveConflict(r.tab, r) \/ ReceiveError(r.tab, r)
    /\ UNCHANGED <<session, reloads>>

Abandoned == {r \in requests : r.phase = "ABANDONED"}

\* A command whose tab has given up on it may still be on its way.
Outlives(r) == r.phase = "SENT" /\ r.what # Fetch /\ Cardinality(Abandoned) < MaxAbandoned

\* Faulty variant: a failed request is sent again, as often as it takes.
FailRetrying(r) ==
    /\ r.phase \in {"SENT", "ANSWERED"}
    /\ requests' = (requests \ {r}) \cup {NewRequest(r.tab, r.what, r.form)}
    /\ UNCHANGED <<session, screen, busy, connection, unseen, reloads>>

\* The network fails the request, before or after the server has handled it.
Fail(r) ==
    /\ r.phase \in {"SENT", "ANSWERED"}
    /\ busy' = [busy EXCEPT ![r.tab] = FALSE]
    /\ connection' = [connection EXCEPT ![r.tab] = "error"]
    /\ \/ requests' = requests \ {r}
       \/ /\ Outlives(r)
          /\ requests' = (requests \ {r}) \cup {[r EXCEPT !.phase = "ABANDONED"]}
    /\ UNCHANGED <<session, screen, unseen, reloads>>

Vanish(r) ==
    /\ r.phase = "ABANDONED"
    /\ requests' = requests \ {r}
    /\ UNCHANGED <<session, screen, busy, connection, unseen, reloads>>

\* Reloading the page forgets everything but what is on its way.
Reload(t) ==
    /\ reloads < MaxReloads
    /\ reloads' = reloads + 1
    /\ view' = [view EXCEPT ![t] = NoView]
    /\ mode' = [mode EXCEPT ![t] = "NONE"]
    /\ player' = [player EXCEPT ![t] = FirstPlayer]
    /\ busy' = [busy EXCEPT ![t] = TRUE]
    /\ connection' = [connection EXCEPT ![t] = "loading"]
    /\ LET own == {r \in requests : r.tab = t}
           alive == {[r EXCEPT !.phase = "ABANDONED"] : r \in {q \in own : Outlives(q)}}
       IN  requests' = (requests \ own) \cup alive \cup {r \in own : r.phase = "ABANDONED"}
              \cup {[NewRequest(t, Fetch, NoManeuver) EXCEPT !.seen = "NONE"]}
    /\ UNCHANGED <<session, unseen>>

-----------------------------------------------------------------------------
(* The operator's controls. *)

PrimaryCommand ==
    [READY |-> "START", MONITORING |-> "ADVANCE_TO_CONFLICT",
     CONFLICT_DETECTED |-> "GENERATE_RECOMMENDATION",
     DECISION_ACCEPTED |-> "APPLY_APPROVED_MANEUVER",
     DECISION_MODIFIED |-> "REVALIDATE_MODIFIED_MANEUVER",
     DECISION_REJECTED |-> "RESET", CONFLICT_RESOLVED |-> "RESET"]

PrimaryOffers(v) ==
    IF v.stage = "MODIFICATION_REVALIDATED"
    THEN {IF v.safe THEN "APPLY_VALIDATED_MODIFIED_MANEUVER" ELSE "RESET"}
    ELSE {PrimaryCommand[s] : s \in DOMAIN PrimaryCommand \cap {v.stage}}

\* What the primary and the reset button offer on a session.
Offers(v) ==
    PrimaryOffers(v) \cup (IF v.stage \in {"READY", "NONE"} THEN {} ELSE {"RESET"})

RunsAhead == Cardinality({r \in requests : r.what = "RESET" /\ r.phase # "ANSWERED"})

Refresh(t) ==
    /\ CanSend(t)
    /\ Send(t, Fetch, NoManeuver)
    /\ UNCHANGED <<session, screen, unseen, reloads>>

Click(t) ==
    /\ CanSend(t)
    /\ \E c \in Offers(view[t]) :
          /\ c = "RESET" => run + RunsAhead < MaxRuns
          /\ Send(t, c, NoManeuver)
    /\ UNCHANGED <<session, screen, unseen, reloads>>

Accept(t) ==
    /\ CanSend(t) /\ view[t].stage = "RECOMMENDATION_AVAILABLE"
    /\ Send(t, "ACCEPT_RECOMMENDATION", NoManeuver)
    /\ UNCHANGED <<session, screen, unseen, reloads>>

SetDecisionMode(t, m) ==
    /\ m # mode[t]
    /\ m # "NONE" => CanSend(t) /\ view[t].stage = "RECOMMENDATION_AVAILABLE"
    /\ mode' = [mode EXCEPT ![t] = m]
    /\ UNCHANGED <<session, requests, view, player, busy, connection, unseen, reloads>>

SubmitDecision(t) ==
    /\ CanSend(t)
    /\ \/ /\ mode[t] = "MODIFY"
          /\ \E m \in Maneuvers \cup {Malformed} : Send(t, "MODIFY_RECOMMENDATION", m)
       \/ /\ mode[t] = "REJECT"
          /\ Send(t, "REJECT_RECOMMENDATION", NoManeuver)
    /\ UNCHANGED <<session, screen, unseen, reloads>>

-----------------------------------------------------------------------------
(* The playback of a tab. *)

SetPlayer(t, p) ==
    /\ p # player[t]
    /\ player' = [player EXCEPT ![t] = p]
    /\ UNCHANGED <<session, view, mode, unseen, reloads>>

\* The manifest comes, or does not, whether a request is in flight or not.
LoadPlayback(t) ==
    /\ player[t].manifest = "LOADING"
    /\ LET loaded == [player[t] EXCEPT !.manifest = "LOADED"]
           synced == IF view[t] = NoView THEN loaded
                     ELSE Synchronized(loaded, view[t].stage, Elapsed(view[t].stage), "NONE")
           pending == synced.autoStart /\ view[t].stage = "MONITORING"
       IN  \/ SetPlayer(t, [player[t] EXCEPT !.manifest = "FAILED", !.autoStart = FALSE])
           \/ SetPlayer(t, IF pending THEN [Started(synced) EXCEPT !.autoStart = FALSE]
                           ELSE synced)
    /\ UNCHANGED <<requests, busy, connection>>

\* PLAY and PAUSE; on a READY session, PLAY gives START.
TogglePlayback(t) ==
    LET p == player[t]
        from == IF p.at = Duration THEN Sought(p, 0) ELSE p
    IN  /\ p.manifest = "LOADED" /\ ~busy[t] /\ ~DecisionBlocks(p, view[t].stage)
        /\ IF ~p.playing /\ view[t].stage = "READY"
           THEN Send(t, "START", NoManeuver) /\ UNCHANGED <<session, screen, unseen, reloads>>
           ELSE /\ SetPlayer(t, IF p.playing THEN Stopped(p) ELSE Started(from))
                /\ UNCHANGED <<requests, busy, connection>>

\* The scrubber is locked during a request, the cue markers are not.
Scrub(t) ==
    /\ player[t].manifest = "LOADED"
    /\ \E at \in (IF busy[t] THEN {c.at : c \in Cues} ELSE Moments) :
          SetPlayer(t, Sought(player[t], at))
    /\ UNCHANGED <<requests, busy, connection>>

\* The command that a cue gives, if the session shown is where it belongs.
CueCommand(c, v) ==
    {x \in {"ADVANCE_TO_CONFLICT", "GENERATE_RECOMMENDATION"} :
        CheckpointOf[x] = v.stage /\
        c.type = IF x = "ADVANCE_TO_CONFLICT" THEN "CONFLICT_DETECTED"
                 ELSE "RECOMMENDATION_AVAILABLE"}

\* A command that a cue gives while a request is in flight is dropped.
Frame(t) ==
    /\ player[t].playing
    /\ \E to \in Moments :
          /\ to > player[t].at
          /\ IF DuePauses(player[t], to) = {}
             THEN /\ SetPlayer(t, Advanced(player[t], to))
                  /\ UNCHANGED <<requests, busy, connection>>
             ELSE LET c == EarliestPause(player[t], to)
                  IN  /\ SetPlayer(t, PausedAt(player[t], c))
                      /\ IF CueCommand(c, view[t]) # {} /\ CanSend(t)
                         THEN \E x \in CueCommand(c, view[t]) : Send(t, x, NoManeuver)
                         ELSE UNCHANGED <<requests, busy, connection>>

-----------------------------------------------------------------------------
Operate(t) ==
    \/ Refresh(t) \/ Click(t) \/ Accept(t) \/ SubmitDecision(t)
    \/ \E m \in {"NONE", "MODIFY", "REJECT"} : SetDecisionMode(t, m)
    \/ TogglePlayback(t) \/ Scrub(t)

Next ==
    \/ \E r \in requests : Serve(r) \/ Receive(r) \/ Fail(r) \/ Vanish(r)
    \/ \E t \in Tabs : Frame(t) \/ LoadPlayback(t) \/ Operate(t) \/ Reload(t)

Spec == Init /\ [][Next]_vars

\* The server handles what it has got and the browser settles a fetch that has
\* been answered; nothing is assumed of the operator or of failures.
FairSpec ==
    /\ Spec
    /\ \A t \in Tabs : WF_vars(\E r \in requests : r.tab = t /\ Serve(r))
    /\ \A t \in Tabs : WF_vars(\E r \in requests : r.tab = t /\ Receive(r))

-----------------------------------------------------------------------------
\* A tab never replaces what it shows by an older state of the session: answers
\* cannot overtake each other, because a tab has one request in flight, the
\* re-fetch after a conflict included.  Only a page load starts from nothing.
ViewNeverGoesBack ==
    [][\A t \in Tabs : view'[t] # NoView => view'[t].version >= view[t].version]_vars

\* A tab that an answer leaves online shows the effect of every command whose
\* answer it waited for, also of one that failed half-way and was answered as a
\* conflict, and of one whose answer was lost.  Only the answer that a form is
\* invalid brings no session: after it the tab is online and may still be stale.
ReadsItsOwnWrites ==
    [][\A r \in requests \ requests' :
          /\ r.phase = "ANSWERED" /\ r.status # "INVALID"
          /\ connection'[r.tab] = "online" /\ ~busy'[r.tab]
          => unseen'[r.tab] = 0]_vars

\* A command that is not RESET takes effect only in the stage that the tab
\* showed when it was given: a stale tab, a cue or a request that arrives late
\* cannot push a session past a stage its operator was not looking at.
ActsOnWhatItShows ==
    [][\A r \in requests \ requests' :
          version' # version /\ r.what # "RESET" => r.seen = stage]_vars

\* The animation does not run on a session that has not started, nor between the
\* decision cue and the next while the decision is awaited, however the session
\* got there: by this tab's commands, by another's, or by loading late.
PlaybackHeldBack ==
    \A t \in Tabs : player[t].playing =>
        view[t].stage # "READY" /\ ~DecisionBlocks(player[t], view[t].stage)

\* Whatever mixture of frames, seeks and sessions has moved the playback, it has
\* stopped at, or been sought past, exactly the pauses behind it: none is skipped
\* and each ahead is due again.
CuesConsumedExactly ==
    \A t \in Tabs : player[t].manifest = "LOADED" =>
        player[t].consumed = PausesBehind(player[t].at)

\* A tab that has locked its controls unlocks them, whatever the answer is and
\* whatever fails.
Unlocks == \A t \in Tabs : busy[t] ~> ~busy[t]

\* Reaching an auto-pause cue gives the command that the cue is linked to.
CueCommandsGiven ==
    [][\A t \in Tabs : Frame(t) =>
          \A c \in Cues : c.at \in player'[t].consumed \ player[t].consumed =>
              \/ CueCommand(c, view[t]) = {}
              \/ \E r \in requests' : r.tab = t /\ r.what \in CueCommand(c, view[t])]_vars
=============================================================================
