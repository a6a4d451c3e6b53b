----------------------- MODULE DashboardClientProofs -----------------------
(***************************************************************************)
(* For any tabs, maneuvers, cues, moments and bounds: whatever the network *)
(* loses and whoever else commands the session, what a tab shows moves     *)
(* only forward, its commands act on the stage it showed, and its playback *)
(* waits for the decision and skips no pause.                              *)
(***************************************************************************)
EXTENDS DashboardClient, TLAPS, WellFoundedInduction

Stages ==
    {"NONE", "READY", "MONITORING", "CONFLICT_DETECTED", "RECOMMENDATION_AVAILABLE",
     "DECISION_ACCEPTED", "DECISION_MODIFIED", "DECISION_REJECTED",
     "MODIFICATION_REVALIDATED", "CONFLICT_RESOLVED"}

Commands ==
    {Fetch, "RESET", "START", "ADVANCE_TO_CONFLICT", "GENERATE_RECOMMENDATION",
     "ACCEPT_RECOMMENDATION", "MODIFY_RECOMMENDATION", "REJECT_RECOMMENDATION",
     "REVALIDATE_MODIFIED_MANEUVER", "APPLY_APPROVED_MANEUVER",
     "APPLY_VALIDATED_MODIFIED_MANEUVER"}

Views == [version : Int, stage : Stages, safe : BOOLEAN]

Forms == Maneuvers \cup {NoManeuver, Malformed}

RequestRecords ==
    [tab : Tabs, what : Commands, form : Forms, seen : Stages,
     phase : {"SENT", "ANSWERED", "ABANDONED"},
     status : {"NONE", "OK", "CONFLICT", "INVALID", "BROKEN"}, session : Views]

Players ==
    [manifest : {"LOADING", "LOADED", "FAILED"}, playing : BOOLEAN, at : Nat,
     consumed : SUBSET Nat, autoStart : BOOLEAN]

Typed ==
    /\ stage \in Stages /\ version \in Nat
    /\ requests \in SUBSET RequestRecords
    /\ view \in [Tabs -> Views] /\ mode \in [Tabs -> {"NONE", "MODIFY", "REJECT"}]
    /\ busy \in [Tabs -> BOOLEAN] /\ connection \in [Tabs -> {"loading", "online", "error"}]
    /\ unseen \in [Tabs -> Nat]

\* The tab that sent it still waits for it.
Awaited(r) == r.phase # "ABANDONED"

\* A tab that waits for a request has its controls locked and waits for no other.
OneAwaited ==
    \A r \in requests : Awaited(r) =>
        /\ busy[r.tab]
        /\ \A q \in requests : q.tab = r.tab /\ Awaited(q) => q = r

\* Nothing is newer than the session, and an answer under way is no older than
\* what its tab shows and than what the tab's own commands have made.
Versions(r) ==
    r.phase = "ANSWERED" /\ r.status = "OK" =>
        /\ r.session.version \in Nat /\ r.session.version <= version
        /\ r.session.version >= view[r.tab].version
        /\ r.session.version >= unseen[r.tab]

InOrder ==
    /\ \A t \in Tabs : view[t].version <= version /\ unseen[t] <= version
    /\ \A r \in requests : Versions(r)

\* A command was sent at the stage where the server takes it; a modification is of
\* a maneuver of the form; START, when it succeeds, has brought monitoring.
Fits(r) ==
    /\ r.what \notin {Fetch, "RESET"} => r.seen = CheckpointOf[r.what]
    /\ r.what = "MODIFY_RECOMMENDATION" => r.form \in Maneuvers \cup {Malformed}
    /\ r.what = "START" /\ r.phase = "ANSWERED" /\ r.status = "OK" =>
          r.session.stage = "MONITORING"

\* A decision form is open only while the decision is awaited.
FormsOpen == \A t \in Tabs : mode[t] # "NONE" => view[t].stage = "RECOMMENDATION_AVAILABLE"

\* The inductive invariant of requests and screens.
RequestInv == Typed /\ OneAwaited /\ InOrder /\ FormsOpen /\ \A r \in requests : Fits(r)

\* A playback that has no manifest stands at its beginning.
WellPlayed(p) ==
    /\ p \in Players
    /\ p.playing => p.manifest = "LOADED"
    /\ p.manifest = "LOADING" => p.at = 0 /\ p.consumed = {}
    /\ p.manifest = "LOADED" => p.consumed = PausesBehind(p.at)

\* It does not run on a session that shows this stage while it must not.
HeldBack(p, s) == p.playing => s # "READY" /\ ~DecisionBlocks(p, s)

\* The inductive invariant of the playback.
PlaybackInv ==
    /\ player \in [Tabs -> Players]
    /\ \A t \in Tabs : WellPlayed(player[t]) /\ HeldBack(player[t], view[t].stage)

-----------------------------------------------------------------------------
(* Requests and screens. *)

\* What a new request looks like.
LEMMA NewRequestFacts ==
    ASSUME RequestInv, NEW t \in Tabs, NEW what \in Commands, NEW form \in Forms
    PROVE  LET r == NewRequest(t, what, form)
           IN  /\ r \in RequestRecords /\ r.tab = t /\ r.what = what /\ r.form = form
               /\ r.seen = view[t].stage /\ r.phase = "SENT" /\ r.status = "NONE"
  BY DEF NewRequest, NoView, Views, Stages, RequestRecords, RequestInv, Typed

LEMMA RequestInit == Init => RequestInv
  <1>. SUFFICES ASSUME Init PROVE RequestInv
    OBVIOUS
  <1>1. NoView \in Views /\ NoManeuver \in Forms
    BY DEF NoView, Views, Stages, Forms
  <1>2. \A t \in Tabs : view[t] = NoView
    BY DEF Init
  <1>3. \A r \in requests :
           \E t \in Tabs : r = [tab |-> t, what |-> Fetch, form |-> NoManeuver,
                               seen |-> "NONE", phase |-> "SENT", status |-> "NONE",
                               session |-> NoView]
    BY <1>2 DEF Init, NewRequest, NoView
  <1>4. Typed
    <2>1. requests \in SUBSET RequestRecords
      BY <1>1, <1>3 DEF RequestRecords, Fetch, Commands, Stages
    <2>. QED
      BY <1>1, <2>1 DEF Init, Typed, Session!Init, Stages
  <1>5. OneAwaited
    BY <1>3 DEF OneAwaited, Init, Awaited
  <1>6. InOrder
    BY <1>2, <1>3 DEF InOrder, Init, Versions, NoView
  <1>7. \A r \in requests : Fits(r)
    BY <1>3 DEF Fits, Fetch
  <1>8. FormsOpen
    BY DEF Init, FormsOpen
  <1>. QED
    BY <1>4, <1>5, <1>6, <1>7, <1>8 DEF RequestInv

\* A command that takes effect was given at the stage where the server takes it;
\* START brings monitoring, or nothing.
LEMMA EffectFacts ==
    ASSUME RequestInv, NEW r \in requests, Effect(r), ~Refused(r)
    PROVE  /\ stage' \in Stages
           /\ r.what = "START" => stage' = "MONITORING"
           /\ r.what # "RESET" => stage = CheckpointOf[r.what]
  <1>1. stage \in Stages
    BY DEF RequestInv, Typed
  <1>2. stage' \in Stages
    BY <1>1 DEF Effect, Session!NewRun, Session!Proceed, Session!Decide, Session!Apply, Stages
  <1>3. r.what = "START" => stage' = "MONITORING"
    BY DEF Effect, Session!Proceed
  <1>. QED
    BY <1>2, <1>3 DEF Refused

\* At most one request of a tab is awaited if one is taken away and another of the
\* same tab takes its place, if the first was awaited.
LEMMA OneReplaced ==
    ASSUME RequestInv, NEW r \in requests, NEW a, a.tab = r.tab,
           requests' \subseteq (requests \ {r}) \cup {a},
           Awaited(r) \/ requests' \subseteq requests \ {r},
           busy' = busy
    PROVE  OneAwaited'
  BY DEF RequestInv, OneAwaited, Awaited

\* What a tab sends while it waits for nothing keeps the invariant.
LEMMA SendStep ==
    ASSUME RequestInv, NEW t \in Tabs, NEW what \in Commands, NEW form \in Forms,
           CanSend(t), Send(t, what, form), UNCHANGED <<stage, version, view, mode, unseen>>,
           what \notin {Fetch, "RESET"} => view[t].stage = CheckpointOf[what],
           what = "MODIFY_RECOMMENDATION" => form \in Maneuvers \cup {Malformed}
    PROVE  RequestInv'
  <1>. DEFINE n == NewRequest(t, what, form)
  <1>1. /\ n \in RequestRecords /\ n.tab = t /\ n.what = what /\ n.form = form
        /\ n.seen = view[t].stage /\ n.phase = "SENT"
    BY NewRequestFacts
  <1>. HIDE DEF n
  <1>2. requests' = requests \cup {n} /\ busy' = [busy EXCEPT ![t] = TRUE]
    BY DEF Send, n
  <1>3. Typed'
    BY <1>1, <1>2 DEF RequestInv, Typed, Send
  <1>4. OneAwaited'
    <2>1. \A r \in requests : r.tab \in Tabs /\ (r.tab = t => ~Awaited(r))
      BY DEF RequestInv, Typed, OneAwaited, CanSend, RequestRecords
    <2>. QED
      BY <1>1, <1>2, <2>1 DEF RequestInv, Typed, OneAwaited, Awaited
  <1>5. InOrder'
    BY <1>1, <1>2 DEF RequestInv, InOrder, Versions
  <1>6. \A r \in requests' : Fits(r)
    BY <1>1, <1>2 DEF RequestInv, Fits
  <1>7. FormsOpen'
    BY DEF RequestInv, FormsOpen
  <1>. QED
    BY <1>3, <1>4, <1>5, <1>6, <1>7 DEF RequestInv, Fits

\* The answer to a request, in place of it.
Answered(r, status, shown) ==
    [r EXCEPT !.phase = "ANSWERED", !.status = status, !.session = shown]

LEMMA AnswerFacts ==
    ASSUME RequestInv, NEW r \in requests, Serve(r),
           NEW status \in {"OK", "CONFLICT", "INVALID", "BROKEN"}, NEW shown \in Views,
           Answer(r, status, shown)
    PROVE  LET a == Answered(r, status, shown)
           IN  /\ a \in RequestRecords /\ a.phase = "ANSWERED" /\ a.status = status
               /\ a.session = shown
               /\ a.tab = r.tab /\ a.what = r.what /\ a.form = r.form /\ a.seen = r.seen
               /\ \/ requests' = requests \ {r}
                  \/ r.phase = "SENT" /\ requests' = (requests \ {r}) \cup {a}
  <1>. DEFINE a == Answered(r, status, shown)
  <1>1. r \in RequestRecords
    BY DEF RequestInv, Typed
  <1>2. /\ a \in RequestRecords /\ a.phase = "ANSWERED" /\ a.status = status
        /\ a.session = shown
        /\ a.tab = r.tab /\ a.what = r.what /\ a.form = r.form /\ a.seen = r.seen
    BY <1>1 DEF RequestRecords, Answered
  <1>3. requests' = (requests \ {r}) \cup (IF r.phase = "ABANDONED" THEN {} ELSE {a})
    BY DEF Answer, Answered
  <1>4. r.phase # "ABANDONED" => r.phase = "SENT"
    BY DEF Serve
  <1>. HIDE DEF a
  <1>5. \/ requests' = requests \ {r}
        \/ r.phase = "SENT" /\ requests' = (requests \ {r}) \cup {a}
    BY <1>3, <1>4
  <1>. QED
    BY <1>2, <1>5 DEF a

\* The order of versions survives an answer that shows the session as it is.
LEMMA ServedInOrder ==
    ASSUME RequestInv, NEW r \in requests, NEW a \in RequestRecords, Typed', UNCHANGED view,
           requests' \subseteq (requests \ {r}) \cup {a}, a.tab = r.tab,
           a.phase = "ANSWERED" /\ a.status = "OK" => a.session.version = version',
           version' >= version,
           unseen' = unseen \/ /\ Awaited(r)
                               /\ unseen' = [unseen EXCEPT ![r.tab] = version']
    PROVE  InOrder'
  <1>1. /\ version \in Nat /\ version' \in Nat /\ r.tab \in Tabs
        /\ view \in [Tabs -> Views] /\ unseen \in [Tabs -> Nat]
    BY DEF RequestInv, Typed, RequestRecords
  <1>2. \A t \in Tabs : view[t].version \in Int /\ unseen[t] \in Nat
    BY <1>1 DEF Views
  <1>3. \A t \in Tabs : view'[t].version <= version' /\ unseen'[t] <= version'
    BY <1>1, <1>2 DEF RequestInv, InOrder
  <1>4. ASSUME NEW p \in requests, p # r PROVE Versions(p)'
    <2>1. p \in RequestRecords /\ Versions(p) /\ p.tab \in Tabs
      BY DEF RequestInv, InOrder, Typed, RequestRecords
    <2>2. Awaited(r) /\ p.phase = "ANSWERED" => p.tab # r.tab
      BY <1>4 DEF RequestInv, OneAwaited, Awaited
    <2>3. p.phase = "ANSWERED" => unseen'[p.tab] = unseen[p.tab]
      BY <1>1, <2>1, <2>2
    <2>4. p.phase = "ANSWERED" /\ p.status = "OK" => p.session.version <= version'
      BY <1>1, <2>1 DEF Versions
    <2>. QED
      BY <2>1, <2>3, <2>4 DEF Versions
  <1>5. Versions(a)'
    BY <1>1, <1>3 DEF Versions
  <1>. QED
    BY <1>3, <1>4, <1>5 DEF InOrder

LEMMA ServeStep ==
    ASSUME RequestInv, NEW r \in requests, Serve(r) PROVE RequestInv'
  <1>1. /\ version \in Nat /\ stage \in Stages /\ r \in RequestRecords /\ r.tab \in Tabs
        /\ r.what \in Commands /\ NoView \in Views /\ unseen \in [Tabs -> Nat]
    BY DEF RequestInv, Typed, RequestRecords, NoView, Views, Stages
  <1>2. UNCHANGED <<view, mode, player, busy, connection>>
    BY DEF Serve, screen
  <1>3. \A v \in Int, s \in Stages : \A c : Snapshot(v, s, c) \in Views
    BY DEF Snapshot, Views
  \* What is common to all answers.
  <1>4. ASSUME NEW status \in {"OK", "CONFLICT", "INVALID", "BROKEN"}, NEW shown \in Views,
               Answer(r, status, shown), stage' \in Stages, version' \in Nat, version' >= version,
               unseen' = unseen \/ /\ r.phase = "SENT"
                                   /\ unseen' = [unseen EXCEPT ![r.tab] = version'],
               status = "OK" => shown.version = version',
               status = "OK" /\ r.what = "START" => shown.stage = "MONITORING"
        PROVE  RequestInv'
    <2>. DEFINE a == Answered(r, status, shown)
    <2>1. /\ a \in RequestRecords /\ a.phase = "ANSWERED" /\ a.status = status
          /\ a.session = shown
          /\ a.tab = r.tab /\ a.what = r.what /\ a.form = r.form /\ a.seen = r.seen
          /\ \/ requests' = requests \ {r}
             \/ r.phase = "SENT" /\ requests' = (requests \ {r}) \cup {a}
      BY <1>4, AnswerFacts
    <2>. HIDE DEF a
    <2>2. unseen' \in [Tabs -> Nat]
      BY <1>1, <1>4
    <2>3. Typed'
      BY <1>1, <1>2, <1>4, <2>1, <2>2 DEF RequestInv, Typed
    <2>4. OneAwaited'
      BY <1>2, <2>1, OneReplaced DEF Awaited
    <2>5. InOrder'
      BY <1>2, <1>4, <2>1, <2>3, ServedInOrder DEF Awaited
    <2>6. \A q \in requests' : Fits(q)
      BY <1>4, <2>1 DEF RequestInv, Fits
    <2>7. FormsOpen'
      BY <1>2 DEF RequestInv, FormsOpen
    <2>. QED
      BY <2>3, <2>4, <2>5, <2>6, <2>7 DEF RequestInv, Fits
  <1>5. CASE r.what = Fetch
    <2>1. Answer(r, "OK", Snapshot(version, stage, choice)) /\ UNCHANGED <<session, unseen>>
      BY <1>5 DEF Serve, ServeUnchanged
    <2>2. Snapshot(version, stage, choice).version = version /\ r.what # "START"
      BY <1>5 DEF Snapshot, Fetch
    <2>. QED
      BY <1>1, <1>3, <1>4, <2>1, <2>2 DEF session
  <1>6. ASSUME r.what # Fetch, NEW status \in {"CONFLICT", "INVALID", "BROKEN"},
               ServeUnchanged(r, status, NoView)
        PROVE  RequestInv'
    BY <1>1, <1>4, <1>6 DEF ServeUnchanged, session
  <1>7. ASSUME ~Refused(r), r.what # Fetch, ServeEffect(r) PROVE RequestInv'
    <2>1. /\ stage' \in Stages /\ version' = version + 1
          /\ r.what = "START" => stage' = "MONITORING"
      BY <1>7, EffectFacts DEF ServeEffect
    <2>2. version' \in Nat /\ version' >= version
      BY <1>1, <2>1
    <2>3. unseen' = unseen \/ /\ r.phase = "SENT"
                              /\ unseen' = [unseen EXCEPT ![r.tab] = version']
      BY <1>1, <1>7 DEF ServeEffect
    <2>4. \/ Answer(r, "CONFLICT", NoView)
          \/ Answer(r, "OK", Snapshot(version', stage', choice'))
      BY <1>7 DEF ServeEffect
    <2>5. LET s == Snapshot(version', stage', choice')
          IN  s \in Views /\ s.version = version' /\ s.stage = stage'
      BY <1>3, <2>1, <2>2 DEF Snapshot
    <2>. QED
      BY <1>1, <1>4, <2>1, <2>2, <2>3, <2>4, <2>5
  <1>. QED
    BY <1>5, <1>6, <1>7 DEF Serve

\* No other request is awaited by the tab that awaits this one.
LEMMA OthersNotAwaited ==
    ASSUME RequestInv, NEW r \in requests, Awaited(r)
    PROVE  \A p \in requests \ {r} : p.tab = r.tab => p.phase = "ABANDONED"
  BY DEF RequestInv, OneAwaited, Awaited

\* A tab that settles its request awaits none.
LEMMA SettleFacts ==
    ASSUME RequestInv, NEW r \in requests, Awaited(r),
           NEW status \in {"online", "error"}, Settle(r.tab, r, status)
    PROVE  /\ requests' \subseteq requests /\ OneAwaited'
           /\ busy' \in [Tabs -> BOOLEAN]
           /\ connection' \in [Tabs -> {"loading", "online", "error"}]
  <1>1. /\ requests' = requests \ {r} /\ busy' = [busy EXCEPT ![r.tab] = FALSE]
        /\ connection' = [connection EXCEPT ![r.tab] = status]
    BY DEF Settle
  <1>2. /\ busy \in [Tabs -> BOOLEAN] /\ r.tab \in Tabs
        /\ connection \in [Tabs -> {"loading", "online", "error"}]
        /\ \A p \in requests : p.tab \in Tabs
    BY DEF RequestInv, Typed, RequestRecords
  <1>3. ASSUME NEW p \in requests', p.phase # "ABANDONED"
        PROVE  /\ busy'[p.tab]
               /\ \A q \in requests' : q.tab = p.tab /\ q.phase # "ABANDONED" => q = p
    <2>1. p \in requests /\ p.tab # r.tab
      BY <1>1, <1>3, OthersNotAwaited
    <2>. QED
      BY <1>1, <1>2, <1>3, <2>1 DEF RequestInv, OneAwaited, Awaited
  <1>4. OneAwaited'
    BY <1>3 DEF OneAwaited, Awaited
  <1>. QED
    BY <1>1, <1>2, <1>4

LEMMA ReceiveStep ==
    ASSUME RequestInv, NEW r \in requests, Receive(r) PROVE RequestInv'
  <1>1. /\ r \in RequestRecords /\ r.tab \in Tabs /\ r.phase = "ANSWERED" /\ Awaited(r)
        /\ version \in Nat /\ view \in [Tabs -> Views] /\ unseen \in [Tabs -> Nat]
        /\ r.session \in Views /\ mode \in [Tabs -> {"NONE", "MODIFY", "REJECT"}]
        /\ Versions(r)
        /\ UNCHANGED <<stage, version>>
    BY DEF RequestInv, Typed, RequestRecords, InOrder, Receive, session, Awaited
  <1>2. CASE ReceiveOK(r.tab, r)
    <2>1. Render(r.tab, r) /\ Settle(r.tab, r, "online")
      BY <1>2 DEF ReceiveOK
    <2>2. /\ requests' \subseteq requests /\ OneAwaited'
          /\ busy' \in [Tabs -> BOOLEAN]
          /\ connection' \in [Tabs -> {"loading", "online", "error"}]
      BY <1>1, <2>1, SettleFacts
    <2>3. /\ view' = [view EXCEPT ![r.tab] = r.session]
          /\ mode' = [mode EXCEPT ![r.tab] = ModeAfter(r.tab, r.session)]
          /\ unseen' = [unseen EXCEPT ![r.tab] = IF r.session.version >= @ THEN 0 ELSE @]
      BY <2>1 DEF Render
    <2>4. Typed'
      BY <1>1, <2>2, <2>3 DEF RequestInv, Typed, ModeAfter
    <2>5. /\ r.session.version <= version /\ r.session.version >= view[r.tab].version
          /\ r.session.version \in Nat
      BY <1>1, <1>2 DEF Versions, ReceiveOK
    <2>6. \A t \in Tabs : view'[t].version <= version' /\ unseen'[t] <= version'
      BY <1>1, <2>3, <2>5 DEF RequestInv, InOrder
    <2>7. ASSUME NEW p \in requests' PROVE Versions(p)'
      <3>1. p \in requests /\ p # r /\ Versions(p)
        BY <2>1 DEF Settle, RequestInv, InOrder
      <3>2. p.phase = "ANSWERED" => p.tab # r.tab
        BY <1>1, <3>1, OthersNotAwaited
      <3>3. p.phase = "ANSWERED" => view'[p.tab] = view[p.tab] /\ unseen'[p.tab] = unseen[p.tab]
        BY <1>1, <2>3, <3>1, <3>2 DEF RequestInv, Typed, RequestRecords
      <3>. QED
        BY <1>1, <3>1, <3>3 DEF Versions
    <2>8. FormsOpen'
      BY <1>1, <2>3 DEF RequestInv, FormsOpen, ModeAfter
    <2>9. \A p \in requests' : Fits(p)
      BY <2>2 DEF RequestInv
    <2>. QED
      BY <2>2, <2>4, <2>6, <2>7, <2>8, <2>9 DEF RequestInv, InOrder, Fits
  <1>3. CASE ReceiveConflict(r.tab, r)
    <2>. DEFINE n == NewRequest(r.tab, Fetch, NoManeuver)
    <2>1. /\ n \in RequestRecords /\ n.tab = r.tab /\ n.what = Fetch /\ n.phase = "SENT"
      BY <1>1, NewRequestFacts DEF Forms, Commands
    <2>2. /\ requests' = (requests \ {r}) \cup {n}
          /\ UNCHANGED <<view, mode, player, busy, connection, unseen>>
      BY <1>3 DEF ReceiveConflict, screen
    <2>. HIDE DEF n
    <2>3. OneAwaited'
      BY <1>1, <2>1, <2>2, OneReplaced
    <2>4. Typed' /\ FormsOpen'
      BY <1>1, <2>1, <2>2 DEF RequestInv, Typed, FormsOpen
    <2>5. InOrder'
      BY <1>1, <2>1, <2>2 DEF RequestInv, InOrder, Versions
    <2>6. \A p \in requests' : Fits(p)
      BY <2>1, <2>2 DEF RequestInv, Fits, Fetch
    <2>. QED
      BY <2>3, <2>4, <2>5, <2>6 DEF RequestInv, Fits
  <1>4. CASE ReceiveError(r.tab, r)
    <2>1. PICK status \in {"online", "error"} : Settle(r.tab, r, status)
      BY <1>4 DEF ReceiveError
    <2>2. /\ requests' \subseteq requests /\ OneAwaited'
          /\ busy' \in [Tabs -> BOOLEAN]
          /\ connection' \in [Tabs -> {"loading", "online", "error"}]
      BY <1>1, <2>1, SettleFacts
    <2>3. UNCHANGED <<view, mode, unseen>>
      BY <1>4 DEF ReceiveError, screen
    <2>4. Typed' /\ FormsOpen'
      BY <1>1, <2>2, <2>3 DEF RequestInv, Typed, FormsOpen
    <2>5. InOrder'
      BY <1>1, <2>2, <2>3 DEF RequestInv, InOrder, Versions
    <2>. QED
      BY <2>2, <2>4, <2>5 DEF RequestInv, Fits
  <1>. QED
    BY <1>2, <1>3, <1>4 DEF Receive

\* A request that its tab has given up on.
LEMMA GivenUpFacts ==
    ASSUME RequestInv, NEW r \in requests
    PROVE  LET a == [r EXCEPT !.phase = "ABANDONED"]
           IN  /\ a \in RequestRecords /\ a.phase = "ABANDONED" /\ Fits(r)
               /\ a.tab = r.tab /\ a.what = r.what /\ a.form = r.form /\ a.seen = r.seen
  BY DEF RequestInv, Typed, RequestRecords

\* Requests that are dropped or given up, with the controls of one tab at most
\* unlocked, and that of a tab that awaits nothing any more.
LEMMA DropStep ==
    ASSUME RequestInv, Typed', UNCHANGED <<stage, version, view, mode, unseen>>,
           \A p \in requests' :
              p \in requests \/ \E q \in requests : p = [q EXCEPT !.phase = "ABANDONED"],
           \A p \in requests' : p.phase = "ABANDONED" \/ (busy[p.tab] => busy'[p.tab])
    PROVE  RequestInv'
  <1>1. ASSUME NEW p \in requests', p \notin requests
        PROVE  p.phase = "ABANDONED" /\ Fits(p)
    <2>1. PICK q \in requests : p = [q EXCEPT !.phase = "ABANDONED"]
      BY <1>1
    <2>. QED
      BY <2>1, GivenUpFacts DEF Fits
  <1>2. OneAwaited'
    BY <1>1 DEF RequestInv, OneAwaited, Awaited
  <1>3. InOrder' /\ FormsOpen'
    BY <1>1 DEF RequestInv, InOrder, Versions, FormsOpen
  <1>4. \A p \in requests' : Fits(p)
    BY <1>1 DEF RequestInv
  <1>. QED
    BY <1>2, <1>3, <1>4 DEF RequestInv, Fits

LEMMA FailStep ==
    ASSUME RequestInv, NEW r \in requests, Fail(r) PROVE RequestInv'
  <1>. DEFINE a == [r EXCEPT !.phase = "ABANDONED"]
  <1>1. a \in RequestRecords /\ a.phase = "ABANDONED" /\ r.tab \in Tabs /\ Awaited(r)
    BY GivenUpFacts DEF RequestInv, Typed, RequestRecords, Fail, Awaited
  <1>2. /\ requests' \subseteq (requests \ {r}) \cup {a}
        /\ busy' = [busy EXCEPT ![r.tab] = FALSE]
        /\ connection' = [connection EXCEPT ![r.tab] = "error"]
        /\ UNCHANGED <<stage, version, view, mode, unseen>>
    BY DEF Fail, session, screen
  <1>3. \A p \in requests' :
           p \in requests \/ \E q \in requests : p = [q EXCEPT !.phase = "ABANDONED"]
    BY <1>2
  <1>. HIDE DEF a
  <1>4. Typed'
    BY <1>1, <1>2 DEF RequestInv, Typed
  <1>5. \A p \in requests' : p.phase = "ABANDONED" \/ (busy[p.tab] => busy'[p.tab])
    <2>1. \A p \in requests' : p.phase = "ABANDONED" \/ p.tab # r.tab
      BY <1>1, <1>2, OthersNotAwaited
    <2>2. busy \in [Tabs -> BOOLEAN] /\ \A p \in requests' : p.tab \in Tabs
      BY <1>4 DEF RequestInv, Typed, RequestRecords
    <2>. QED
      BY <1>2, <2>1, <2>2
  <1>. QED
    BY <1>2, <1>3, <1>4, <1>5, DropStep

LEMMA VanishStep ==
    ASSUME RequestInv, NEW r \in requests, Vanish(r) PROVE RequestInv'
  <1>1. /\ requests' = requests \ {r}
        /\ UNCHANGED <<stage, version, view, mode, unseen, busy, connection>>
    BY DEF Vanish, session, screen
  <1>2. Typed'
    BY <1>1 DEF RequestInv, Typed
  <1>. QED
    BY <1>1, <1>2, DropStep

LEMMA ReloadStep ==
    ASSUME RequestInv, NEW t \in Tabs, Reload(t) PROVE RequestInv'
  <1>. DEFINE n == [NewRequest(t, Fetch, NoManeuver) EXCEPT !.seen = "NONE"]
  <1>1. /\ n \in RequestRecords /\ n.tab = t /\ n.what = Fetch /\ n.phase = "SENT"
    <2>1. LET r == NewRequest(t, Fetch, NoManeuver)
          IN  r \in RequestRecords /\ r.tab = t /\ r.what = Fetch /\ r.phase = "SENT"
      BY NewRequestFacts DEF Forms, Commands
    <2>. QED
      BY <2>1 DEF RequestRecords, Stages
  <1>. HIDE DEF n
  <1>2. /\ view' = [view EXCEPT ![t] = NoView] /\ mode' = [mode EXCEPT ![t] = "NONE"]
        /\ busy' = [busy EXCEPT ![t] = TRUE]
        /\ connection' = [connection EXCEPT ![t] = "loading"]
        /\ UNCHANGED <<stage, version, unseen>>
    BY DEF Reload, session
  <1>3. \A p \in requests' :
           \/ p \in requests /\ p.tab # t
           \/ p \in RequestRecords /\ p.phase = "ABANDONED" /\ Fits(p)
           \/ p = n
    <2>1. ASSUME NEW q \in requests
          PROVE  LET a == [q EXCEPT !.phase = "ABANDONED"]
                 IN  a \in RequestRecords /\ a.phase = "ABANDONED" /\ Fits(a)
      BY <2>1, GivenUpFacts DEF Fits
    <2>2. \A q \in requests : q \in RequestRecords /\ Fits(q)
      BY DEF RequestInv, Typed
    <2>3. \A p \in requests' :
             \/ p \in requests /\ p.tab # t
             \/ \E q \in requests : p = [q EXCEPT !.phase = "ABANDONED"]
             \/ p \in requests /\ p.phase = "ABANDONED"
             \/ p = n
      BY DEF Reload, n
    <2>. QED
      BY <2>1, <2>2, <2>3
  <1>4. Typed'
    <2>1. requests' \in SUBSET RequestRecords
      BY <1>1, <1>3 DEF RequestInv, Typed
    <2>2. NoView \in Views
      BY DEF NoView, Views, Stages
    <2>. QED
      BY <1>2, <2>1, <2>2 DEF RequestInv, Typed
  <1>5. OneAwaited'
    <2>1. \A p \in requests : p.tab \in Tabs
      BY DEF RequestInv, Typed, RequestRecords
    <2>. QED
      BY <1>1, <1>2, <1>3, <2>1 DEF RequestInv, Typed, OneAwaited, Awaited
  <1>6. InOrder'
    <2>1. \A s \in Tabs : view'[s].version <= version' /\ unseen'[s] <= version'
      BY <1>2 DEF RequestInv, Typed, InOrder, NoView
    <2>2. ASSUME NEW p \in requests, p.tab # t PROVE Versions(p)'
      BY <1>2, <2>2 DEF RequestInv, Typed, RequestRecords, InOrder, Versions
    <2>3. ASSUME NEW p \in requests', p.phase # "ANSWERED" PROVE Versions(p)'
      BY <2>3 DEF Versions
    <2>. QED
      BY <1>1, <1>3, <2>1, <2>2, <2>3 DEF InOrder
  <1>7. \A p \in requests' : Fits(p)
    BY <1>1, <1>3 DEF RequestInv, Fits, Fetch
  <1>8. FormsOpen'
    BY <1>2 DEF RequestInv, Typed, FormsOpen
  <1>. QED
    BY <1>4, <1>5, <1>6, <1>7, <1>8 DEF RequestInv, Fits

\* A step that neither sends nor shows anything.
LEMMA StillStep ==
    ASSUME RequestInv,
           UNCHANGED <<stage, version, requests, view, mode, busy, connection, unseen>>
    PROVE  RequestInv'
  BY DEF RequestInv, Typed, OneAwaited, Awaited, InOrder, Versions, FormsOpen, Fits

\* The buttons offer commands for the stage shown.
LEMMA OffersFacts ==
    ASSUME NEW v \in Views, NEW c \in Offers(v)
    PROVE  /\ c \in Commands /\ c # "MODIFY_RECOMMENDATION"
           /\ c # "RESET" => v.stage = CheckpointOf[c]
  <1>1. CASE c = "RESET"
    BY <1>1 DEF Commands
  <1>2. CASE c # "RESET" /\ v.stage = "MODIFICATION_REVALIDATED"
    BY <1>2 DEF Offers, PrimaryOffers, Commands, CheckpointOf
  <1>3. CASE c # "RESET" /\ v.stage # "MODIFICATION_REVALIDATED"
    <2>1. v.stage \in DOMAIN PrimaryCommand /\ c = PrimaryCommand[v.stage]
      BY <1>3 DEF Offers, PrimaryOffers
    <2>2. v.stage \in {"READY", "MONITORING", "CONFLICT_DETECTED", "DECISION_ACCEPTED",
                       "DECISION_MODIFIED", "DECISION_REJECTED", "CONFLICT_RESOLVED"}
      BY <2>1 DEF PrimaryCommand
    <2>. QED
      BY <1>3, <2>1, <2>2 DEF PrimaryCommand, Commands, CheckpointOf
  <1>. QED
    BY <1>1, <1>2, <1>3

LEMMA OperateStep ==
    ASSUME RequestInv, NEW t \in Tabs, Operate(t) PROVE RequestInv'
  <1>1. /\ view[t] \in Views /\ NoManeuver \in Forms /\ Maneuvers \cup {Malformed} \subseteq Forms
        /\ mode \in [Tabs -> {"NONE", "MODIFY", "REJECT"}]
    BY DEF RequestInv, Typed, Forms
  <1>2. CASE Refresh(t)
    BY <1>1, <1>2, SendStep DEF Refresh, Commands, Fetch, session, screen
  <1>3. CASE Click(t)
    <2>1. PICK c \in Offers(view[t]) : Send(t, c, NoManeuver)
      BY <1>3 DEF Click
    <2>2. CanSend(t) /\ UNCHANGED <<stage, version, view, mode, unseen>>
      BY <1>3 DEF Click, session, screen
    <2>. QED
      BY <1>1, <2>1, <2>2, OffersFacts, SendStep
  <1>4. CASE Accept(t)
    BY <1>1, <1>4, SendStep DEF Accept, Commands, CheckpointOf, session, screen
  <1>5. CASE SubmitDecision(t)
    <2>1. CanSend(t) /\ UNCHANGED <<stage, version, view, mode, unseen>>
      BY <1>5 DEF SubmitDecision, session, screen
    <2>2. view[t].stage = "RECOMMENDATION_AVAILABLE"
      BY <1>5 DEF SubmitDecision, RequestInv, FormsOpen
    <2>3. ASSUME NEW m \in Maneuvers \cup {Malformed}, Send(t, "MODIFY_RECOMMENDATION", m)
          PROVE  RequestInv'
      BY <1>1, <2>1, <2>2, <2>3, SendStep DEF Commands, CheckpointOf
    <2>4. ASSUME Send(t, "REJECT_RECOMMENDATION", NoManeuver) PROVE RequestInv'
      BY <1>1, <2>1, <2>2, <2>4, SendStep DEF Commands, CheckpointOf
    <2>. QED
      BY <1>5, <2>3, <2>4 DEF SubmitDecision
  <1>6. ASSUME NEW m \in {"NONE", "MODIFY", "REJECT"}, SetDecisionMode(t, m)
        PROVE  RequestInv'
    <2>1. /\ mode' = [mode EXCEPT ![t] = m]
          /\ m # "NONE" => view[t].stage = "RECOMMENDATION_AVAILABLE"
          /\ UNCHANGED <<stage, version, requests, view, busy, connection, unseen>>
      BY <1>6 DEF SetDecisionMode, session
    <2>2. FormsOpen' /\ Typed'
      BY <1>1, <2>1 DEF RequestInv, Typed, FormsOpen
    <2>. QED
      BY <2>1, <2>2 DEF RequestInv, OneAwaited, Awaited, InOrder, Versions, Fits
  <1>7. CASE TogglePlayback(t)
    <2>1. CASE Send(t, "START", NoManeuver) /\ UNCHANGED <<session, screen, unseen>>
                /\ ~busy[t] /\ view[t].stage = "READY"
      BY <1>1, <2>1, SendStep DEF CanSend, Commands, CheckpointOf, session, screen
    <2>2. CASE UNCHANGED <<session, view, mode, unseen, requests, busy, connection>>
      BY <2>2, StillStep DEF session
    <2>. QED
      BY <1>7, <2>1, <2>2 DEF TogglePlayback, SetPlayer
  <1>8. CASE Scrub(t)
    <2>1. UNCHANGED <<stage, version, requests, view, mode, busy, connection, unseen>>
      BY <1>8 DEF Scrub, SetPlayer, session
    <2>. QED
      BY <2>1, StillStep
  <1>. QED
    BY <1>2, <1>3, <1>4, <1>5, <1>6, <1>7, <1>8 DEF Operate

LEMMA FrameStep ==
    ASSUME RequestInv, NEW t \in Tabs, Frame(t) PROVE RequestInv'
  <1>1. UNCHANGED <<session, view, mode, unseen>>
    BY DEF Frame, SetPlayer
  <1>2. \/ UNCHANGED <<requests, busy, connection>>
        \/ /\ CanSend(t)
           /\ \E c : \E x \in CueCommand(c, view[t]) : Send(t, x, NoManeuver)
    BY DEF Frame
  <1>3. CASE UNCHANGED <<requests, busy, connection>>
    BY <1>1, <1>3, StillStep DEF session
  <1>4. ASSUME NEW c, NEW x \in CueCommand(c, view[t]), CanSend(t), Send(t, x, NoManeuver)
        PROVE  RequestInv'
    <2>1. /\ x \in Commands /\ x # "MODIFY_RECOMMENDATION"
          /\ view[t].stage = CheckpointOf[x]
      BY <1>4 DEF CueCommand, Commands
    <2>. QED
      BY <1>1, <1>4, <2>1, SendStep DEF Forms, session
  <1>. QED
    BY <1>2, <1>3, <1>4

LEMMA LoadStep ==
    ASSUME RequestInv, NEW t \in Tabs, LoadPlayback(t) PROVE RequestInv'
  <1>1. UNCHANGED <<stage, version, requests, view, mode, busy, connection, unseen>>
    BY DEF LoadPlayback, SetPlayer, session
  <1>. QED
    BY <1>1, StillStep

LEMMA RequestNext == RequestInv /\ [Next]_vars => RequestInv'
  <1>. SUFFICES ASSUME RequestInv, [Next]_vars PROVE RequestInv'
    OBVIOUS
  <1>1. CASE UNCHANGED vars
    BY <1>1, StillStep DEF vars, session, screen
  <1>2. ASSUME NEW r \in requests, Serve(r) \/ Receive(r) \/ Fail(r) \/ Vanish(r)
        PROVE  RequestInv'
    BY <1>2, ServeStep, ReceiveStep, FailStep, VanishStep
  <1>3. ASSUME NEW t \in Tabs, Frame(t) \/ LoadPlayback(t) \/ Operate(t) \/ Reload(t)
        PROVE  RequestInv'
    BY <1>3, FrameStep, LoadStep, OperateStep, ReloadStep
  <1>. QED
    BY <1>1, <1>2, <1>3 DEF Next

\* Whatever is lost, given up or sent from elsewhere, a tab awaits one request at a
\* time, and an answer on its way to it is no older than what it shows.
THEOREM RequestInvariant == Spec => []RequestInv
  BY RequestInit, RequestNext, PTL DEF Spec

-----------------------------------------------------------------------------
(* What a step may never do. *)

\* A request leaves only by what happens to it, or with the page of its tab.
LEMMA Leaves ==
    ASSUME [Next]_vars, NEW r \in requests, r \notin requests'
    PROVE  Serve(r) \/ Receive(r) \/ Fail(r) \/ Vanish(r) \/ \E t \in Tabs : r.tab = t /\ Reload(t)
  <1>1. ASSUME NEW q \in requests, Serve(q) PROVE r = q
    BY <1>1 DEF Serve, ServeUnchanged, ServeEffect, Answer
  <1>2. ASSUME NEW q \in requests, Receive(q) PROVE r = q
    BY <1>2 DEF Receive, ReceiveOK, ReceiveConflict, ReceiveError, Settle
  <1>3. ASSUME NEW q \in requests, Fail(q) \/ Vanish(q) PROVE r = q
    BY <1>3 DEF Fail, Vanish
  <1>4. ASSUME NEW t \in Tabs, Reload(t) PROVE r.tab = t
    BY <1>4 DEF Reload
  <1>5. ASSUME NEW t \in Tabs, Frame(t) \/ LoadPlayback(t) \/ Operate(t) PROVE FALSE
    <2>1. ASSUME NEW what, NEW form, Send(t, what, form) PROVE FALSE
      BY <2>1 DEF Send
    <2>2. CASE Frame(t)
      BY <2>1, <2>2 DEF Frame
    <2>3. CASE LoadPlayback(t)
      BY <2>3 DEF LoadPlayback
    <2>4. CASE Refresh(t) \/ Click(t) \/ Accept(t) \/ SubmitDecision(t)
      BY <2>1, <2>4 DEF Refresh, Click, Accept, SubmitDecision
    <2>5. ASSUME NEW m, SetDecisionMode(t, m) PROVE FALSE
      BY <2>5 DEF SetDecisionMode
    <2>6. CASE TogglePlayback(t) \/ Scrub(t)
      BY <2>1, <2>6 DEF TogglePlayback, Scrub
    <2>. QED
      BY <1>5, <2>2, <2>3, <2>4, <2>5, <2>6 DEF Operate
  <1>6. ~ UNCHANGED vars
    BY DEF vars
  <1>. QED
    BY <1>1, <1>2, <1>3, <1>4, <1>5, <1>6 DEF Next

\* What a tab shows changes only when an answer arrives or the page is loaded.
LEMMA ViewChanges ==
    ASSUME [Next]_vars, view' # view
    PROVE  \/ \E r \in requests : Receive(r) /\ ReceiveOK(r.tab, r)
           \/ \E t \in Tabs : Reload(t)
  <1>1. ASSUME NEW r \in requests, Serve(r) \/ Fail(r) \/ Vanish(r) PROVE FALSE
    BY <1>1 DEF Serve, Fail, Vanish, screen
  <1>2. ASSUME NEW r \in requests, Receive(r) PROVE ReceiveOK(r.tab, r)
    BY <1>2 DEF Receive, ReceiveConflict, ReceiveError, screen
  <1>3. ASSUME NEW t \in Tabs, Frame(t) \/ LoadPlayback(t) \/ Operate(t) PROVE FALSE
    <2>1. CASE Frame(t) \/ LoadPlayback(t) \/ Scrub(t)
      BY <2>1 DEF Frame, LoadPlayback, Scrub, SetPlayer
    <2>2. CASE TogglePlayback(t)
      BY <2>2 DEF TogglePlayback, SetPlayer, screen
    <2>3. CASE Refresh(t) \/ Click(t) \/ Accept(t) \/ SubmitDecision(t)
      BY <2>3 DEF Refresh, Click, Accept, SubmitDecision, screen
    <2>4. ASSUME NEW m, SetDecisionMode(t, m) PROVE FALSE
      BY <2>4 DEF SetDecisionMode
    <2>. QED
      BY <1>3, <2>1, <2>2, <2>3, <2>4 DEF Operate
  <1>4. ~ UNCHANGED vars
    BY DEF vars, screen
  <1>. QED
    BY <1>1, <1>2, <1>3, <1>4 DEF Next

\* A tab never replaces what it shows by an older state of the session.
THEOREM ClientViewNeverGoesBack == Spec => ViewNeverGoesBack
  <1>. DEFINE Forward == \A t \in Tabs : view'[t] # NoView => view'[t].version >= view[t].version
  <1>1. ASSUME RequestInv, [Next]_vars PROVE Forward
    <2>1. view \in [Tabs -> Views] /\ \A t \in Tabs : view[t].version \in Int
      BY <1>1 DEF RequestInv, Typed, Views
    <2>2. CASE view' = view
      BY <2>1, <2>2
    <2>3. ASSUME NEW r \in requests, Receive(r), ReceiveOK(r.tab, r) PROVE Forward
      <3>1. /\ view' = [view EXCEPT ![r.tab] = r.session]
            /\ r.session.version >= view[r.tab].version
        BY <1>1, <2>3 DEF Receive, ReceiveOK, Render, RequestInv, InOrder, Versions
      <3>. QED
        BY <2>1, <3>1
    <2>4. ASSUME NEW t \in Tabs, Reload(t) PROVE Forward
      BY <2>1, <2>4 DEF Reload
    <2>. QED
      BY <1>1, <2>2, <2>3, <2>4, ViewChanges
  <1>. QED
    BY <1>1, RequestInvariant, PTL DEF Spec, ViewNeverGoesBack

\* An answer that leaves a tab online and unlocked shows what all the tab's own
\* commands have done.
THEOREM ClientReadsItsOwnWrites == Spec => ReadsItsOwnWrites
  <1>. DEFINE Level(r) == /\ r.phase = "ANSWERED" /\ r.status # "INVALID"
                          /\ connection'[r.tab] = "online" /\ ~busy'[r.tab]
                          => unseen'[r.tab] = 0
              Levels == \A r \in requests \ requests' : Level(r)
  <1>1. ASSUME RequestInv, [Next]_vars, NEW r \in requests \ requests' PROVE Level(r)
    <2>1. /\ r \in RequestRecords /\ r.tab \in Tabs /\ r.session \in Views
          /\ connection \in [Tabs -> {"loading", "online", "error"}]
          /\ busy \in [Tabs -> BOOLEAN] /\ unseen \in [Tabs -> Nat]
      BY <1>1 DEF RequestInv, Typed, RequestRecords
    <2>2. CASE Serve(r) \/ Vanish(r)
      BY <2>2 DEF Serve, Vanish
    <2>3. CASE Receive(r) /\ ReceiveOK(r.tab, r)
      <3>1. r.session.version >= unseen[r.tab]
        BY <1>1, <2>3 DEF Receive, ReceiveOK, RequestInv, InOrder, Versions
      <3>. QED
        BY <2>1, <2>3, <3>1 DEF ReceiveOK, Render
    <2>4. CASE Receive(r) /\ ReceiveConflict(r.tab, r)
      BY <1>1, <2>4 DEF Receive, ReceiveConflict, RequestInv, OneAwaited, Awaited
    <2>5. CASE Receive(r) /\ ReceiveError(r.tab, r)
      BY <2>1, <2>5 DEF ReceiveError, Settle
    <2>6. CASE Fail(r)
      BY <2>1, <2>6 DEF Fail
    <2>7. ASSUME NEW t \in Tabs, r.tab = t, Reload(t) PROVE Level(r)
      BY <2>1, <2>7 DEF Reload
    <2>. QED
      BY <1>1, <2>2, <2>3, <2>4, <2>5, <2>6, <2>7, Leaves DEF Receive
  <1>2. ASSUME RequestInv, [Next]_vars PROVE Levels
    BY <1>1, <1>2
  <1>. QED
    BY <1>2, RequestInvariant, PTL DEF Spec, ReadsItsOwnWrites

\* A command that is not RESET takes effect only at the stage that its tab showed.
THEOREM ClientActsOnWhatItShows == Spec => ActsOnWhatItShows
  <1>. DEFINE Timely == \A r \in requests \ requests' :
                  version' # version /\ r.what # "RESET" => r.seen = stage
  <1>1. ASSUME RequestInv, [Next]_vars, NEW r \in requests \ requests',
               version' # version, r.what # "RESET"
        PROVE  r.seen = stage
    <2>1. Serve(r)
      BY <1>1, Leaves DEF Receive, Fail, Vanish, Reload, session
    <2>2. ~Refused(r) /\ ServeEffect(r) /\ r.what # Fetch
      BY <1>1, <2>1 DEF Serve, ServeUnchanged, session
    <2>3. stage = CheckpointOf[r.what]
      BY <1>1, <2>2 DEF Refused
    <2>. QED
      BY <1>1, <2>2, <2>3 DEF RequestInv, Fits
  <1>2. ASSUME RequestInv, [Next]_vars PROVE Timely
    BY <1>1, <1>2
  <1>. QED
    BY <1>2, RequestInvariant, PTL DEF Spec, ActsOnWhatItShows

-----------------------------------------------------------------------------
(* The playback as a value. *)

LEMMA CueFacts ==
    /\ Moments \subseteq Nat /\ Duration \in Nat
    /\ \A c \in Cues : /\ c.at \in Moments /\ c.at \in Nat /\ c.pause \in BOOLEAN
                       /\ c.decision => c.pause
                       /\ c.pause => c.at > 0
    /\ \A at : PausesBehind(at) \in SUBSET Nat
    /\ PausesBehind(0) = {}
  <1>1. Moments \subseteq Nat /\ Duration \in Nat
    BY ContractAssumption
  <1>2. \A c \in Cues : /\ c.at \in Moments /\ c.at \in Nat /\ c.pause \in BOOLEAN
                        /\ c.decision => c.pause
                        /\ c.pause => c.at > 0
    BY <1>1, ContractAssumption
  <1>. QED
    BY <1>1, <1>2 DEF PausesBehind, Behind

LEMMA StartedFacts ==
    ASSUME NEW p, WellPlayed(p)
    PROVE  LET q == Started(p)
           IN  /\ WellPlayed(q) /\ q.manifest = p.manifest /\ q.at = p.at
               /\ \A s : DecisionBlocks(q, s) <=> DecisionBlocks(p, s)
  BY DEF WellPlayed, Players, Started, DecisionBlocks

\* A sought playback does not run and has behind it what lies before its position.
LEMMA SoughtFacts ==
    ASSUME NEW p, WellPlayed(p), NEW at \in Nat
    PROVE  LET q == Sought(p, at)
           IN  WellPlayed(q) /\ ~q.playing /\ q.manifest = p.manifest
  <1>1. CASE p.manifest # "LOADED"
    BY <1>1 DEF Sought, WellPlayed, Players
  <1>2. CASE p.manifest = "LOADED"
    BY <1>2, CueFacts DEF Sought, WellPlayed, Players
  <1>. QED
    BY <1>1, <1>2

\* Whether START is remembered changes nothing else.
LEMMA AutoStartFacts ==
    ASSUME NEW p, WellPlayed(p), NEW b \in BOOLEAN
    PROVE  LET q == [p EXCEPT !.autoStart = b]
           IN  /\ WellPlayed(q) /\ q.playing = p.playing /\ q.manifest = p.manifest
               /\ q.at = p.at
               /\ \A s : DecisionBlocks(q, s) <=> DecisionBlocks(p, s)
  BY DEF WellPlayed, Players, DecisionBlocks

LEMMA BegunFacts ==
    ASSUME NEW p, WellPlayed(p) PROVE WellPlayed(Begun(p))
  <1>1. WellPlayed(Started(p))
    BY StartedFacts
  <1>2. CASE p.manifest = "LOADING"
    <2>1. (p.manifest = "LOADING") = TRUE
      BY <1>2
    <2>2. Begun(p) = [Started(p) EXCEPT !.autoStart = TRUE]
      BY <2>1, Zenon DEF Begun
    <2>. QED
      BY <1>1, <2>2, AutoStartFacts
  <1>3. CASE p.manifest # "LOADING"
    <2>1. (p.manifest = "LOADING") = FALSE
      BY <1>3
    <2>2. Begun(p) = [Started(p) EXCEPT !.autoStart = FALSE]
      BY <2>1, Zenon DEF Begun
    <2>. QED
      BY <1>1, <2>2, AutoStartFacts
  <1>. QED
    BY <1>2, <1>3

\* A session that arrives stops the playback, unless it has brought nothing new.
LEMMA SynchronizedFacts ==
    ASSUME NEW p, WellPlayed(p), NEW s, NEW elapsed \in Nat, NEW prior
    PROVE  LET q == Synchronized(p, s, elapsed, prior)
           IN  /\ WellPlayed(q) /\ q.manifest = p.manifest
               /\ q.playing => q = p /\ prior = s /\ s # "READY"
  <1>1. CASE p.manifest # "LOADED"
    BY <1>1 DEF Synchronized, WellPlayed
  <1>2. CASE p.manifest = "LOADED" /\ s = "READY"
    <2>. DEFINE forgotten == [p EXCEPT !.autoStart = FALSE]
                q == Sought(forgotten, 0)
    <2>1. WellPlayed(forgotten) /\ forgotten.manifest = p.manifest
      BY AutoStartFacts
    <2>2. Synchronized(p, s, elapsed, prior) = q
      BY <1>2 DEF Synchronized
    <2>. HIDE DEF forgotten
    <2>3. WellPlayed(q) /\ ~q.playing /\ q.manifest = p.manifest
      BY <2>1, SoughtFacts
    <2>. HIDE DEF q
    <2>. QED
      BY <2>2, <2>3
  <1>3. CASE p.manifest = "LOADED" /\ s # "READY" /\ (prior # s \/ p.at < elapsed)
    BY <1>3, SoughtFacts DEF Synchronized
  <1>4. CASE p.manifest = "LOADED" /\ s # "READY" /\ prior = s /\ ~(p.at < elapsed)
    BY <1>4 DEF Synchronized
  <1>. QED
    BY <1>1, <1>2, <1>3, <1>4

\* A frame that passes no pause has the same pauses behind it, and stands in front of
\* the decision only if it stood there before.
LEMMA AdvancedFacts ==
    ASSUME NEW p, WellPlayed(p), p.manifest = "LOADED", NEW to \in Moments, to > p.at,
           DuePauses(p, to) = {}
    PROVE  LET q == Advanced(p, to)
           IN  WellPlayed(q) /\ \A s : DecisionBlocks(q, s) => DecisionBlocks(p, s)
  <1>1. /\ p \in Players /\ p.at \in Nat /\ to \in Nat /\ Duration \in Nat
        /\ p.consumed = PausesBehind(p.at)
    BY CueFacts DEF WellPlayed, Players
  <1>2. \A c \in Cues : c.pause /\ c.at <= to => c.at <= p.at
    BY <1>1, CueFacts DEF DuePauses, PausesBehind, Behind
  <1>3. PausesBehind(to) = PausesBehind(p.at)
    BY <1>1, <1>2, CueFacts DEF PausesBehind, Behind
  <1>4. WellPlayed(Advanced(p, to))
    <2>1. CASE to < Duration
      <3>1. Advanced(p, to) = [p EXCEPT !.at = to, !.playing = TRUE]
        BY <2>1 DEF Advanced
      <3>. QED
        BY <1>1, <1>3, <3>1 DEF WellPlayed, Players
    <2>2. CASE ~(to < Duration)
      <3>1. (to < Duration) = FALSE
        BY <1>1, <2>2
      <3>2. Advanced(p, to) = [p EXCEPT !.at = to, !.playing = FALSE]
        BY <3>1 DEF Advanced
      <3>. QED
        BY <1>1, <1>3, <3>2 DEF WellPlayed, Players
    <2>. QED
      BY <2>1, <2>2
  <1>5. ASSUME NEW s, DecisionBlocks(Advanced(p, to), s) PROVE DecisionBlocks(p, s)
    <2>1. Advanced(p, to).at = to /\ s = "RECOMMENDATION_AVAILABLE"
      BY <1>1, <1>5 DEF DecisionBlocks, Advanced, Players
    <2>2. PICK c \in Behind(to) : /\ \A d \in Behind(to) : d.at <= c.at
                                  /\ c.decision /\ c.type = s
      BY <1>5, <2>1 DEF DecisionBlocks
    <2>3. c \in Behind(p.at) /\ Behind(p.at) \subseteq Behind(to)
      BY <1>1, <1>2, <2>2, CueFacts DEF Behind
    <2>. QED
      BY <2>1, <2>2, <2>3 DEF DecisionBlocks
  <1>. QED
    BY <1>4, <1>5

\* A non-empty set of offsets has a least element.
LEMMA LeastOffset ==
    ASSUME NEW T \in SUBSET Nat, T # {}
    PROVE  \E x \in T : \A y \in T : x <= y
  <1>1. PICK x \in T : \A y \in T : <<y, x>> \notin OpToRel(<, Nat)
    BY WFMin, NatLessThanWellFounded
  <1>2. \A y \in T : ~(y < x)
    BY <1>1 DEF OpToRel
  <1>. QED
    BY <1>2

\* Of the pauses that a frame has reached, one is the earliest.
LEMMA EarliestPauseFacts ==
    ASSUME NEW p, NEW to, DuePauses(p, to) # {}
    PROVE  LET c == EarliestPause(p, to)
           IN  c \in DuePauses(p, to) /\ \A d \in DuePauses(p, to) : c.at <= d.at
  <1>. DEFINE T == {c.at : c \in DuePauses(p, to)}
  <1>1. T \in SUBSET Nat /\ T # {}
    BY CueFacts DEF DuePauses
  <1>. HIDE DEF T
  <1>2. PICK x \in T : \A y \in T : x <= y
    BY <1>1, LeastOffset
  <1>3. \E c \in DuePauses(p, to) : \A d \in DuePauses(p, to) : c.at <= d.at
    BY <1>2 DEF T
  <1>. QED
    BY <1>3 DEF EarliestPause

\* A playback that stops at the earliest pause it has reached has skipped none.
LEMMA PausedFacts ==
    ASSUME NEW p, WellPlayed(p), p.manifest = "LOADED", NEW to \in Moments,
           DuePauses(p, to) # {}
    PROVE  LET q == PausedAt(p, EarliestPause(p, to)) IN WellPlayed(q) /\ ~q.playing
  <1>. DEFINE c == EarliestPause(p, to)
  <1>1. c \in DuePauses(p, to) /\ \A d \in DuePauses(p, to) : c.at <= d.at
    BY EarliestPauseFacts
  <1>. HIDE DEF c
  <1>2. /\ p \in Players /\ p.at \in Nat /\ p.consumed = PausesBehind(p.at)
        /\ c \in Cues /\ c.at \in Nat /\ c.pause /\ p.at < c.at /\ c.at <= to
    BY <1>1, CueFacts DEF WellPlayed, Players, DuePauses
  <1>3. \A d \in Cues : d.pause /\ d.at <= c.at => d.at <= p.at \/ d.at = c.at
    <2>1. \A x \in p.consumed : x <= p.at
      BY <1>2, CueFacts DEF PausesBehind, Behind
    <2>2. ASSUME NEW d \in Cues, d.pause, d.at <= c.at, ~(d.at <= p.at) PROVE d.at = c.at
      <3>1. d.at \in Nat /\ d.at \notin p.consumed
        BY <2>1, <2>2, CueFacts
      <3>2. d \in DuePauses(p, to)
        BY <1>2, <2>2, <3>1, CueFacts DEF DuePauses
      <3>. QED
        BY <1>1, <1>2, <2>2, <3>1, <3>2
    <2>. QED
      BY <2>2
  <1>4. PausesBehind(c.at) = p.consumed \cup {c.at}
    BY <1>2, <1>3, CueFacts DEF PausesBehind, Behind
  <1>5. WellPlayed(PausedAt(p, c)) /\ ~PausedAt(p, c).playing
    BY <1>2, <1>4 DEF WellPlayed, Players, PausedAt
  <1>. QED
    BY <1>5 DEF c

-----------------------------------------------------------------------------
(* The playback of each tab. *)

LEMMA PlaybackInit == Init => PlaybackInv
  <1>. SUFFICES ASSUME Init PROVE PlaybackInv
    OBVIOUS
  <1>1. WellPlayed(FirstPlayer) /\ ~FirstPlayer.playing
    BY ClientBoundsAssumption DEF FirstPlayer, InitialPlayer, WellPlayed, Players
  <1>. QED
    BY <1>1 DEF Init, PlaybackInv, HeldBack, WellPlayed

\* One playback changes at a time, and what its tab shows with it, if anything.
LEMMA OnePlayed ==
    ASSUME PlaybackInv, NEW t \in Tabs, NEW q, WellPlayed(q),
           player' = [player EXCEPT ![t] = q],
           HeldBack(q, view'[t].stage),
           \A s \in Tabs \ {t} : view'[s] = view[s]
    PROVE  PlaybackInv'
  <1>1. player' \in [Tabs -> Players]
    BY DEF PlaybackInv, WellPlayed
  <1>2. ASSUME NEW s \in Tabs PROVE WellPlayed(player'[s]) /\ HeldBack(player'[s], view'[s].stage)
    <2>1. CASE s = t
      BY <2>1 DEF PlaybackInv
    <2>2. CASE s # t
      BY <2>2 DEF PlaybackInv
    <2>. QED
      BY <2>1, <2>2
  <1>. QED
    BY <1>1, <1>2 DEF PlaybackInv

LEMMA PlaybackStays ==
    ASSUME PlaybackInv, UNCHANGED <<view, player>> PROVE PlaybackInv'
  BY DEF PlaybackInv

LEMMA ElapsedType == \A s : Elapsed(s) \in Nat
  BY DEF Elapsed

LEMMA PlaybackReceive ==
    ASSUME PlaybackInv, RequestInv, NEW r \in requests, Receive(r) PROVE PlaybackInv'
  <1>1. CASE ~ReceiveOK(r.tab, r)
    BY <1>1, PlaybackStays DEF Receive, ReceiveConflict, ReceiveError, screen
  <1>2. CASE ReceiveOK(r.tab, r)
    <2>. DEFINE t == r.tab
                s == r.session.stage
                p == player[t]
                q == Shown(t, r.session)
    <2>1. /\ t \in Tabs /\ view \in [Tabs -> Views] /\ WellPlayed(p) /\ HeldBack(p, view[t].stage)
          /\ r.phase = "ANSWERED" /\ r.status = "OK"
      BY <1>2 DEF RequestInv, Typed, RequestRecords, PlaybackInv, Receive, ReceiveOK
    <2>2. /\ view' = [view EXCEPT ![t] = r.session]
          /\ player' = [player EXCEPT ![t] = IF r.what = "START" THEN Begun(q) ELSE q]
      BY <1>2 DEF ReceiveOK, Render
    <2>3. view'[t].stage = s /\ \A u \in Tabs \ {t} : view'[u] = view[u]
      BY <2>1, <2>2
    <2>4. WellPlayed(q) /\ (q.playing => q = p /\ view[t].stage = s /\ s # "READY")
      BY <2>1, ElapsedType, SynchronizedFacts DEF Shown
    <2>5. HeldBack(q, s)
      BY <2>1, <2>4 DEF HeldBack
    <2>. HIDE DEF q
    <2>6. CASE r.what # "START"
      BY <2>1, <2>2, <2>3, <2>4, <2>5, <2>6, OnePlayed
    <2>7. CASE r.what = "START"
      <3>1. s = "MONITORING"
        BY <2>1, <2>7 DEF RequestInv, Fits
      <3>2. WellPlayed(Begun(q))
        BY <2>4, BegunFacts
      <3>3. HeldBack(Begun(q), s)
        BY <3>1 DEF HeldBack, DecisionBlocks
      <3>. QED
        BY <2>1, <2>2, <2>3, <2>7, <3>2, <3>3, OnePlayed
    <2>. QED
      BY <2>6, <2>7
  <1>. QED
    BY <1>1, <1>2

LEMMA PlaybackReload ==
    ASSUME PlaybackInv, RequestInv, NEW t \in Tabs, Reload(t) PROVE PlaybackInv'
  <1>1. WellPlayed(FirstPlayer) /\ ~FirstPlayer.playing
    BY ClientBoundsAssumption DEF FirstPlayer, InitialPlayer, WellPlayed, Players
  <1>2. /\ player' = [player EXCEPT ![t] = FirstPlayer]
        /\ \A s \in Tabs \ {t} : view'[s] = view[s]
    BY DEF Reload, RequestInv, Typed
  <1>. QED
    BY <1>1, <1>2, OnePlayed DEF HeldBack

LEMMA PlaybackLoad ==
    ASSUME PlaybackInv, NEW t \in Tabs, LoadPlayback(t) PROVE PlaybackInv'
  <1>. DEFINE p == player[t]
              loaded == [p EXCEPT !.manifest = "LOADED"]
              synced == IF view[t] = NoView THEN loaded
                        ELSE Synchronized(loaded, view[t].stage, Elapsed(view[t].stage), "NONE")
              failed == [p EXCEPT !.manifest = "FAILED", !.autoStart = FALSE]
              begun == [Started(synced) EXCEPT !.autoStart = FALSE]
  <1>1. /\ WellPlayed(p) /\ p.manifest = "LOADING" /\ p.at = 0 /\ p.consumed = {} /\ ~p.playing
    BY DEF PlaybackInv, LoadPlayback, WellPlayed
  <1>2. WellPlayed(loaded) /\ ~loaded.playing
    BY <1>1, CueFacts DEF WellPlayed, Players
  <1>3. WellPlayed(failed) /\ ~failed.playing
    BY <1>1 DEF WellPlayed, Players
  <1>. HIDE DEF loaded, failed
  <1>4. WellPlayed(synced) /\ ~synced.playing
    BY <1>2, ElapsedType, SynchronizedFacts
  <1>5. UNCHANGED view
    BY DEF LoadPlayback, SetPlayer
  <1>6. \/ player' = [player EXCEPT ![t] = failed]
        \/ player' = [player EXCEPT ![t] = synced]
        \/ view[t].stage = "MONITORING" /\ player' = [player EXCEPT ![t] = begun]
    BY DEF LoadPlayback, SetPlayer, loaded, failed
  <1>. HIDE DEF synced
  <1>7. WellPlayed(begun)
    BY <1>4, StartedFacts, AutoStartFacts
  <1>8. HeldBack(begun, "MONITORING")
    BY DEF HeldBack, DecisionBlocks
  <1>. HIDE DEF begun
  <1>. QED
    BY <1>3, <1>4, <1>5, <1>6, <1>7, <1>8, OnePlayed DEF HeldBack

LEMMA PlaybackToggle ==
    ASSUME PlaybackInv, NEW t \in Tabs, TogglePlayback(t) PROVE PlaybackInv'
  <1>. DEFINE p == player[t]
              from == IF p.at = Duration THEN Sought(p, 0) ELSE p
  <1>1. /\ WellPlayed(p) /\ p.manifest = "LOADED" /\ HeldBack(p, view[t].stage)
        /\ ~DecisionBlocks(p, view[t].stage)
    BY DEF PlaybackInv, TogglePlayback
  <1>2. \/ UNCHANGED <<view, player>>
        \/ UNCHANGED view /\ player' = [player EXCEPT ![t] = Stopped(p)]
        \/ /\ UNCHANGED view /\ player' = [player EXCEPT ![t] = Started(from)]
           /\ view[t].stage # "READY"
    BY <1>1 DEF TogglePlayback, SetPlayer, screen
  <1>3. WellPlayed(Stopped(p)) /\ ~Stopped(p).playing
    BY <1>1 DEF WellPlayed, Players, Stopped
  <1>4. WellPlayed(from) /\ ~DecisionBlocks(from, view[t].stage)
    <2>1. CASE p.at = Duration
      <3>1. WellPlayed(from) /\ from.at = 0
        BY <1>1, <2>1, SoughtFacts DEF Sought, WellPlayed, Players
      <3>2. \A c \in Behind(0) : ~c.decision
        BY CueFacts DEF Behind
      <3>. QED
        BY <3>1, <3>2 DEF DecisionBlocks
    <2>2. CASE p.at # Duration
      BY <1>1, <2>2
    <2>. QED
      BY <2>1, <2>2
  <1>. HIDE DEF from
  <1>5. WellPlayed(Started(from)) /\ ~DecisionBlocks(Started(from), view[t].stage)
    BY <1>4, StartedFacts
  <1>6. CASE UNCHANGED <<view, player>>
    BY <1>6, PlaybackStays
  <1>. QED
    BY <1>2, <1>3, <1>5, <1>6, OnePlayed DEF HeldBack

LEMMA PlaybackScrub ==
    ASSUME PlaybackInv, NEW t \in Tabs, Scrub(t) PROVE PlaybackInv'
  <1>1. PICK at \in Nat : player' = [player EXCEPT ![t] = Sought(player[t], at)]
    BY CueFacts DEF Scrub, SetPlayer
  <1>2. WellPlayed(Sought(player[t], at)) /\ ~Sought(player[t], at).playing
    BY SoughtFacts DEF PlaybackInv
  <1>3. UNCHANGED view
    BY DEF Scrub, SetPlayer
  <1>. QED
    BY <1>1, <1>2, <1>3, OnePlayed DEF HeldBack

LEMMA PlaybackFrame ==
    ASSUME PlaybackInv, NEW t \in Tabs, Frame(t) PROVE PlaybackInv'
  <1>. DEFINE p == player[t]
  <1>1. /\ WellPlayed(p) /\ p.manifest = "LOADED" /\ p.playing
        /\ HeldBack(p, view[t].stage) /\ UNCHANGED view
    BY DEF PlaybackInv, Frame, WellPlayed, SetPlayer
  <1>2. PICK to \in Moments :
           /\ to > p.at
           /\ \/ DuePauses(p, to) = {} /\ player' = [player EXCEPT ![t] = Advanced(p, to)]
              \/ /\ DuePauses(p, to) # {}
                 /\ player' = [player EXCEPT ![t] = PausedAt(p, EarliestPause(p, to))]
    BY DEF Frame, SetPlayer
  <1>3. CASE DuePauses(p, to) = {}
    <2>1. WellPlayed(Advanced(p, to)) /\ HeldBack(Advanced(p, to), view[t].stage)
      BY <1>1, <1>2, <1>3, AdvancedFacts DEF HeldBack
    <2>. QED
      BY <1>1, <1>2, <1>3, <2>1, OnePlayed
  <1>4. CASE DuePauses(p, to) # {}
    <2>. DEFINE q == PausedAt(p, EarliestPause(p, to))
    <2>1. WellPlayed(q) /\ ~q.playing
      BY <1>1, <1>4, PausedFacts
    <2>2. player' = [player EXCEPT ![t] = q]
      BY <1>2, <1>4
    <2>. HIDE DEF q
    <2>. QED
      BY <1>1, <2>1, <2>2, OnePlayed DEF HeldBack
  <1>. QED
    BY <1>3, <1>4

LEMMA PlaybackNext == RequestInv /\ PlaybackInv /\ [Next]_vars => PlaybackInv'
  <1>. SUFFICES ASSUME RequestInv, PlaybackInv, [Next]_vars PROVE PlaybackInv'
    OBVIOUS
  <1>1. CASE UNCHANGED vars
    BY <1>1, PlaybackStays DEF vars, screen
  <1>2. ASSUME NEW r \in requests, Serve(r) \/ Fail(r) \/ Vanish(r) PROVE PlaybackInv'
    BY <1>2, PlaybackStays DEF Serve, Fail, Vanish, screen
  <1>3. ASSUME NEW r \in requests, Receive(r) PROVE PlaybackInv'
    BY <1>3, PlaybackReceive
  <1>4. ASSUME NEW t \in Tabs, Refresh(t) \/ Click(t) \/ Accept(t) \/ SubmitDecision(t)
        PROVE  PlaybackInv'
    BY <1>4, PlaybackStays DEF Refresh, Click, Accept, SubmitDecision, screen
  <1>5. ASSUME NEW t \in Tabs, NEW m, SetDecisionMode(t, m) PROVE PlaybackInv'
    BY <1>5, PlaybackStays DEF SetDecisionMode
  <1>6. ASSUME NEW t \in Tabs,
               Frame(t) \/ LoadPlayback(t) \/ Reload(t) \/ TogglePlayback(t) \/ Scrub(t)
        PROVE  PlaybackInv'
    BY <1>6, PlaybackFrame, PlaybackLoad, PlaybackReload, PlaybackToggle, PlaybackScrub
  <1>. QED
    BY <1>1, <1>2, <1>3, <1>4, <1>5, <1>6 DEF Next, Operate

\* Whatever brings a tab its session, its playback is where its pauses and the stage
\* shown allow it to be.
THEOREM PlaybackInvariant == Spec => []PlaybackInv
  BY PlaybackInit, PlaybackNext, RequestInvariant, PTL DEF Spec

\* The playback does not run on a session that has not started, nor past a decision
\* that is awaited.
THEOREM ClientPlaybackHeldBack == Spec => []PlaybackHeldBack
  <1>1. PlaybackInv => PlaybackHeldBack
    BY DEF PlaybackInv, HeldBack, PlaybackHeldBack
  <1>. QED
    BY <1>1, PlaybackInvariant, PTL

\* No pause is skipped and each ahead is due again.
THEOREM ClientCuesConsumedExactly == Spec => []CuesConsumedExactly
  <1>1. PlaybackInv => CuesConsumedExactly
    BY DEF PlaybackInv, WellPlayed, CuesConsumedExactly
  <1>. QED
    BY <1>1, PlaybackInvariant, PTL

-----------------------------------------------------------------------------
\* Whatever tabs, cues, reloads and late requests do, the session goes only through
\* steps of SessionWorkflow, which the guided session is shown to implement too.
THEOREM ClientSessionFollowsWorkflow == Spec => Session!Spec
  <1>1. Init => Session!Init
    BY DEF Init
  <1>2. ASSUME RequestInv, [Next]_vars PROVE [Session!Next]_(Session!vars)
    <2>1. ASSUME NEW r \in requests, Serve(r) PROVE [Session!Next]_(Session!vars)
      <3>1. CASE UNCHANGED session
        BY <3>1 DEF session, Session!vars
      <3>2. CASE r.what # Fetch /\ ~Invalid(r) /\ ~Refused(r) /\ Effect(r)
        <4>1. r.what \in Commands
          BY <1>2 DEF RequestInv, Typed, RequestRecords
        <4>2. CASE r.what = "MODIFY_RECOMMENDATION"
          <5>1. Session!Decide("DECISION_MODIFIED", r.form)
            BY <3>2, <4>2 DEF Effect
          <5>2. r.form \in Maneuvers \ {Recommended}
            BY <1>2, <3>2, <4>2, <5>1 DEF RequestInv, Fits, Invalid, Session!Decide
          <5>. QED
            BY <5>1, <5>2 DEF Session!Next
        <4>3. CASE r.what # "MODIFY_RECOMMENDATION"
          BY <3>2, <4>1, <4>3 DEF Effect, Commands, Session!Next
        <4>. QED
          BY <4>2, <4>3
      <3>. QED
        BY <2>1, <3>1, <3>2 DEF Serve, ServeUnchanged, ServeEffect
    <2>2. ASSUME NEW r \in requests, Receive(r) \/ Fail(r) \/ Vanish(r)
          PROVE  UNCHANGED Session!vars
      BY <2>2 DEF Receive, Fail, Vanish, session, Session!vars
    <2>3. ASSUME NEW t \in Tabs, Frame(t) \/ LoadPlayback(t) \/ Operate(t) \/ Reload(t)
          PROVE  UNCHANGED Session!vars
      <3>1. CASE Frame(t) \/ LoadPlayback(t) \/ Scrub(t) \/ TogglePlayback(t) \/ Reload(t)
        BY <3>1 DEF Frame, LoadPlayback, Scrub, TogglePlayback, Reload, SetPlayer, session,
                    Session!vars
      <3>2. CASE Refresh(t) \/ Click(t) \/ Accept(t) \/ SubmitDecision(t)
        BY <3>2 DEF Refresh, Click, Accept, SubmitDecision, session, Session!vars
      <3>3. ASSUME NEW m, SetDecisionMode(t, m) PROVE UNCHANGED Session!vars
        BY <3>3 DEF SetDecisionMode, session, Session!vars
      <3>. QED
        BY <2>3, <3>1, <3>2, <3>3 DEF Operate
    <2>4. CASE UNCHANGED vars
      BY <2>4 DEF vars, session, Session!vars
    <2>. QED
      BY <1>2, <2>1, <2>2, <2>3, <2>4 DEF Next
  <1>. QED
    BY <1>1, <1>2, RequestInvariant, PTL DEF Spec, Session!Spec
=============================================================================
