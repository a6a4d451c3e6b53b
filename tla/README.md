# SENTRY ATM in TLA+

SENTRY ATM is a process-local air-traffic decision-support demo: a deterministic
simulation of eight aircraft, a rolling conflict prediction, an exception queue,
recommendations with isolated safety validation, a controller decision audit, and
one guided *Golden Demo* session over all of it, reached by a browser through a
single-threaded WSGI server. This directory holds TLA+ modules for the parts that
carry state over time, TLC configurations for small instances of them, and proofs
that hold for every instance.

## 1. Inventory

Paths are below `src/src/sentry_atm/`.

| Component | State | Operations | Hard part |
|---|---|---|---|
| Simulation clock (`simulation/clock.py`) | tick, state, reset count | play, pause, tick, reset | a reset notifies nobody |
| Event timeline (`scenario/timeline.py`) | position, reset count seen | poll, pending, accessors | long ticks, lazy reset |
| Rolling schedulers (`prediction/`, `conflict/scheduler.py`) | last slot, reset count seen | run_if_due, accessors | slot boundaries, lazy reset |
| Synthetic aircraft (`simulation/synthetic.py`) | applied anchors, reset count seen | apply_state_anchor, current_state | ambiguous or stale anchors |
| Exception queue (`exception_queue/`, `domain/exception_queue.py`) | items, last snapshot, revision | refresh, acknowledge, reset, ordering | episodes, client-chosen times |
| Recommendation catalog (`runtime/composition.py`) | sets, current set | publish, reset | order of publication |
| Decision service (`controller_decision/`, `domain/controller_decision.py`) | audit log, decided sets | decide, reset | competing clients, sorted log |
| Orchestrators and session (`runtime/`, `api/session.py`) | last results per orchestrator | eleven commands, read | half-failed commands, stage derived from evidence |
| Prediction, conflict, risk, priority | none | pure functions of a snapshot | held samples, rounding, clamps, closed bounds |
| Resolution, validation, recommendation | none | generate, validate, rank | secondary conflicts, records that check again, ties |
| Replayed aircraft and playback (`simulation/playback.py`, `api/playback.py`) | last sample | advance, sampling | snapshots that mix ages |
| Dashboard (`infrastructure/http/static/app.js`) | session copy, request flag, decision form, playback position, cues consumed | fetch, command, cues, reload | several tabs, lost answers, cues during a request |
| HTTP adapters (`infrastructure/http/`) | none | refusals in order, mapping of errors and views | retries, errors told apart by their text |
| Persistence (`infrastructure/persistence/`) | database rows | append-only repositories | not used by the session |

**How they interact.** The session command service reads the session (which makes
every orchestrator compare the clock's reset count with the one it last saw),
checks stage and time, then calls the orchestrators in a chain: step, resolution,
decision, revalidation, application. A step ticks the clock, polls the timeline,
runs the schedulers that are due and refreshes the queue. A resolution publishes
a set to the catalog. A decision adds an entry to the audit log. An application
puts an anchor on one aircraft and refreshes the queue again. The queue, catalog
and decision services are also reachable through in-process APIs
(`api/exception_queue.py`, `api/controller_decision.py`) that accept times of the
caller's choosing and never look at the clock, and through HTTP adapters on top of
them. A browser tab sends one request at a time, but several tabs, reloads and a
network that loses answers share one session, and the tab's playback runs beside
its requests. Prediction, detection, risk and priority are computed from one
traffic snapshot in which synthetic aircraft stand at the time of the clock and
replayed ones at their last sample; advice is generated, validated and ranked on
such a snapshot, and put into force on a later one.

**What makes each correct.** Clock and parts: nothing of an earlier run leaks into
the next; events once and in order; a slot once; an aircraft's anchor
unambiguous. Queue: active exceptions neither vanish nor inherit old
acknowledgements. Decisions: one final decision per set, audit append-only, last
entry newest. Session: stages in order, evidence backed by the audit log, an
aircraft moved only with authorization, half-failed commands explained, and
progress for an operator who keeps going. Assessments: no loss of separation
inside the look-ahead unreported, no approaching conflict rated lower than before.
Advice: with it in force nobody loses separation, now or when it is applied late.
Adapters: only steps of the services, nothing changed by a refusal, a retry
harmless. Dashboard: what a tab shows never goes back, what it sends acts on the
stage it showed, its controls unlock.

## 2. Modules

| Module | Models | Extends |
|---|---|---|
| `SimulationParts` | clock, timeline, scheduler and aircraft as values and functions | |
| `SimulationRuntime` | those parts, their methods called in any order | `SimulationParts` |
| `EagerSimulation` | abstract: a reset starts the new run everywhere at once | `SimulationParts` |
| `ExceptionItems` | the queue as a value: refresh, acknowledge, order | |
| `ExceptionQueue` | the queue service and its API | `ExceptionItems` |
| `DecisionAudit` | catalog and audit log as values | |
| `ControllerDecision` | catalog, decision service and its API | `DecisionAudit` |
| `GoldenDemoSession` | the session: commands, orchestrators, facades | the three value modules |
| `SessionWorkflow` | abstract: stages, the controller's choice, what moved | |
| `PlaybackPlayer` | the tab's playback as a value: position, cues consumed, pauses | |
| `DashboardClient` | tabs, requests in flight, the session as the tabs see it, an unreliable network | `PlaybackPlayer` |
| `TrafficMotion` | motion, prediction, alignment, closest approach, risk, priority as functions | |
| `ResolutionAdvice` | candidates, isolated validation, the records' checks, ranking as functions | `TrafficMotion` |
| `TrafficAdvisory` | traffic that moves, assessments of its snapshots, advice and its late application | `ResolutionAdvice` |
| `HttpAdapters` | the queue, recommendation and decision adapters over the two services | `ExceptionItems`, `DecisionAudit` |
| `MC*` | instances for TLC | the module they are named for |
| `*Proofs` | lemmas and theorems | the module they are named for (`SharedValueProofs`: `SimulationParts`, `ExceptionItems` and `DecisionAudit`, the values that several of them share) |

The components are written as *values with functions* (`SimulationParts`,
`ExceptionItems`, `DecisionAudit`, `PlaybackPlayer`, `TrafficMotion`,
`ResolutionAdvice`), so that the component specifications and the
session that composes them share one definition of each method. Operators named
"Faulty variant" in comments are deliberately wrong forms of the definition that
follows; no specification uses them. They record which bug each property detects.

### Correspondence

- `SimulationRuntime`: `clock.tick` is `completed ticks` (one second each),
  `observed` in each part its `_observed_reset_count`, `timeline.next` is
  `_next_index`, `lastSlot` is `_last_slot`, `applied` is `_applied_states`.
  `delivered` and `ran` are history variables.
- `ExceptionQueue`: `queue.items` is `_items_by_id` as a function of the stable
  subject, `queue.at` the time of `_last_snapshot`, `revision` as in the code.
- `ControllerDecision`: `catalog.published` / `current` are `_sets_by_id` /
  `_current_id`; `audit.entries` are the log's entries. The log sorts by time and
  id; an id starts with time and zero-padded revision, so the set of entries
  determines the list and `ListedBefore` its order.
- `GoldenDemoSession`: `evidence` holds what the six orchestrators keep as
  `_last_result`; `observed` stands for their `_observed_reset_count`, which every
  command and read brings into agreement first. `Q`, `K`, `A`, `E` are the four
  as the orchestrators see them after that comparison. `Stage` is derived as in
  `api/session.py` and stored nowhere. Each command is one action that contains
  everything the command does, including what it leaves behind when the queue or
  the audit refuses: e.g. `Step` always moves clock, timeline, schedulers and
  aircraft, and updates queue and evidence only if the queue accepts the time.
  A command that raises before it acts is `GetCurrent`, the read it starts with.

- `DashboardClient`: per tab `view` is `currentSession`, `busy` is
  `requestBusy`, `player` the playback variables of `app.js`; `requests` are what
  is under way, in the phases sent, answered or abandoned. The session is its
  stage and a version that counts its changes; its commands are those of
  `GoldenDemoSession` without other clients. A request of a tab that gave up, or was
  reloaded, may still reach the server (`Outlives`) or vanish.
- `TrafficAdvisory`: `anchors` are the motion anchors (`_applied_states` and the
  initial state) of a synthetic aircraft or the last sample of a replayed one;
  `assessed` holds the outputs of the run services with the snapshot they were
  made of; `advice` is the published set with its batch and validation run. An
  answer INCONSISTENT would be a record refusing what this code computed.
- `HttpAdapters`: `answer` is the status and the view of the last response, a
  request carries the set of things wrong with it (`FlawSets`) and `Checks` lists
  them in the order the adapter looks. `settled` is a client that remembers one
  request it may send again; one is enough, since each property is about one
  request.

In the session, traffic geometry is abstracted. Which risk and priority levels the detectors
report at T+0, T+70, T+75 and T+90, what they report after each maneuver, and the
verdict of isolated validation are the constants `Forecast`, `Outcome` and
`Verdict`. `MCGoldenDemoSession` gives them the values the code computes for
9,000, 8,800, 8,300, 7,200 and 8,100 ft and for an entry delay too large for a
timestamp. The proofs hold for any values.

## 3. Runs

| Run | Instance | Shows |
|---|---|---|
| `simulation` | 1 scheduler interval of 2 ticks, 5 ticks, steps of 1 and 3, 3 runs, 2 payloads | events once and in order (`EventsOncePerRunInOrder`, `PollCatchesUp`), slots once (`OneRunPerSlot`), anchors unambiguous (`AnchorsUnambiguous`), and `ResetIsImmediate`: the lazy parts implement `EagerSimulation` |
| `queue` | 2 subjects, times 0..3, 5 snapshots between resets | `ActiveUntilCleared`, `NoInheritedAcknowledgement`, `SeverityFirst` |
| `decisions` | overlapping sets generated at different times, 4 recommendations, 2 maneuvers, times 0..4 | one final decision (`OneFinalDecision`), and the entry the session takes for the last is the one recorded last (`LatestEntryIsNewest`) |
| `guided_session` | the web session alone, 5 runs, all six maneuvers | `AtCheckpoint`, and under fairness `SessionSettles` |
| `shared_session` | 3 runs, other clients with times 75, 90 and 120, a library caller that resets the clock | authorization, evidence backed by the log, `WedgeExplained`, `ConflictStaysActive`, and `WorkflowFollowed`: the session implements `SessionWorkflow` |
| `resolved_stage` | the web session alone, 2 runs | a disagreement between document and code, section 5 |
| `playback_tab` | one tab, four of the demo's cues, six moments a frame can reach or a seek can choose, 2 runs of the session, an abandoned request | the playback never runs ahead of a pending decision (`PlaybackHeldBack`), each pause is stopped at once per pass (`CuesConsumedExactly`), the controls unlock (`Unlocks`), and once a command is answered the screen is level with all the tab's own commands (`ReadsItsOwnWrites`) |
| `two_tabs` | two tabs, no playback, requests that fail, one reload | what a tab shows only moves forward (`ViewNeverGoesBack`), what it sends acts on the stage it showed (`ActsOnWhatItShows`) |
| `cue_commands` | the instance of `playback_tab` | a disagreement, section 5 |
| `traffic_watch` | 960 encounters of a synthetic and a replayed aircraft, look-ahead 6, one scheduled anchor, 2 events | `ClosestIsClosest`, `NoSurpriseLoss`, `PredictionsComeTrue`, `RiskEscalates`, `PriorityKept`; `TypeOK`: what the evaluators build passes the checks of its records |
| `advice` | 96 encounters of two crossing aircraft and a third, all six kinds of maneuver, application up to 2 ticks later | `AdviceSound`, `AdviceCheapest`, `OwnEvidenceAccepted`, `LateAdviceKeeps`, `ConflictsAnswered` |
| `http_clients` | 1 subject, 2 overlapping sets, 6 submissions, times 0..2, malformed requests, requests sent again | `QueueStepsOnly` and `DecisionStepsOnly`: behind the adapters the services go only through steps of `ExceptionQueue` and `ControllerDecision`; `ListTellsWhatCanBeAcknowledged`, `RetryAcknowledgesNothingNew`, `LogTellsWhatIsOpen`, `SettledStaysSettled` |

**Bounds.** `MaxTick`, `MaxTime`, `MaxRevision` and `MaxResets` cap counters that
the code leaves unbounded. Three runs are enough to see a part skip a run
altogether before it notices; 5 ticks with an interval of 2 and steps of 3 cross,
hit and skip slot boundaries and events. Five queue snapshots allow an item to
open, be acknowledged, resolve and return. The facade times lie before, at and
after the T+90 checkpoint. `MaxRevision` bounds only acknowledgements in the
session, so no command is ever blocked by a bound.

`MaxRuns` bounds the resets the tabs send, `MaxAbandoned` the requests whose tab
has given up, `MaxReloads` the page loads; two tabs are interchangeable and the run
uses that symmetry. `Moments` are the positions a frame or a seek can reach: every
cue, one place between two cues and the end. In the traffic a unit is half a
threshold and a tick the resolution of a timestamp; the look-ahead is longer than
the clock, the encounters contain parallel, diverging, crossing, head-on and
overtaking pairs, climbing or not, inside the thresholds, on them and outside.
`MaxDeviations` anchors change the motion, `MaxDelay` is how late advice is
applied, and there is one advice per run: a second one is the first of a run that
begins with the later traffic. The two
halves of `HttpAdapters` share nothing but the reset, so one subject, which can
open, be acknowledged, be cleared and return within four snapshots, and six
submissions are enough: they decide either set first, at one time or at different
times, directly or through the recommendation the sets share.

**Deadlock** is checked in every run but those of `TrafficAdvisory`, whose clock
stops at its bound: elsewhere reads and resets are always possible or the
instance still allows a client call.

**Fairness.** `playback_tab` assumes that the server handles a request it has
received and that the browser settles a fetch that was answered (weak fairness of
`Serve` and `Receive` of each tab, in `FairSpec`); nothing is assumed of the
operator, the playback or the failures, and `Unlocks` holds whether a request
succeeds, fails or is lost. `guided_session` assumes weak fairness of `NextCommand`,
an operator who gives the next command of the guided flow whenever one is
possible. The server is single-threaded and every command terminates, so a command
that is given is executed. No fairness is assumed for resets or other clients;
resets are bounded by `MaxResets`, and `SessionSettles` says that after the last
of them the session reaches an outcome and stays there. Two modifications end a
run without an application: one found UNSAFE or INEFFECTIVE, and one whose
validation raises (an entry delay that overflows a timestamp), which can be
retried but never succeeds. Both count as settled.

## 4. Proofs

The TLA+ proof system checks every leaf; nothing is assumed beyond the named
`ASSUME`s of the modules (shapes of the constants, finitely many subjects with an
exception order that tells them apart, sets generated at natural times, the
recommendation's set generated at T+75, nothing urgent forecast at the start and the
conflict's pair forecast HIGH or CRITICAL at T+70, T+75 and T+90, a conflict
interval of at most 70 seconds, decision cues that pause, positive thresholds and profiles, templates told apart by their
identifiers, traffic of time 0), which TLC evaluates on each instance.

- **`SharedValueProofs`**: what
  the shared functions return. `DueThroughFacts` shows that the scan for due
  events, a `CHOOSE` in the model, exists and stops where it should; its core is
  that a non-empty set of naturals has a least element. `DecidedFacts` shows that an
  accepted decision becomes the last entry of the sorted log. `ArrangedFacts` is
  about the list of the queue, a `CHOOSE` of a sorted arrangement: the sort key is a
  strict total order (`PrecedesOrder`), so the number of items ahead of each is a
  bijection onto the places, the arrangement exists, and any sorted one shows each
  item once.
- **`SimulationRuntimeProofs`**: the invariants of the clock-driven parts, that a
  poll catches up, and that the parts implement `EagerSimulation`. The argument is
  about views: what a part would hold had it noticed the reset already. `Lagging`
  (no part has seen a run that has not begun) makes a reset of the clock alone
  empty every view at once; every other call changes at most one. The inductive
  invariant adds that the events handed out are exactly those up to the timeline's
  position and that a scheduler remembers the latest slot it ran.
- **`ExceptionQueueProofs`**: `TypeOK`, `LifecycleIntervals` and
  `ResolvedMeansCleared` are inductive together: types alone do not show that an
  item's opening precedes the next refresh. Both action properties follow.
  `SeverityFirst` is a fact about any well-typed queue: the resolved flag and the
  rank come before the acknowledgement in the sort key.
- **`ControllerDecisionProofs`**: `OneFinalDecision` and the others need that the
  current set is published exactly if anything is, that revisions are used one by
  one, and that the log has a last entry (`Listed`).
- **`GoldenDemoSessionProofs`**: `AppliedOnlyWhenAuthorized` and
  `EvidenceBackedByAudit` for any scenario, verdicts, maneuvers, client times and
  number of runs. The invariant `SInv` adds to them that the target aircraft has
  seen no run the orchestrators have not (`SeenInOrder`; otherwise a stale anchor
  would count as an unauthorized move), that the log has a last entry, and
  that a decision, a verdict and a resolution are what catalog and log say
  (`Backed`). The delicate steps are a decision submitted beside the session,
  refused once the session has decided because the set is taken, and an
  application whose traffic refresh fails after the aircraft has moved.
  On top of `SInv`, `CourseInv` describes a run's course: the target
  has not moved before a decision, and its movements are of the current clock time
  (`MovedNow`), nothing but
  the session's resolution is in the catalog (`CatalogFollows`, or a publication
  could be refused and leave the session between two stages), at the start of
  a run the conflict scheduler has served the first slot at most (`SlotsServed`, or
  the step to T+70 could find its slot served and not detect the conflict), and with them `ConflictStaysActive`
  and `WedgeExplained` are inductive: the conflict stays active because no refresh
  before the application reports it cleared, and a client can only acknowledge it.
  The same invariant makes each command a step or a stutter of `SessionWorkflow`
  (`SessionFollowsWorkflow`; the mapping takes stage, chosen maneuver and applied
  maneuvers from the evidence, as the read model does). Where no other client uses
  the queue or the log (`FacadeTimes = {}`, the instance of `guided_session`) the
  queue is never ahead of the clock (`Undisturbed`), which leaves no way off the
  course: `SessionAtCheckpoint`.

- **`DashboardClientProofs`**: for any number of tabs, requests, failures, reloads
  and abandoned requests, and any manifest. `RequestInv` says that a tab whose
  request is under way has locked its controls and awaits no other (`OneAwaited`),
  that an answer under way is no older than what its tab shows and than what the
  tab's own commands have made (`InOrder`), that a request was sent at the stage
  where the server takes it (`Fits`) and that a decision form is open only while the
  decision is awaited (`FormsOpen`). The delicate steps are a request abandoned by its
  tab that still reaches the server, and the re-fetch after a conflict. `PlaybackInv`
  says that the pauses consumed are exactly those behind the position and that the
  playback does not run on a session that holds it; it needs that a cue that asks
  for a decision is a pause, which the manifest's constructor checks
  (`api/playback.py:65`). `ClientSessionFollowsWorkflow` shows that whatever the
  tabs send, the session they see goes through steps of the same `SessionWorkflow`
  that `GoldenDemoSession` implements.
- **`HttpAdaptersProofs`**: every action of `HttpAdapters` maps to a step or a
  stutter of `ExceptionQueue` and of `ControllerDecision`
  (`QueuesRefineService`, `DecisionsRefineService`), for any clients. `IInv` says
  that the time of the log is an integer, that the set of a settled decision is
  published and either decided or older than the log, and that an answer with the log
  shows it as it is: hence a repeated decision is a conflict until the reset, and the
  log tells what is open. `QInv` adds that no item opened
  later than the last snapshot, which is what refuses an old acknowledgement of a
  new episode. `ListInv` says that a list that was just shown is that of the queue as
  it is; with `ArrangedFacts`, what it shows as active is what can be acknowledged.
- **`TrafficAdvisoryProofs`**: for any traffic, fleet, thresholds, look-ahead,
  profiles, templates and events. The squared distance of a pair is
  `d*k*k - 2*n*k` up to a constant; `TcpaMinimizes` shows that the clamped and
  rounded tick minimises it over the look-ahead (a rounding error of at most half a
  tick on either side changes no comparison between ticks), and `TcpaMonotone`
  that it never moves away while a pair flies on. Moving a state a tick at a time,
  at once, or by alignment leads to one place (`MovedDisplacement`,
  `AlignedDisplacement`), so what an assessment compares is where the aircraft will
  be; with equal vertical speeds the vertical separation is constant, and a loss at
  any tick shows at the closest approach. `SeenAgain` and `ApproachAgain` carry this
  from one assessment to the next. The ranking is a `CHOOSE` per place: the number
  of cheaper candidates is an injection of the candidates into the places, hence
  onto them, so every place has its candidate (`PlacesTaken`). Safe evidence and
  the closest approach give `AdviceSound`; late application shifts the target's
  path linearly, which gives `LateAdviceKeeps`. The invariant `IInv` says that an
  assessment is what the evaluators make of the snapshot stored with it, no state
  of which is newer than a snapshot would hold now (`AssessedInv`), that published
  advice is the ranking of the evidence about a well-made batch (`AdviceInv`), and
  that what was applied is altitude advice on the state the target had reached
  (`AppliedInv`). `TypeOK` follows from it with the batches' values (`TypeInv`):
  squares are not negative, the clamp keeps the time inside the look-ahead, and a
  batch is published only if each of its commands could be built.
  `AdvisoryConflictsAnswered` is conditional, since the property is not true of
  every instance: a profile may have a minimum speed of 0, and speed advice of 0 is
  refused by its record; a preferred altitude may lie above the ceiling; a held
  snapshot of replayed aircraft alone may be older than its assessment; and an
  aircraft may have descended so far below 0 that a climb does not bring it back
  (`AboveGround` excludes it). Under the four conditions, every refusal is due to
  traffic of different times.

Proved, and left to the proofs: the type invariants of the runtime, the services
and the session, the checks of the queue's records (`LifecycleIntervals`,
`ResolvedMeansCleared`), the order of publications (`CurrentIsNewest`,
`DecidedAfterPublication`), the append-only log (`AuditAppendOnly`), and that a
refused request changes nothing (`RefusedChangesNothing`).

Only model-checked: `SessionSettles` and `Unlocks` (liveness under fairness is out of
the prover's reach), and `ConflictsAnswered` for low aircraft, where the instance
of `advice` keeps traffic above the ground. Induction over data is out of reach too:
the lemmas use the least element of a set and counting instead. Every other property
of a run that is expected to pass is a theorem.

## 5. Disagreements between document and code

`src/docs/session_api.md:23` says the derived stage cannot run ahead of the
backend evidence and line 39 that the post-application view is a SAFE/LOW/RESOLVED
summary. `api/session.py:613` reports CONFLICT_RESOLVED whenever an application
result exists. A modification to 8,300 ft is validated SAFE, is applied, and
leaves the source exception OPEN at MEDIUM, under the stage CONFLICT_RESOLVED
(run `resolved_stage`).

`src/docs/animated_demo.md:100-101` says the cues at T+70 and T+75 are connected
to their commands. A cue the playback reaches while a request is in flight is
consumed, and its command is dropped by the request flag (`app.js:1229`, run
`cue_commands`); the playback waits and the operator has to press the button.

Not a disagreement but worth knowing:

- An acknowledgement with a future time makes the queue refuse every refresh until
  then. A command that then fails has already advanced the clock or moved the
  aircraft, and only RESET leads out. `WedgeExplained` shows that this and a
  decision submitted beside the session are the only ways to such a state.
- After an answer of 422 a tab counts as online although what it shows may be
  stale; only a conflict makes it fetch the session again. `ReadsItsOwnWrites` is
  about answers that do bring it level.
- A command that outlives its tab may act in a later run of the session (START and
  RESET are possible whenever the stage allows them).
- A second conflict elsewhere, which no candidate can influence, makes every
  candidate UNSAFE, and `NO_SAFE_CANDIDATE` is the answer.
- The vertical separation of a pair is judged at the horizontal closest approach
  only (`docs/conflict.md`, section 5.1): a climbing pair may lose separation at
  another tick. `NoSurpriseLoss`, `RiskEscalates` and `AdviceSound` are therefore
  about pairs with equal vertical speeds.
- `docs/risk_priority.md:26` paraphrases CRITICAL as a present or very imminent loss
  of separation, its table and `risk/evaluator.py:99` rate a predicted conflict by
  the time to its closest approach alone: a pair already inside both thresholds
  that still converges slowly is HIGH, or MEDIUM.

## 6. Not modelled, and the plan

- Release and demo checks (pure I/O, scripts that call the session in one fixed
  order), the web shell and the socket server, the drawing of the dashboard.
- Scenario definition (constant data) and floating-point geometry. The traffic
  modules use an integer grid and right-angled headings, which keep the sines and
  cosines exact; what rounding of floating-point numbers adds to a boundary is not
  covered.
- In `HttpAdapters`, bodies shorter than announced and request values whose
  conversion raises anything but KeyError, ValueError or TypeError (the overflow of
  a time zone conversion, for one): they end a request without an answer of the
  adapter.
- Persistence, which the running session does not use.
- The sampling of trajectories for the display.

Next, in order: a bound on the age of what a tab shows; `Repositories`, append-only
persistence with transactions of the caller; `PlaybackSampling`.
