-------------------------- MODULE TrafficAdvisory --------------------------
(***************************************************************************)
(* Traffic that moves, the assessments made of its snapshots, the advice   *)
(* computed for an active conflict, and the application of one altitude    *)
(* recommendation some time later.                                         *)
(*                                                                         *)
(* An aircraft of Recorded replays a recording (AircraftPlaybackRuntime):  *)
(* a snapshot holds its last sample.  Every other one is synthetic         *)
(* (SyntheticAircraftRuntime): a snapshot holds its motion at the time of  *)
(* the clock.                                                              *)
(***************************************************************************)
EXTENDS ResolutionAdvice

CONSTANTS
    Recorded,       \* the aircraft whose states are replayed samples
    Traffics,       \* the traffic at the start, functions from Aircraft to States
    Hints,          \* the preferred altitudes a request may give
    Events,         \* the events of the scenario
    Deviations,     \* what a scheduled anchor may change in the motion of an aircraft
    None,
    MaxClock, MaxDeviations, MaxDelay

ASSUME TrafficAssumption ==
    /\ Recorded \subseteq Aircraft
    /\ Traffics \subseteq [Aircraft -> States]
    /\ \A f \in Traffics, a \in Aircraft : f[a].at = 0
    /\ Hints \subseteq Nat \cup {NoHint}
    /\ Events \subseteq ScenarioEvents
    /\ Deviations \subseteq [hdg : Headings, vs : Int, emergency : BOOLEAN]
    /\ {MaxClock, MaxDeviations, MaxDelay} \subseteq Nat

VARIABLES
    clock,
    anchors,     \* per aircraft, its last motion anchor or sample
    deviations,  \* how many scheduled anchors have come into force
    assessed,    \* the last assessment, with the snapshot it was made of
    advice,      \* the last advice published
    answer,      \* how the last request for advice ended
    applied      \* the recommendation put into force

vars == <<clock, anchors, deviations, assessed, advice, answer, applied>>

-----------------------------------------------------------------------------
(* The states of the traffic *)

\* Where an aircraft is, held or not.
Actual(a) == Moved(anchors[a], clock)

\* current_state of the runtime of an aircraft.
CurrentState(a) == IF a \in Recorded THEN anchors[a] ELSE Moved(anchors[a], clock)

Snapshot == [a \in Aircraft |-> CurrentState(a)]

Init ==
    /\ clock = 0
    /\ anchors \in Traffics
    /\ deviations = 0
    /\ assessed = None
    /\ advice = None
    /\ answer = "NONE"
    /\ applied = None

Tick ==
    /\ clock < MaxClock
    /\ clock' = clock + 1
    /\ UNCHANGED <<anchors, deviations, assessed, advice, answer, applied>>

\* The recording has a sample for this time; what it recorded flew straight.
Sample(a) ==
    /\ a \in Recorded
    /\ anchors[a].at < clock
    /\ anchors' = [anchors EXCEPT ![a] = Moved(@, clock)]
    /\ UNCHANGED <<clock, deviations, assessed, advice, answer, applied>>

\* An anchor the scenario scheduled for this time comes into force.
Deviate(a) ==
    /\ a \notin Recorded
    /\ deviations < MaxDeviations
    /\ anchors[a].at < clock
    /\ \E d \in Deviations :
           anchors' = [anchors EXCEPT ![a] = [CurrentState(a) EXCEPT !.hdg = d.hdg, !.vs = d.vs,
                                                                   !.emergency = d.emergency]]
    /\ deviations' = deviations + 1
    /\ UNCHANGED <<clock, assessed, advice, answer, applied>>

-----------------------------------------------------------------------------
(* PredictionRunService, ConflictAssessmentRunService and the evaluators *)

\* What the services make of a snapshot taken now.
Assessment(snapshot) ==
    LET events == Assess([a \in Aircraft |-> Aligned(snapshot[a], clock)])
    IN  [at         |-> clock,
         traffic    |-> snapshot,
         paths      |-> [a \in Aircraft |-> PredictedPath(snapshot[a], clock)],
         events     |-> events,
         risks      |-> [p \in DOMAIN events |-> RiskLevel(events[p])],
         priorities |-> [a \in Aircraft |-> PriorityPlace(Events, a, snapshot[a])]]

AssessTraffic ==
    /\ assessed' = Assessment(Snapshot)
    /\ UNCHANGED <<clock, anchors, deviations, advice, answer, applied>>

-----------------------------------------------------------------------------
(* The resolution orchestrator *)

\* The exception of the pair is active and its risk HIGH or CRITICAL.
Conflicting(pair) ==
    /\ assessed # None
    /\ assessed.risks[pair] \in {"HIGH", "CRITICAL"}

Advice(pair, traffic, candidates, results) ==
    [at |-> clock, pair |-> pair, traffic |-> traffic, candidates |-> candidates,
     results |-> results, ranked |-> Ranked(candidates, results),
     availability |-> Availability(Ranked(candidates, results))]

\* How the request ends.  A check that a record makes of what this very code
\* built is told apart from the checks of what the code was given.
Answer(pair, preferred, hint, traffic, candidates, results) ==
    LET sourced == GenerationAccepted(pair, assessed.events[pair], assessed.at, preferred,
                                      hint, [a \in {pair[1], pair[2]} |-> traffic[a]])
        consistent == /\ BatchAccepted(candidates, pair, assessed.at)
                      /\ \A r \in results : ResultAccepted(r)
                      /\ RankingAccepted(Ranked(candidates, results), results, clock)
    IN  IF ~(sourced /\ ValidationAccepted(candidates, pair, traffic)) THEN "REFUSED"
        ELSE IF consistent THEN "PUBLISHED" ELSE "INCONSISTENT"

\* generate, validate, recommend, publish; a check that fails publishes nothing,
\* and the request may be made again.  There is one advice per run.
Resolve(pair, preferred, hint) ==
    /\ advice = None
    /\ Conflicting(pair)
    /\ LET candidates == Generated(pair, preferred, hint, Snapshot)
           results == {Result(c, pair, Snapshot) : c \in candidates}
       IN  /\ answer' = Answer(pair, preferred, hint, Snapshot, candidates, results)
           /\ advice' = IF answer' = "PUBLISHED"
                        THEN Advice(pair, Snapshot, candidates, results) ELSE None
    /\ UNCHANGED <<clock, anchors, deviations, assessed, applied>>

-----------------------------------------------------------------------------
(* The application orchestrator *)

\* Faulty variant: on the state the recommendation was validated with.
ReplacedStale(c) == [Applied(advice.traffic[c.target], c.maneuver) EXCEPT !.at = clock]

Replaced(c) == Applied(CurrentState(c.target), c.maneuver)

\* The recommendation is put on the state of that time: an anchor with the
\* altitude reached and level flight, then the traffic is assessed again.
Apply(rank) ==
    /\ advice # None /\ applied = None
    /\ rank \in DOMAIN advice.ranked
    /\ clock <= advice.at + MaxDelay
    /\ LET c == advice.ranked[rank]
           after == Replaced(c)
       IN  /\ c.maneuver.kind = "ALTITUDE"
           /\ c.target \notin Recorded
           /\ anchors[c.target].at < clock
           /\ anchors' = [anchors EXCEPT ![c.target] = after]
           /\ assessed' = Assessment([Snapshot EXCEPT ![c.target] = after])
           /\ applied' = [at |-> clock, rank |-> rank, from |-> CurrentState(c.target),
                          traffic |-> [Snapshot EXCEPT ![c.target] = after]]
    /\ UNCHANGED <<clock, deviations, advice, answer>>

Next ==
    \/ Tick
    \/ \E a \in Aircraft : Sample(a) \/ Deviate(a)
    \/ AssessTraffic
    \/ \E pair \in Pairs(Aircraft) : \E preferred \in {pair[1], pair[2]}, hint \in Hints :
           Resolve(pair, preferred, hint)
    \/ \E rank \in 1..MaxRecommendations : Apply(rank)

Spec == Init /\ [][Next]_vars
-----------------------------------------------------------------------------
(* Properties *)

Assessments == [at : 0..MaxClock, traffic : [Aircraft -> States],
                paths : PredictionRuns(Aircraft), events : ConflictRuns(Aircraft),
                risks : [Pairs(Aircraft) -> {RiskLevels[i] : i \in 1..4}],
                priorities : [Aircraft -> 1..3]]

\* Every run of the evaluators is one that its records accept, and advice names
\* candidates of its own batch.
TypeOK ==
    /\ clock \in 0..MaxClock
    /\ anchors \in [Aircraft -> States]
    /\ \A a \in Aircraft : anchors[a].at <= clock
    /\ deviations \in 0..MaxDeviations
    /\ assessed \in Assessments \cup {None}
    /\ answer \in {"NONE", "PUBLISHED", "REFUSED", "INCONSISTENT"}
    /\ advice # None =>
           /\ advice.at \in 0..clock
           /\ advice.candidates \subseteq Candidates
           /\ {advice.ranked[i] : i \in DOMAIN advice.ranked} \subseteq advice.candidates
    /\ applied # None => advice # None /\ applied.at \in advice.at..clock

\* The aircraft has flown on as a snapshot saw it.
FlownOn(a, traffic) == Actual(a) = Moved(traffic[a], clock)

LevelPair(p, traffic) == traffic[p[1]].vs = traffic[p[2]].vs

SeparationAt(p, traffic, t) ==
    SeparationAfter(Moved(traffic[p[1]], t), Moved(traffic[p[2]], t), 0)

\* The closest approach an assessment reports lies inside the look-ahead, and at
\* no tick of the look-ahead is the pair closer: neither for parallel tracks nor
\* for diverging pairs nor for an approach beyond the look-ahead does the clamp
\* of ClosestApproachCalculator pick a time that hides a closer one.
ClosestIsClosest ==
    assessed # None =>
        \A p \in Pairs(Aircraft) :
            /\ assessed.events[p].tcpa \in 0..Horizon
            /\ \A ticks \in 0..Horizon :
                   SeparationAt(p, assessed.traffic, assessed.at + ticks).dist2
                       >= assessed.events[p].minimum.dist2

\* A pair that loses its separation no later than the look-ahead after an
\* assessment, with both aircraft flying on and with equal vertical speeds, was
\* reported: whatever the age of a held sample the snapshot contained.
NoSurpriseLoss ==
    assessed # None /\ clock <= assessed.at + Horizon =>
        \A p \in Pairs(Aircraft) :
            /\ FlownOn(p[1], assessed.traffic) /\ FlownOn(p[2], assessed.traffic)
            /\ LevelPair(p, assessed.traffic)
            /\ Lost(SeparationAfter(Actual(p[1]), Actual(p[2]), 0))
            => assessed.events[p].status = "PREDICTED"

\* The point predicted for a horizon is where the aircraft is when that horizon
\* comes, if it flew on: for a held sample the horizon starts at the snapshot.
PredictionsComeTrue ==
    assessed # None =>
        \A a \in Aircraft, h \in PredictionHorizons :
            clock = assessed.at + h /\ FlownOn(a, assessed.traffic)
            => LET p == assessed.paths[a][h]
               IN  p.x = Actual(a).x /\ p.y = Actual(a).y /\ p.alt = Actual(a).alt

\* Up to the closest approach it announced, a later assessment of a level pair
\* that flies on never rates it lower: rounding the time to the resolution of a
\* timestamp and clamping it do not make an approaching conflict look better.
RiskEscalates ==
    [][assessed # None /\ assessed' # assessed =>
           \A p \in Pairs(Aircraft) :
               /\ \A i \in 1..2 : Actual(p[i])' = Moved(assessed.traffic[p[i]], clock')
               /\ LevelPair(p, assessed.traffic)
               /\ clock' <= assessed.at + assessed.events[p].tcpa
               => RiskPlace(assessed'.events[p]) >= RiskPlace(assessed.events[p])]_vars

\* An aircraft keeps the priority a scenario event gave it: a later assessment
\* lowers it only when the aircraft's own emergency flag was withdrawn.
PriorityKept ==
    [][assessed # None /\ assessed' # assessed =>
           \A a \in Aircraft :
               assessed'.priorities[a] < assessed.priorities[a] =>
                   assessed.traffic[a].emergency /\ ~assessed'.traffic[a].emergency]_vars

\* What a recommendation promises, judged on the motion itself and not on closest
\* approaches: with it in force, no two aircraft of equal vertical speed lose
\* their separation at any tick of the look-ahead, the pair of the conflict and
\* every pair with the rest of the traffic alike.
AdviceSound ==
    advice # None =>
        \A i \in DOMAIN advice.ranked :
            LET traffic == Isolated(advice.ranked[i], advice.traffic)
            IN  \A p \in Pairs(Aircraft), ticks \in 0..Horizon :
                    LevelPair(p, traffic) =>
                        ~Lost(SeparationAfter(traffic[p[1]], traffic[p[2]], ticks))

\* No safe action that is left out, or ranked below, costs less than one ranked
\* above it, delays and path extensions breaking ties of the score.
AdviceCheapest ==
    advice # None =>
        \A c \in SafeActions(advice.candidates, advice.results) :
            \A i \in DOMAIN advice.ranked :
                LET d == advice.ranked[i]
                IN  \/ \E j \in 1..i : advice.ranked[j] = c
                    \/ d.cost.score < c.cost.score
                    \/ /\ d.cost.score = c.cost.score
                       /\ \/ d.cost.delay < c.cost.delay
                          \/ d.cost.delay = c.cost.delay /\ d.cost.path <= c.cost.path

\* The records accept the evidence the validator builds for them: no combination
\* of findings makes CandidateSafetyValidationResult, the batch or the set raise
\* half way through the run.
OwnEvidenceAccepted == answer # "INCONSISTENT"

\* A request for an active conflict is refused only for traffic whose states were
\* taken at different times: no single command that cannot be built, for a slow
\* or a low aircraft, costs the conflict its advice.
ConflictsAnswered ==
    [][answer' = "REFUSED" /\ answer # "REFUSED" => ~OneTimestamp(Snapshot)]_vars

\* Altitude advice stays good when it is put into force late, without being
\* validated again: if everyone else flies on and the target did until then, no
\* pair of equal vertical speed loses its separation until the look-ahead of the
\* validation has passed.
LateAdviceKeeps ==
    applied # None /\ clock <= advice.at + Horizon =>
        LET c == advice.ranked[applied.rank]
            validated == Isolated(c, advice.traffic)
        IN  /\ applied.from = Moved(advice.traffic[c.target], applied.at)
            /\ \A a \in Aircraft : FlownOn(a, applied.traffic)
            /\ \A a \in Aircraft \ {c.target} : FlownOn(a, advice.traffic)
            => \A p \in Pairs(Aircraft) :
                   LevelPair(p, validated) =>
                       ~Lost(SeparationAfter(Actual(p[1]), Actual(p[2]), 0))
=============================================================================
