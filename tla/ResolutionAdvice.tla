-------------------------- MODULE ResolutionAdvice --------------------------
(***************************************************************************)
(* How a conflict becomes ranked advice, as values: the candidates the     *)
(* generator derives from its templates, the state a maneuver gives, what  *)
(* the isolated safety validation finds for each candidate, the checks the *)
(* records make of their own evidence, and the ranking of the candidates   *)
(* found safe.                                                             *)
(***************************************************************************)
EXTENDS TrafficMotion, Sequences

CONSTANTS
    Aircraft,          \* numbered in the order of their identifiers
    Performance,       \* per aircraft, its performance profile
    Templates,         \* the action slots of the generation profile
    BaselineId,        \* the identifier of the NO_ACTION candidate
    HeadingChange, AltitudeChange, SpeedChange, EntryDelay,
    CommandExecution,  \* the time a command may take, in ticks
    MinimumAltitude,
    MaxSpeedChange,
    MaxRecommendations,
    NoHint             \* no preferred altitude is given

PerformanceProfiles == [minSpeed : Nat, maxSpeed : Nat, climb : Nat, descent : Nat,
                        turnRate : Nat, ceiling : Nat]

Kinds == {"HEADING", "ALTITUDE", "SPEED", "ENTRY_DELAY", "SEQUENCE_CHANGE"}
Roles == {"PREFERRED", "OTHER"}

\* A cost is compared score first, then delay, then path extension.
Costs == [score : 0..100, delay : Nat, path : Nat]
ZeroCost == [score |-> 0, delay |-> 0, path |-> 0]

NobodyId == 0

ASSUME AircraftAssumption == IsFiniteSet(Aircraft) /\ Aircraft \subseteq Nat \ {NobodyId}
ASSUME PerformanceAssumption ==
    /\ Performance \in [Aircraft -> PerformanceProfiles]
    /\ \A a \in Aircraft : Performance[a].minSpeed <= Performance[a].maxSpeed
ASSUME TemplatesAssumption ==
    /\ IsFiniteSet(Templates)
    /\ Templates \subseteq [id : Nat, role : Roles, kind : Kinds, cost : Costs]
    /\ Templates # {}
    /\ \A p, q \in Templates :
           p.id = q.id \/ (p.role = q.role /\ p.kind = q.kind) => p = q
    /\ BaselineId \in Nat /\ \A p \in Templates : p.id # BaselineId
ASSUME GenerationProfileAssumption ==
    /\ {HeadingChange, AltitudeChange, SpeedChange, EntryDelay} \subseteq Nat \ {0}
    /\ HeadingChange < 180
ASSUME ValidationProfileAssumption ==
    /\ {CommandExecution, MaxSpeedChange} \subseteq Nat \ {0}
    /\ MinimumAltitude \in Nat
ASSUME RankingProfileAssumption == MaxRecommendations \in Nat \ {0}
ASSUME NoHintAssumption == NoHint \notin Nat

Maneuvers  == [kind : Kinds \cup {"NO_ACTION"}, value : Nat]
Candidates == [id : Nat, target : Aircraft \cup {NobodyId}, maneuver : Maneuvers,
               cost : Costs, from : Nat]

Smaller(m, n) == IF m <= n THEN m ELSE n
Larger(m, n)  == IF m >= n THEN m ELSE n
Gap(m, n)     == IF m >= n THEN m - n ELSE n - m

OneTimestamp(traffic) ==
    \A a, b \in DOMAIN traffic : traffic[a].at = traffic[b].at

-----------------------------------------------------------------------------
(* DeterministicResolutionCandidateGenerator *)

OtherOf(pair, a) == IF a = pair[1] THEN pair[2] ELSE pair[1]
TargetOf(template, pair, preferred) ==
    IF template.role = "PREFERRED" THEN preferred ELSE OtherOf(pair, preferred)

\* Faulty variant: the speed is reduced below what the aircraft can fly.
ReducedSpeedUnbounded(s, p) == Larger(0, s.gs - SpeedChange)

ReducedSpeed(s, p) == Larger(p.minSpeed, s.gs - SpeedChange)

\* The hint is for the preferred aircraft alone.
ManeuverValue(template, pair, preferred, hint, traffic) ==
    LET target == TargetOf(template, pair, preferred)
        s == traffic[target]
        p == Performance[target]
    IN  CASE template.kind = "HEADING" -> (s.hdg + HeadingChange) % 360
          [] template.kind = "ALTITUDE" /\ target = preferred /\ hint # NoHint -> hint
          [] template.kind = "ALTITUDE" /\ target = preferred /\ hint = NoHint ->
                 Smaller(s.alt + AltitudeChange, p.ceiling)
          [] template.kind = "ALTITUDE" /\ target # preferred ->
                 Larger(0, s.alt - AltitudeChange)
          [] template.kind = "SPEED" -> ReducedSpeed(s, p)
          [] template.kind = "ENTRY_DELAY" -> EntryDelay
          [] template.kind = "SEQUENCE_CHANGE" -> 1

\* A speed must be positive, an altitude must not be negative.
CanBeCommanded(kind, value) ==
    /\ kind = "SPEED" => value > 0
    /\ kind = "ALTITUDE" => value >= 0

Candidate(template, pair, preferred, hint, traffic) ==
    [id |-> template.id, target |-> TargetOf(template, pair, preferred),
     maneuver |-> [kind |-> template.kind,
                   value |-> ManeuverValue(template, pair, preferred, hint, traffic)],
     cost |-> template.cost, from |-> traffic[preferred].at]

Baseline(t) == [id |-> BaselineId, target |-> NobodyId,
                maneuver |-> [kind |-> "NO_ACTION", value |-> 0],
                cost |-> ZeroCost, from |-> t]

\* traffic holds the two aircraft of the pair, event is their assessment at the
\* time assessedAt.  One command that cannot be built refuses the whole batch.
GenerationAccepted(pair, event, assessedAt, preferred, hint, traffic) ==
    /\ RiskLevel(event) # "LOW"
    /\ DOMAIN traffic = {pair[1], pair[2]}
    /\ OneTimestamp(traffic)
    /\ preferred \in {pair[1], pair[2]}
    /\ assessedAt <= traffic[preferred].at
    /\ hint = NoHint \/ hint <= Performance[preferred].ceiling
    /\ \A template \in Templates :
           CanBeCommanded(template.kind,
                          ManeuverValue(template, pair, preferred, hint, traffic))

Generated(pair, preferred, hint, traffic) ==
    {Candidate(t, pair, preferred, hint, traffic) : t \in Templates}
        \cup {Baseline(traffic[preferred].at)}

\* What ResolutionCandidateBatch requires of its candidates.
BatchAccepted(candidates, pair, t) ==
    /\ candidates # {}
    /\ \A c, d \in candidates : c.id = d.id => c = d
    /\ Cardinality({c \in candidates : c.maneuver.kind = "NO_ACTION"}) = 1
    /\ \A c \in candidates :
           /\ c.target \in {pair[1], pair[2], NobodyId}
           /\ c.maneuver.kind = "NO_ACTION" <=> c.target = NobodyId
           /\ c.maneuver.kind = "NO_ACTION" => c.cost = ZeroCost
           /\ c.from >= t

-----------------------------------------------------------------------------
(* IsolatedResolutionSafetyValidator *)

\* The command is obeyed at once; an entry delay moves the aircraft back.
Applied(s, m) ==
    CASE m.kind = "HEADING" -> [s EXCEPT !.hdg = m.value]
      [] m.kind = "ALTITUDE" -> [s EXCEPT !.alt = m.value, !.vs = 0]
      [] m.kind = "SPEED" -> [s EXCEPT !.gs = m.value]
      [] m.kind = "ENTRY_DELAY" -> Shifted(s, -m.value)
      [] m.kind \in {"SEQUENCE_CHANGE", "NO_ACTION"} -> s

Isolated(c, traffic) ==
    IF c.target = NobodyId THEN traffic
    ELSE [traffic EXCEPT ![c.target] = Applied(@, c.maneuver)]

Feasible(c, traffic) ==
    \/ c.target = NobodyId
    \/ LET s == traffic[c.target]
           p == Performance[c.target]
           v == c.maneuver.value
           turn == Gap(v, s.hdg)
       IN  /\ c.maneuver.kind = "HEADING" =>
                  Smaller(turn, 360 - turn) <= p.turnRate * CommandExecution
           /\ c.maneuver.kind = "ALTITUDE" =>
                  /\ v <= p.ceiling
                  /\ Gap(v, s.alt) <=
                         (IF v >= s.alt THEN p.climb ELSE p.descent) * CommandExecution
           /\ c.maneuver.kind = "SPEED" =>
                  /\ v \in p.minSpeed..p.maxSpeed
                  /\ Gap(v, s.gs) <= MaxSpeedChange

BreaksMinimumAltitude(c) ==
    c.maneuver.kind = "ALTITUDE" /\ c.maneuver.value < MinimumAltitude

\* Faulty variant: only the pair of the conflict is looked at.
EvidenceOfPair(c, pair, traffic) ==
    [primary   |-> Assess(Isolated(c, traffic))[pair],
     secondary |-> {},
     feasible  |-> Feasible(c, traffic),
     violation |-> BreaksMinimumAltitude(c),
     baseline  |-> c.maneuver.kind = "NO_ACTION"]

\* What validating one candidate finds in a copy of the traffic.
Evidence(c, pair, traffic) ==
    LET events == Assess(Isolated(c, traffic))
    IN  [primary   |-> events[pair],
         secondary |-> {p \in DOMAIN events \ {pair} : events[p].status = "PREDICTED"},
         feasible  |-> Feasible(c, traffic),
         violation |-> BreaksMinimumAltitude(c),
         baseline  |-> c.maneuver.kind = "NO_ACTION"]

Reasons(e) ==
    {IF e.primary.status = "SAFE" THEN "PRIMARY_CONFLICT_RESOLVED" ELSE "PRIMARY_CONFLICT_REMAINS"}
    \cup (IF e.secondary # {} THEN {"SECONDARY_CONFLICT_DETECTED"} ELSE {})
    \cup (IF ~e.feasible THEN {"PERFORMANCE_ENVELOPE_EXCEEDED"} ELSE {})
    \cup (IF e.violation THEN {"RULE_VIOLATION"} ELSE {})
    \cup (IF e.baseline THEN {"NO_ACTION_BASELINE"} ELSE {})

Fails(e) == e.secondary # {} \/ ~e.feasible \/ e.violation

\* Faulty variant: the baseline is judged as any other candidate.
VerdictWithoutBaseline(e) ==
    CASE Fails(e) -> "UNSAFE"
      [] ~Fails(e) /\ e.primary.status = "SAFE" -> "SAFE"
      [] OTHER -> "INEFFECTIVE"

Verdict(e) ==
    CASE Fails(e) -> "UNSAFE"
      [] ~Fails(e) /\ e.primary.status = "SAFE" -> "SAFE"
      [] ~Fails(e) /\ e.primary.status # "SAFE" /\ e.baseline -> "UNSAFE"
      [] OTHER -> "INEFFECTIVE"

Result(c, pair, traffic) ==
    LET e == Evidence(c, pair, traffic)
    IN  [candidate |-> c.id, evidence |-> e, reasons |-> Reasons(e), verdict |-> Verdict(e)]

\* What CandidateSafetyValidationResult requires: reasons and evidence agree in
\* both directions, and the verdict follows from them.
ResultAccepted(r) ==
    LET resolved == r.evidence.primary.status = "SAFE"
        baseline == "NO_ACTION_BASELINE" \in r.reasons
    IN  /\ "PRIMARY_CONFLICT_RESOLVED" \in r.reasons <=> resolved
        /\ "PRIMARY_CONFLICT_REMAINS" \in r.reasons <=> ~resolved
        /\ "SECONDARY_CONFLICT_DETECTED" \in r.reasons <=> r.evidence.secondary # {}
        /\ "PERFORMANCE_ENVELOPE_EXCEEDED" \in r.reasons <=> ~r.evidence.feasible
        /\ "RULE_VIOLATION" \in r.reasons <=> r.evidence.violation
        /\ r.verdict = "SAFE" => resolved /\ ~Fails(r.evidence)
        /\ r.verdict = "INEFFECTIVE" => ~resolved /\ ~Fails(r.evidence) /\ ~baseline
        /\ r.verdict = "UNSAFE" => Fails(r.evidence) \/ (~resolved /\ baseline)

ValidationAccepted(candidates, pair, traffic) ==
    /\ Cardinality(DOMAIN traffic) >= 2
    /\ {pair[1], pair[2]} \subseteq DOMAIN traffic
    /\ OneTimestamp(traffic)
    /\ \A c \in candidates : c.from = traffic[pair[1]].at

-----------------------------------------------------------------------------
(* DeterministicRecommendationRankingService *)

\* Faulty variant: ranked by identifier, whatever the cost.
CheaperById(c, d) == c.id < d.id

Cheaper(c, d) ==
    \/ c.cost.score < d.cost.score
    \/ /\ c.cost.score = d.cost.score
       /\ \/ c.cost.delay < d.cost.delay
          \/ /\ c.cost.delay = d.cost.delay
             /\ \/ c.cost.path < d.cost.path
                \/ c.cost.path = d.cost.path /\ c.id < d.id

SafeActions(candidates, results) ==
    {c \in candidates : /\ c.maneuver.kind # "NO_ACTION"
                        /\ \E r \in results : r.candidate = c.id /\ r.verdict = "SAFE"}

\* The cheapest candidates found safe; the place in the sequence is the rank.
Ranked(candidates, results) ==
    LET safe == SafeActions(candidates, results)
    IN  [rank \in 1..Smaller(Cardinality(safe), MaxRecommendations) |->
            CHOOSE c \in safe : Cardinality({d \in safe : Cheaper(d, c)}) = rank - 1]

Availability(ranked) == IF ranked = <<>> THEN "NO_SAFE_CANDIDATE" ELSE "AVAILABLE"

\* What ResolutionRecommendation and ResolutionRecommendationSet require.
RankingAccepted(ranked, results, t) ==
    /\ \A i \in DOMAIN ranked :
           /\ ranked[i].maneuver.kind # "NO_ACTION"
           /\ ranked[i].from <= t
           /\ \E r \in results : r.candidate = ranked[i].id /\ r.verdict = "SAFE"
    /\ \A i, j \in DOMAIN ranked : ranked[i].id = ranked[j].id => i = j
=============================================================================
