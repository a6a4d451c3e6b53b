--------------------------- MODULE DecisionAudit ---------------------------
(***************************************************************************)
(* The recommendation catalog and the controller decision audit log as     *)
(* values, with what InMemoryRecommendationCatalog.publish and             *)
(* DeterministicControllerDecisionService.decide compute.  A decision      *)
(* records what the controller chose; it moves no aircraft.                *)
(***************************************************************************)
EXTENDS Integers

CONSTANTS
    Sets,             \* recommendation sets, by id
    Recommendations,  \* recommendations, by id
    Holds,            \* per set, its recommendations
    Generated,        \* per set, when it was generated
    Maneuvers,        \* the maneuvers that can be proposed or asked for
    Proposed,         \* per recommendation, the maneuver of its candidate
    NoManeuver, NoSet

ASSUME HoldsAssumption == Holds \in [Sets -> SUBSET Recommendations]
ASSUME GeneratedAssumption == Generated \in [Sets -> Nat]
ASSUME ProposedAssumption == Proposed \in [Recommendations -> Maneuvers]
ASSUME NoManeuverAssumption == NoManeuver \notin Maneuvers /\ NoSet \notin Sets

DecisionTypes == {"ACCEPT", "MODIFY", "REJECT"}
NeverDecided == -1

Catalogs == [published : SUBSET Sets, current : Sets \cup {NoSet}]

\* Only a modification carries a maneuver of its own.
Entries == {e \in [set : Sets, rec : Recommendations, type : DecisionTypes,
                   maneuver : Maneuvers \cup {NoManeuver}, at : Nat, revision : Nat] :
                e.type = "MODIFY" <=> e.maneuver # NoManeuver}

\* The log lists its entries by time and then decision id, which begins with the
\* time and the revision: the set of entries determines the list.
Audits == [entries : SUBSET Entries, at : Nat \cup {NeverDecided}, revision : Nat]

-----------------------------------------------------------------------------
(* InMemoryRecommendationCatalog *)

EmptyCatalog == [published |-> {}, current |-> NoSet]

PublishAccepted(k, s) ==
    /\ s \notin k.published
    /\ k.current # NoSet => Generated[s] >= Generated[k.current]

Published(k, s) == [published |-> k.published \cup {s}, current |-> s]

-----------------------------------------------------------------------------
(* DeterministicControllerDecisionService.  Its dictionary of decided sets *)
(* holds the sets of the entries.                                          *)

EmptyAudit == [entries |-> {}, at |-> NeverDecided, revision |-> 0]

\* The checks in the constructor of an audit entry.
WellFormed(s, r, type, m, justified) ==
    /\ type # "ACCEPT" => justified
    /\ IF type = "MODIFY" THEN m \in Maneuvers \ {Proposed[r]} ELSE m = NoManeuver

\* Faulty variant: only the recommendation must be undecided, not its set.
DecideAcceptedPerRecommendation(a, s, r, type, m, justified, t) ==
    /\ t >= a.at
    /\ r \in Holds[s]
    /\ t >= Generated[s]
    /\ WellFormed(s, r, type, m, justified)
    /\ r \notin {e.rec : e \in a.entries}

\* Faulty variant: the decision time is not compared with the last log.
DecideAcceptedOutOfOrder(a, s, r, type, m, justified, t) ==
    /\ s \notin {e.set : e \in a.entries}
    /\ r \in Holds[s]
    /\ t >= Generated[s]
    /\ WellFormed(s, r, type, m, justified)
    /\ r \notin {e.rec : e \in a.entries}

\* The last conjunct is the log's own check on recommendation ids.
DecideAccepted(a, s, r, type, m, justified, t) ==
    /\ t >= a.at
    /\ s \notin {e.set : e \in a.entries}
    /\ r \in Holds[s]
    /\ t >= Generated[s]
    /\ WellFormed(s, r, type, m, justified)
    /\ r \notin {e.rec : e \in a.entries}

Decided(a, s, r, type, m, t) ==
    LET entry == [set |-> s, rec |-> r, type |-> type, maneuver |-> m,
                  at |-> t, revision |-> a.revision + 1]
    IN  [entries |-> a.entries \cup {entry}, at |-> t, revision |-> a.revision + 1]

ListedBefore(e, f) ==
    \/ e.at < f.at
    \/ e.at = f.at /\ e.revision < f.revision

\* The last entry of the list.
LatestEntry(a) ==
    CHOOSE e \in a.entries : \A f \in a.entries \ {e} : ListedBefore(f, e)
=============================================================================
