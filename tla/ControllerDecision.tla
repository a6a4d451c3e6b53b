------------------------- MODULE ControllerDecision -------------------------
(***************************************************************************)
(* The catalog and the decision service behind InProcessControllerDecision-*)
(* Api: sets are published by the resolution step, decided by controllers  *)
(* with a time of the client's choosing, and forgotten together when the   *)
(* step orchestrator notices a new simulation run.  A call that raises     *)
(* changes nothing and has no action.                                      *)
(***************************************************************************)
EXTENDS DecisionAudit

CONSTANT MaxTime    \* bound on decision times

ASSUME MaxTimeAssumption == MaxTime \in Nat

VARIABLES catalog, audit

vars == <<catalog, audit>>

TypeOK == catalog \in Catalogs /\ audit \in Audits

Init == catalog = EmptyCatalog /\ audit = EmptyAudit

Publish(s) ==
    /\ PublishAccepted(catalog, s)
    /\ catalog' = Published(catalog, s)
    /\ UNCHANGED audit

Submit(s, r, type, m, justified, t) ==
    /\ s \in catalog.published
    /\ DecideAccepted(audit, s, r, type, m, justified, t)
    /\ audit' = Decided(audit, s, r, type, m, t)
    /\ UNCHANGED catalog

Reset ==
    /\ catalog' = EmptyCatalog
    /\ audit' = EmptyAudit

Next ==
    \/ \E s \in Sets : Publish(s)
    \/ \E s \in Sets, r \in Recommendations, type \in DecisionTypes,
          m \in Maneuvers \cup {NoManeuver}, justified \in BOOLEAN, t \in 0 .. MaxTime :
          Submit(s, r, type, m, justified, t)
    \/ Reset

Spec == Init /\ [][Next]_vars

-----------------------------------------------------------------------------
\* The current recommendation is the newest one: publishing never brings back
\* an older assessment of the traffic.
CurrentIsNewest ==
    \A s \in catalog.published : Generated[catalog.current] >= Generated[s]

\* A recommendation set gets one final decision, also when its recommendations
\* are decided by different clients or shared with another set.
OneFinalDecision ==
    \A e, f \in audit.entries :
        e.set = f.set \/ e.rec = f.rec => e = f

\* Nobody decides on a recommendation that had not been published, nor before
\* it was generated.
DecidedAfterPublication ==
    \A e \in audit.entries :
        /\ e.set \in catalog.published
        /\ e.rec \in Holds[e.set]
        /\ Generated[e.set] <= e.at

\* The audit log only grows: between resets a step keeps every entry, and each
\* revision added exactly one.
AuditAppendOnly ==
    [][audit' # EmptyAudit =>
        /\ audit.entries \subseteq audit'.entries
        /\ {e.revision : e \in audit'.entries} = 1 .. audit'.revision]_vars

\* The entry the decision orchestrator takes for its own, the last of the log,
\* is the one just recorded, although the log sorts its entries.
LatestEntryIsNewest ==
    audit.entries # {} =>
        /\ LatestEntry(audit).revision = audit.revision
        /\ LatestEntry(audit).at = audit.at
=============================================================================
