---------------------- MODULE ControllerDecisionProofs ----------------------
(***************************************************************************)
(* For any sets, recommendations, maneuvers and decision times: a set and  *)
(* a recommendation get one final decision, made on what was published,    *)
(* and the last entry of the audit log is the newest.                      *)
(***************************************************************************)
EXTENDS ControllerDecision, SharedValueProofs

\* The catalog has a current set exactly if anything was published.
CurrentIsPublished ==
    IF catalog.published = {} THEN catalog.current = NoSet
    ELSE catalog.current \in catalog.published

\* Revisions are given out one by one.
RevisionsUsed == {e.revision : e \in audit.entries} = 1 .. audit.revision

\* The inductive invariant.
IInv ==
    /\ TypeOK
    /\ CurrentIsPublished /\ CurrentIsNewest
    /\ Listed(audit) /\ RevisionsUsed
    /\ OneFinalDecision /\ DecidedAfterPublication

\* A forgotten catalog and log satisfy the invariant.
LEMMA EmptyIInv == catalog = EmptyCatalog /\ audit = EmptyAudit => IInv
  BY DEF EmptyCatalog, EmptyAudit, IInv, TypeOK, Catalogs, Audits, CurrentIsPublished,
         CurrentIsNewest, Listed, RevisionsUsed, OneFinalDecision, DecidedAfterPublication

\* Publishing preserves it: the new set is no older than the current one, which
\* is no older than the others.
LEMMA PublishIInv ==
    ASSUME IInv, NEW s \in Sets, Publish(s)
    PROVE  IInv'
  <1>1. /\ catalog' = [published |-> catalog.published \cup {s}, current |-> s]
        /\ audit' = audit
    BY DEF Publish, Published
  <1>2. TypeOK'
    BY <1>1 DEF IInv, TypeOK, Catalogs
  <1>3. CurrentIsPublished'
    BY <1>1 DEF CurrentIsPublished
  <1>4. CurrentIsNewest'
    <2>1. ASSUME NEW u \in catalog.published PROVE Generated[s] >= Generated[u]
      <3>1. catalog.current \in catalog.published /\ catalog.published \subseteq Sets
        BY DEF IInv, CurrentIsPublished, TypeOK, Catalogs
      <3>2. Generated[s] >= Generated[catalog.current]
        BY <3>1, NoManeuverAssumption DEF Publish, PublishAccepted
      <3>3. Generated[catalog.current] >= Generated[u]
        BY DEF IInv, CurrentIsNewest
      <3>. QED
        BY <3>1, <3>2, <3>3, GeneratedAssumption
    <2>2. Generated[s] >= Generated[s]
      BY GeneratedAssumption
    <2>. QED
      BY <1>1, <2>1, <2>2 DEF CurrentIsNewest
  <1>5. OneFinalDecision' /\ RevisionsUsed' /\ Listed(audit)'
    BY <1>1 DEF IInv, OneFinalDecision, RevisionsUsed
  <1>6. DecidedAfterPublication'
    BY <1>1 DEF IInv, DecidedAfterPublication
  <1>. QED
    BY <1>2, <1>3, <1>4, <1>5, <1>6 DEF IInv

\* A decision preserves it: it adds one entry on a set and a recommendation that
\* had none, with the next revision.
LEMMA SubmitIInv ==
    ASSUME IInv, NEW s \in Sets, NEW r \in Recommendations, NEW type \in DecisionTypes,
           NEW m \in Maneuvers \cup {NoManeuver}, NEW justified \in BOOLEAN,
           NEW t \in 0 .. MaxTime, Submit(s, r, type, m, justified, t)
    PROVE  IInv' /\ audit.entries \subseteq audit'.entries
  <1>. DEFINE e == Entry(audit, s, r, type, m, t)
  <1>1. /\ s \in catalog.published /\ catalog' = catalog
        /\ DecideAccepted(audit, s, r, type, m, justified, t)
        /\ audit' = Decided(audit, s, r, type, m, t)
    BY DEF Submit
  <1>2. t \in Nat /\ audit \in Audits /\ Listed(audit) /\ audit.revision \in Nat
    BY MaxTimeAssumption DEF IInv, TypeOK, Audits
  <1>3. /\ audit' \in Audits /\ Listed(audit')
        /\ audit'.entries = audit.entries \cup {e}
        /\ audit'.revision = audit.revision + 1
    BY <1>1, <1>2, DecidedFacts
  <1>4. /\ e.set = s /\ e.rec = r /\ e.at = t /\ e.revision = audit.revision + 1
        /\ r \in Holds[s] /\ t >= Generated[s]
        /\ \A f \in audit.entries : f.set # s /\ f.rec # r
    BY <1>1 DEF Entry, DecideAccepted
  <1>5. TypeOK'
    BY <1>1, <1>3 DEF IInv, TypeOK
  <1>6. CurrentIsPublished' /\ CurrentIsNewest'
    BY <1>1 DEF IInv, CurrentIsPublished, CurrentIsNewest
  <1>7. RevisionsUsed'
    <2>1. {f.revision : f \in audit'.entries} = {f.revision : f \in audit.entries} \cup {e.revision}
      BY <1>3
    <2>2. 1 .. (audit.revision + 1) = (1 .. audit.revision) \cup {audit.revision + 1}
      BY <1>2
    <2>. QED
      BY <1>3, <1>4, <2>1, <2>2 DEF IInv, RevisionsUsed
  <1>8. OneFinalDecision'
    BY <1>3, <1>4 DEF IInv, OneFinalDecision
  <1>9. DecidedAfterPublication'
    <2>1. e.set \in catalog'.published /\ e.rec \in Holds[e.set] /\ Generated[e.set] <= e.at
      BY <1>1, <1>2, <1>4, GeneratedAssumption
    <2>2. \A f \in audit.entries :
             f.set \in catalog'.published /\ f.rec \in Holds[f.set] /\ Generated[f.set] <= f.at
      BY <1>1 DEF IInv, DecidedAfterPublication
    <2>. QED
      BY <1>3, <2>1, <2>2 DEF DecidedAfterPublication
  <1>. QED
    BY <1>3, <1>5, <1>6, <1>7, <1>8, <1>9 DEF IInv

\* Every reachable catalog and audit log satisfy the invariant.
THEOREM DecisionInvariant == Spec => []IInv
  <1>1. Init => IInv
    BY EmptyIInv DEF Init
  <1>2. IInv /\ [Next]_vars => IInv'
    <2>. SUFFICES ASSUME IInv, [Next]_vars PROVE IInv'
      OBVIOUS
    <2>1. ASSUME NEW s \in Sets, Publish(s) PROVE IInv'
      BY <2>1, PublishIInv
    <2>2. ASSUME NEW s \in Sets, NEW r \in Recommendations, NEW type \in DecisionTypes,
                 NEW m \in Maneuvers \cup {NoManeuver}, NEW justified \in BOOLEAN,
                 NEW t \in 0 .. MaxTime, Submit(s, r, type, m, justified, t)
          PROVE  IInv'
      BY <2>2, SubmitIInv
    <2>3. CASE Reset
      <3>1. catalog' = EmptyCatalog /\ audit' = EmptyAudit
        BY <2>3 DEF Reset
      <3>. QED
        BY <3>1 DEF EmptyCatalog, EmptyAudit, IInv, TypeOK, Catalogs, Audits,
               CurrentIsPublished, CurrentIsNewest, Listed, RevisionsUsed,
               OneFinalDecision, DecidedAfterPublication
    <2>4. CASE UNCHANGED vars
      BY <2>4 DEF vars, IInv, TypeOK, CurrentIsPublished, CurrentIsNewest, RevisionsUsed,
                  OneFinalDecision, DecidedAfterPublication
    <2>. QED
      BY <2>1, <2>2, <2>3, <2>4 DEF Next
  <1>. QED
    BY <1>1, <1>2, PTL DEF Spec

\* The catalog and the log are always well-typed.
THEOREM DecisionTypeOK == Spec => []TypeOK
  BY DecisionInvariant, PTL DEF IInv

\* The current recommendation set is the newest of those published.
THEOREM DecisionCurrentIsNewest == Spec => []CurrentIsNewest
  BY DecisionInvariant, PTL DEF IInv

\* A recommendation set is decided once, whoever decides and when.
THEOREM DecisionOneFinal == Spec => []OneFinalDecision
  BY DecisionInvariant, PTL DEF IInv

\* Decisions are on published recommendations and no older than those.
THEOREM DecisionAfterPublication == Spec => []DecidedAfterPublication
  BY DecisionInvariant, PTL DEF IInv

\* The last entry of the sorted log is the one recorded last.
THEOREM DecisionLatestIsNewest == Spec => []LatestEntryIsNewest
  <1>1. IInv => LatestEntryIsNewest
    BY LatestOfListed DEF IInv, TypeOK, LatestEntryIsNewest
  <1>. QED
    BY <1>1, DecisionInvariant, PTL

\* No step but a reset removes an entry from the log.
THEOREM DecisionAuditAppendOnly == Spec => AuditAppendOnly
  <1>. DEFINE Grown == audit' # EmptyAudit =>
                /\ audit.entries \subseteq audit'.entries
                /\ {e.revision : e \in audit'.entries} = 1 .. audit'.revision
  <1>1. ASSUME IInv, [Next]_vars, IInv' PROVE Grown
    <2>. USE <1>1
    <2>1. {e.revision : e \in audit'.entries} = 1 .. audit'.revision
      BY DEF IInv, RevisionsUsed
    <2>2. ASSUME NEW s \in Sets, Publish(s) PROVE audit.entries \subseteq audit'.entries
      BY <2>2 DEF Publish
    <2>3. ASSUME NEW s \in Sets, NEW r \in Recommendations, NEW type \in DecisionTypes,
                 NEW m \in Maneuvers \cup {NoManeuver}, NEW justified \in BOOLEAN,
                 NEW t \in 0 .. MaxTime, Submit(s, r, type, m, justified, t)
          PROVE  audit.entries \subseteq audit'.entries
      BY <2>3, SubmitIInv
    <2>4. CASE Reset
      BY <2>4 DEF Reset
    <2>5. CASE UNCHANGED vars
      BY <2>1, <2>5 DEF vars
    <2>. QED
      BY <2>1, <2>2, <2>3, <2>4, <2>5 DEF Next
  <1>2. IInv /\ [Next]_vars /\ IInv' => [Grown]_vars
    BY <1>1
  <1>. QED
    BY DecisionInvariant, <1>2, PTL DEF Spec, AuditAppendOnly
=============================================================================
