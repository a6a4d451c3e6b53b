--------------------------- MODULE MCHttpAdapters ---------------------------
(***************************************************************************)
(* Clients of the queue and of the decisions at once: an exception that    *)
(* opens and is cleared, and two sets that share a recommendation.         *)
(***************************************************************************)
EXTENDS HttpAdapters, TLC

Report(level, tcpa, score) == [level |-> level, tcpa |-> tcpa, score |-> score]

MCSubjects    == {"MIL-F01"}
MCIdOrder     == "MIL-F01" :> 1
MCAssessments == "MIL-F01" :> {Report("ROUTINE", 99, 0), Report("URGENT", 99, 5)}

MCSets      == {"SET-1", "SET-2"}
MCHolds     == "SET-1" :> {"REC-A", "REC-B"} @@ "SET-2" :> {"REC-B"}
MCGenerated == "SET-1" :> 0 @@ "SET-2" :> 1
MCProposed  == "REC-A" :> "climb" @@ "REC-B" :> "hold"

Submission(s, r, type, m, justified, t) ==
    [set |-> s, rec |-> r, type |-> type, maneuver |-> m, justified |-> justified, at |-> t]

\* Decisions that are in order on either set, at different times, and on the
\* recommendation that the sets share; a modification without a reason; a
\* rejection of a recommendation that its set does not hold.
MCSubmissions ==
    {Submission("SET-1", "REC-A", "ACCEPT", NoManeuver, FALSE, 2),
     Submission("SET-1", "REC-B", "REJECT", NoManeuver, TRUE, 0),
     Submission("SET-1", "REC-A", "MODIFY", "hold", FALSE, 2),
     Submission("SET-2", "REC-A", "REJECT", NoManeuver, TRUE, 2),
     Submission("SET-2", "REC-B", "MODIFY", "climb", TRUE, 1),
     Submission("SET-2", "REC-B", "ACCEPT", NoManeuver, FALSE, 2)}

\* Nothing wrong, and several things wrong at once.
MCFlawSets == {{}, {"query", "media type", "fields"}}
=============================================================================
