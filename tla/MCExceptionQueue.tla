-------------------------- MODULE MCExceptionQueue --------------------------
(* One conflict pair and one aircraft, with levels that interleave in rank. *)
EXTENDS ExceptionQueue, TLC

Pair == "CIV-A02/MIL-F01"
Solo == "MIL-F01"

Report(level, tcpa, score) == [level |-> level, tcpa |-> tcpa, score |-> score]

MCSubjects == {Pair, Solo}
MCIdOrder  == Pair :> 1 @@ Solo :> 2
MCAssessments ==
    Pair :> {Report("LOW", 9, 0), Report("MEDIUM", 6, 4), Report("HIGH", 5, 6)}
    @@ Solo :> {Report("ROUTINE", 99, 0), Report("ATTENTION", 99, 5)}
=============================================================================
