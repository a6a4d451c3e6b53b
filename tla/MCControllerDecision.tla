------------------------ MODULE MCControllerDecision ------------------------
(* Two sets that share a recommendation and one older set of another. *)
EXTENDS ControllerDecision, TLC

MCSets      == {"SET-1", "SET-2", "SET-3"}
MCHolds     == "SET-1" :> {"REC-A", "REC-B"} @@ "SET-2" :> {"REC-B", "REC-C"}
               @@ "SET-3" :> {"REC-D"}
MCGenerated == "SET-1" :> 1 @@ "SET-2" :> 2 @@ "SET-3" :> 2
MCProposed  == [r \in {"REC-A", "REC-B", "REC-C", "REC-D"} |->
                    IF r = "REC-A" THEN "climb" ELSE "hold"]
=============================================================================
