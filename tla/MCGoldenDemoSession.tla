------------------------ MODULE MCGoldenDemoSession ------------------------
(***************************************************************************)
(* The Golden Demo's own numbers.  The maneuvers stand for 9000 ft (the    *)
(* recommendation), 8800 ft, 8300 ft, 7200 ft, 8100 ft and an entry delay  *)
(* too large for a timestamp, with the verdicts and risks the code         *)
(* computes for them.  The second subject is the operational priority of   *)
(* MIL-F01, the aircraft the maneuvers are for.                            *)
(***************************************************************************)
EXTENDS GoldenDemoSession, TLC

MCPair   == "CIV-A02/MIL-F01"
MCSolo   == "MIL-F01"
MCIdOrder == MCPair :> 1 @@ MCSolo :> 2

Level(l) == [level |-> l, tcpa |-> 0, score |-> 0]
Both(risk, priority) == MCPair :> Level(risk) @@ MCSolo :> Level(priority)

MCAssessments == MCPair :> {Level(l) : l \in RiskLevels}
                 @@ MCSolo :> {Level(l) : l \in PriorityLevels}

MCForecast == 0 :> Both("LOW", "ROUTINE")
              @@ [t \in {70, 75, 90} |-> Both("HIGH", "ATTENTION")]

MCManeuvers == {"9000 ft", "8800 ft", "8300 ft", "7200 ft", "8100 ft", "delay"}
MCOutcome == [m \in MCManeuvers |->
    Both(CASE m \in {"9000 ft", "8800 ft"} -> "LOW"
           [] m = "8300 ft" -> "MEDIUM"
           [] OTHER -> "HIGH", "ATTENTION")]
MCVerdict == [m \in MCManeuvers |->
    CASE m = "7200 ft" -> "UNSAFE"
      [] m = "8100 ft" -> "INEFFECTIVE"
      [] m = "delay"   -> "RAISES"
      [] OTHER         -> "SAFE"]

MCAircraft  == {"MIL-F01"}
MCScheduled == "MIL-F01" :> {60}
MCEvents    == <<60, 240>>
MCSets      == {"REC-T75"}
MCHolds     == "REC-T75" :> {"CAND-A"}
MCGenerated == "REC-T75" :> 75
MCProposed  == "CAND-A" :> "9000 ft"
=============================================================================
