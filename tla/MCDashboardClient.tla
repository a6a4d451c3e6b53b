------------------------- MODULE MCDashboardClient -------------------------
(***************************************************************************)
(* Small instances of DashboardClient: one tab with the cues of the Golden *)
(* Demo, and two tabs on one session.                                      *)
(***************************************************************************)
EXTENDS DashboardClient, TLC

CONSTANTS rec, safe, unsafe, raising

Cue(at, type, pause, decision) ==
    [at |-> at, type |-> type, pause |-> pause, decision |-> decision]

\* The cues up to the end of the decision; the later ones pause and nothing else.
DemoCues ==
    {Cue(0, "PLAYBACK_STARTED", FALSE, FALSE), Cue(70, "CONFLICT_DETECTED", TRUE, FALSE),
     Cue(75, "RECOMMENDATION_AVAILABLE", TRUE, TRUE),
     Cue(90, "POST_ACTION_REVALIDATION", TRUE, FALSE)}
DemoMoments == {0, 70, 75, 80, 90, 300}

AllManeuvers == {rec, safe, unsafe, raising}
OnlySafe == {rec, safe}
OnlyRaising == {raising}

TwoManeuvers == {rec, unsafe}
OnlyRecommended == {rec}

TabSymmetry == Permutations(Tabs)
=============================================================================
