-------------------------- MODULE PlaybackPlayer --------------------------
(***************************************************************************)
(* The playback of one browser tab: where the frame shown stands, whether  *)
(* it is animated, and the auto-pause cues it has already stopped at.  The *)
(* tab plays a manifest fetched once; the session it shows beside it is    *)
(* the server's.  Playback speed only decides how far a frame gets, which  *)
(* is any distance here.                                                   *)
(***************************************************************************)
EXTENDS Integers, FiniteSets

CONSTANTS
    Cues,      \* the cues of the contract, as records
    Duration,  \* of the playback, in seconds
    Moments    \* the offsets that frames and the scrubber land on

ASSUME ContractAssumption ==
    /\ Duration \in Nat \ {0}
    /\ Moments \subseteq 0..Duration /\ {0, Duration} \subseteq Moments
    /\ Cues \subseteq [at : Moments, type : STRING, pause : BOOLEAN, decision : BOOLEAN]
    /\ \A c, d \in Cues : c.at = d.at => c = d
    /\ \A c \in Cues : c.pause => c.at > 0
    /\ \A c \in Cues : c.decision => c.pause

\* autoStart remembers that START was given before the manifest came.
InitialPlayer == [manifest |-> "LOADING", playing |-> FALSE, at |-> 0,
                  consumed |-> {}, autoStart |-> FALSE]

\* The cues a playback that stands at an offset has behind it.
Behind(at) == {c \in Cues : c.at <= at}
PausesBehind(at) == {c.at : c \in {d \in Behind(at) : d.pause}}

\* The latest cue behind the frame is the decision the session waits for.
DecisionBlocks(p, stage) ==
    /\ p.manifest = "LOADED"
    /\ stage = "RECOMMENDATION_AVAILABLE"
    /\ \E c \in Behind(p.at) :
          /\ \A d \in Behind(p.at) : d.at <= c.at
          /\ c.decision /\ c.type = stage

Sought(p, at) ==
    IF p.manifest # "LOADED" THEN p
    ELSE [p EXCEPT !.playing = FALSE, !.at = at, !.consumed = PausesBehind(at)]

Stopped(p) == [p EXCEPT !.playing = FALSE]
Started(p) == IF p.manifest = "LOADED" THEN [p EXCEPT !.playing = TRUE] ELSE p

\* The pauses that a frame which has got to an offset has reached or passed.
DuePauses(p, to) ==
    {c \in Cues : c.pause /\ c.at \notin p.consumed /\ p.at < c.at /\ c.at <= to}

\* Faulty variant: a frame that has passed two cues stops at the later one.
LatestPause(p, to) ==
    CHOOSE c \in DuePauses(p, to) : \A d \in DuePauses(p, to) : d.at <= c.at

EarliestPause(p, to) ==
    CHOOSE c \in DuePauses(p, to) : \A d \in DuePauses(p, to) : c.at <= d.at

\* A frame never shows what lies beyond a pause: it stops at the cue first.
PausedAt(p, c) ==
    [p EXCEPT !.playing = FALSE, !.at = c.at, !.consumed = @ \cup {c.at}]

Advanced(p, to) == [p EXCEPT !.at = to, !.playing = to < Duration]

\* Faulty variant: only a session that has got ahead of the frame moves it.
SynchronizedIfBehind(p, stage, elapsed, prior) ==
    IF p.at < elapsed \/ stage = "READY" THEN Sought(p, elapsed) ELSE p

\* What a session that arrives does to the playback, prior being the stage
\* shown before it, or "NONE".
Synchronized(p, stage, elapsed, prior) ==
    IF p.manifest # "LOADED" THEN p
    ELSE IF stage = "READY" THEN Sought([p EXCEPT !.autoStart = FALSE], 0)
    ELSE IF prior # stage \/ p.at < elapsed THEN Sought(p, elapsed)
    ELSE p
=============================================================================
