------------------------------- MODULE Stopwatch -------------------------------
(***************************************************************************)
(* What a timer promises of the time it is asked to keep, without its      *)
(* window, tray menu and table: a session that was begun is timed until it *)
(* is stored or given up, once, and that is the end of it.  Of sessions     *)
(* that two hands reach for at the same time nothing is promised.          *)
(***************************************************************************)

CONSTANT Session

VARIABLE phase   \* of each session

Phase == {"new", "timed", "stored", "givenUp", "contested"}

Init == phase = [s \in Session |-> "new"]

Begin(s) ==
    /\ phase[s] = "new"
    /\ phase' = [phase EXCEPT ![s] = "timed"]

Store(s) ==
    /\ phase[s] = "timed"
    /\ phase' = [phase EXCEPT ![s] = "stored"]

GiveUp(s) ==
    /\ phase[s] = "timed"
    /\ phase' = [phase EXCEPT ![s] = "givenUp"]

\* Two hands at work: what either may be timing, or is about to time.
Contest(S) ==
    /\ \A s \in S : phase[s] \in {"new", "timed"}
    /\ phase' = [s \in Session |-> IF s \in S THEN "contested" ELSE phase[s]]

Next ==
    \/ \E s \in Session : Begin(s) \/ Store(s) \/ GiveUp(s)
    \/ \E S \in SUBSET Session : Contest(S)

Spec == Init /\ [][Next]_phase

=============================================================================
