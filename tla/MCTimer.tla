-------------------------------- MODULE MCTimer --------------------------------
(* Instances of Timer for TLC: two task names, one tray goroutine beside the  *)
(* window and the poller, two sessions.                                       *)
EXTENDS Timer, TLC

CONSTANTS n1, n2, t1

\* No name is told from another, and Init has none of them.
MCSymmetry == Permutations({n1, n2})

=============================================================================
