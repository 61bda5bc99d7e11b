-------------------------------- MODULE MCMirror --------------------------------
(* An instance of Mirror: an issue that is done at its second revision and reopened *)
(* under another title at its third. *)
EXTENDS Mirror, TLC

CONSTANTS d1, d2, t1, t2

MCTitleAt == [k \in Key |-> [r \in Rev |-> IF r = 3 THEN t2 ELSE t1]]
MCClosedAt == [k \in Key |-> {2} \cap Rev]

\* The last full minute, of two seconds: never rounded up, and coarser than the stored cursor.
Minute(t) == t - (t % 2)

MCSymmetry == Permutations(Daemon)
=============================================================================
