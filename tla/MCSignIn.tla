-------------------------------- MODULE MCSignIn --------------------------------
(* Small instances of SignIn for TLC. *)
EXTENDS SignIn, TLC

CONSTANTS a1, a2, p1, p2, h1, h2, u1, u2, u3, q1

MCSymmetry ==
    Permutations({a1, a2}) \cup Permutations({p1, p2}) \cup Permutations({h1, h2}) \cup
    Permutations({u1, u2})

=============================================================================
