---------------------------- MODULE MCTokenGrant ----------------------------
(* A small instance of TokenGrant for TLC. *)
EXTENDS TokenGrant, TLC

CONSTANTS r1, r2, r3, c1, c2

=============================================================================
