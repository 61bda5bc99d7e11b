----------------------------- MODULE MCConfigFiles -----------------------------
(* An instance of ConfigFiles for TLC: one backend, two names for its token. *)
EXTENDS ConfigFiles

CONSTANTS c1, u1, v1, v2, n1, n2
=============================================================================
