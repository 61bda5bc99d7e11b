------------------------------- MODULE MCEngine -------------------------------
(***************************************************************************)
(* Small instances of Engine for TLC.  The instance is chosen by the       *)
(* constants of the cfg: Names maps to issues by position, and each issue  *)
(* belongs to the provider of the same position.                           *)
(***************************************************************************)
EXTENDS Engine, TLC

CONSTANTS n1, n2, k1, k2, p1, p2, d1, d2

MCRow == 1..2
DaemonSymmetry == Permutations({d1, d2})

\* One provider and one issue with two sessions, or two of each.
OneKeyOf == n1 :> k1
OneProviderOf == k1 :> p1
OneConfig == <<p1>>

TwoKeyOf == (n1 :> k1) @@ (n2 :> k2)
TwoProviderOf == (k1 :> p1) @@ (k2 :> p2)
SharedProviderOf == (k1 :> p1) @@ (k2 :> p1)
TwoConfig == <<p1, p2>>

=============================================================================
