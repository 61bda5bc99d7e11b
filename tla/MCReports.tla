------------------------------- MODULE MCReports -------------------------------
(* An instance of Reports: days of four hours; Isle moves its clocks at midnight, *)
(* Coast at another hour, and City never.                                                *)
EXTENDS Reports, TLC

CONSTANTS Isle, Coast, City, n1, n2

\* Isle is an hour behind, and level with UTC from hour 5 to 12; Coast is an hour ahead,
\* and two from hour 6 to 9.
MCOffset(l, t) ==
    CASE l = Isle  -> IF t \in 5..12 THEN 0 ELSE -1
      [] l = Coast -> IF t \in 6..9 THEN 2 ELSE 1
      [] l = City  -> -2

MCSymmetry == Permutations({n1, n2})
=============================================================================
