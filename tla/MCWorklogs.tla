------------------------------ MODULE MCWorklogs ------------------------------
(* A small instance of Worklogs for TLC. *)
EXTENDS Worklogs

\* The shortest session that counts as a second.
MCMillis == [s \in Session |-> 500]

=============================================================================
