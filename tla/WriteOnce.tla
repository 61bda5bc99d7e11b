------------------------------ MODULE WriteOnce ------------------------------
(***************************************************************************)
(* What an idempotency ledger promises: the value of a key is chosen once, *)
(* and every answer for the key is that value.                             *)
(***************************************************************************)

CONSTANTS Key, None

VARIABLES
    value,     \* the value chosen for each key, or None
    answers    \* the values callers were told for each key

registerVars == <<value, answers>>

Init ==
    /\ value = [k \in Key |-> None]
    /\ answers = [k \in Key |-> {}]

\* Any value will do, but only for a key that has none.
Choose(k) ==
    /\ value[k] = None
    /\ value'[k] # None
    /\ value' = [value EXCEPT ![k] = value'[k]]
    /\ UNCHANGED answers

Tell(k) ==
    /\ value[k] # None
    /\ answers' = [answers EXCEPT ![k] = @ \cup {value[k]}]
    /\ UNCHANGED value

Next == \E k \in Key : Tell(k) \/ Choose(k)

Spec == Init /\ [][Next]_registerVars

=============================================================================
