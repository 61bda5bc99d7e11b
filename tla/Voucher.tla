-------------------------------- MODULE Voucher --------------------------------
(***************************************************************************)
(* What a sign-in promises: a ticket is made out to one bearer, and buys   *)
(* that bearer one thing, once.                                            *)
(***************************************************************************)
EXTENDS Naturals

CONSTANTS Ticket, Holder, None

VARIABLES
    bearer,   \* whom each ticket is made out to, or None
    bought    \* how often a ticket was used, by whom

voucherVars == <<bearer, bought>>

Init ==
    /\ bearer = [t \in Ticket |-> None]
    /\ bought = [t \in Ticket |-> [h \in Holder |-> 0]]

MakeOut(t, h) ==
    /\ bearer[t] = None
    /\ bearer' = [bearer EXCEPT ![t] = h]
    /\ UNCHANGED bought

Buy(t) ==
    /\ bearer[t] # None
    /\ bought[t][bearer[t]] = 0
    /\ bought' = [bought EXCEPT ![t][bearer[t]] = 1]
    /\ UNCHANGED bearer

Next == \E t \in Ticket : Buy(t) \/ \E h \in Holder : MakeOut(t, h)

Spec == Init /\ [][Next]_voucherVars

=============================================================================
