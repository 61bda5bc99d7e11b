---------------------------- MODULE SessionLedger ----------------------------
(***************************************************************************)
(* What the reconcile protocol promises of a session, without the table,   *)
(* the daemons and their failures: the user queues it, the provider gets   *)
(* it, and the machine knows that it did.  None of the three is undone.    *)
(***************************************************************************)

CONSTANT Session   \* timed sessions

VARIABLES queued, delivered, confirmed

ledgerVars == <<queued, delivered, confirmed>>

Init ==
    /\ queued = {}
    /\ delivered = {}
    /\ confirmed = {}

\* The user presses Push.
Queue(S) ==
    /\ queued' = queued \cup S
    /\ UNCHANGED <<delivered, confirmed>>

\* The provider accepts the work log of a queued session.
Deliver(s) ==
    /\ s \in queued
    /\ delivered' = delivered \cup {s}
    /\ UNCHANGED <<queued, confirmed>>

\* The acceptance is recorded.
Confirm(s) ==
    /\ s \in delivered
    /\ confirmed' = confirmed \cup {s}
    /\ UNCHANGED <<queued, delivered>>

Next ==
    \/ \E S \in SUBSET Session : Queue(S)
    \/ \E s \in Session : Deliver(s) \/ Confirm(s)

Spec == Init /\ [][Next]_ledgerVars

=============================================================================
