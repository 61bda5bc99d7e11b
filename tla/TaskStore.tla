------------------------------ MODULE TaskStore ------------------------------
(***************************************************************************)
(* The tasks table of tasks.db (internal/task/store.go), the one piece of  *)
(* state the desktop app and the reconcile daemon share.  Each column the  *)
(* reconcile protocol reads is a variable, indexed by row id; each SQL     *)
(* statement is one atomic action, because SQLite serialises statements    *)
(* and the store opens no transaction around two of them.                  *)
(*                                                                         *)
(* Start, end and duration are left out: a row is inserted with all three  *)
(* set and nothing ever changes them, so every row is a finished session.  *)
(***************************************************************************)
EXTENDS Naturals, FiniteSets

CONSTANTS
    Row,         \* ids the tasks table can hand out
    Name,        \* task names a session can be saved under
    Key,         \* foreign keys of remote issues
    NoName,      \* name of a row not yet inserted
    NoKey,       \* the empty foreign_key of a purely local session
    KeyOf,       \* the issue each display name belongs to
    Provider,    \* registered providers
    ProviderOf   \* the provider (task_source) each issue was pulled from

ASSUME StoreAssumption ==
    /\ Row \subseteq Nat \ {0}
    /\ NoKey \notin Key
    /\ NoName \notin Name
    /\ KeyOf \in [Name -> Key]
    /\ ProviderOf \in [Key -> Provider]

VARIABLES
    rows,        \* ids present in the table
    name,        \* name column
    link,        \* foreign_key column; its provider is the task_source column
    comment,     \* comment column
    status,      \* task_status column
    requested,   \* rows with sync_requested = 1
    signed       \* rows whose timer_sync_signature is not empty

storeVars == <<rows, name, link, comment, status, requested, signed>>

Comment == {"", "completed", "re-opened"}
Status == {"Logged", "Pushing", "Pushed", "PushedComplete"}

StoreTypeOK ==
    /\ rows \subseteq Row
    /\ name \in [Row -> Name \cup {NoName}]
    /\ link \in [Row -> Key \cup {NoKey}]
    /\ comment \in [Row -> Comment]
    /\ status \in [Row -> Status]
    /\ requested \subseteq rows
    /\ signed \subseteq rows

StoreInit ==
    /\ rows = {}
    /\ name = [i \in Row |-> NoName]
    /\ link = [i \in Row |-> NoKey]
    /\ comment = [i \in Row |-> ""]
    /\ status = [i \in Row |-> "Logged"]
    /\ requested = {}
    /\ signed = {}

-----------------------------------------------------------------------------
(* What the daemon's SELECTs return. *)

Linked(i) == i \in rows /\ link[i] # NoKey
Completed(i) == comment[i] = "completed"

\* Seeded faults: the signature is not looked at; only untouched rows are pushed.
PushEligibleAgain(i) == Linked(i)
PushEligibleLogged(i) == Linked(i) /\ i \notin signed /\ status[i] = "Logged"

\* pushEligible: linked to a remote task and carrying no work-log id yet.
PushEligible(i) == Linked(i) /\ i \notin signed

\* Seeded fault: sync_requested is not looked at.
PendingPushUnasked(p) == {i \in rows : PushEligible(i) /\ ProviderOf[link[i]] = p}

PendingPush(p) ==
    {i \in requested : PushEligible(i) /\ ProviderOf[link[i]] = p}

\* Seeded fault: the comment is not looked at.
CompletionOwedAnyhow(i) == i \in requested /\ Linked(i) /\ status[i] # "PushedComplete"

\* A row that makes PendingCompletions list its issue.
CompletionOwed(i) ==
    /\ i \in requested
    /\ Linked(i)
    /\ Completed(i)
    /\ status[i] # "PushedComplete"

\* GROUP BY foreign_key: one entry an issue, whichever of its rows asks.
PendingCompletions(p) ==
    {k \in Key : ProviderOf[k] = p /\ \E i \in rows : CompletionOwed(i) /\ link[i] = k}

-----------------------------------------------------------------------------
(* The statements that write. *)

\* Save: a new row, linked to the issue when the name is that of a pulled task
\* the mirror still holds open, and purely local otherwise.
Save(i, n, k) ==
    /\ i \in Row \ rows
    /\ \A j \in rows : j < i
    /\ k \in {KeyOf[n], NoKey}
    /\ rows' = rows \cup {i}
    /\ name' = [name EXCEPT ![i] = n]
    /\ link' = [link EXCEPT ![i] = k]
    /\ comment' = [comment EXCEPT ![i] = ""]
    /\ status' = [status EXCEPT ![i] = "Logged"]
    /\ UNCHANGED <<requested, signed>>

\* Complete(id, name): every session of that name up to the row is marked.
Complete(i) ==
    /\ i \in rows
    /\ comment' = [j \in Row |->
                     IF j \in rows /\ j <= i /\ name[j] = name[i]
                     THEN "completed" ELSE comment[j]]
    /\ UNCHANGED <<rows, name, link, status, requested, signed>>

\* Reopen(id): the marker is cleared on the one row; its status stays.
Reopen(i) ==
    /\ i \in rows
    /\ comment' = [comment EXCEPT ![i] = "re-opened"]
    /\ UNCHANGED <<rows, name, link, status, requested, signed>>

\* The first UPDATE of RequestPush.
MarkSessions ==
    /\ requested' = requested \cup {i \in rows : PushEligible(i)}
    /\ UNCHANGED <<rows, name, link, comment, status, signed>>

\* The second UPDATE of RequestPush.
MarkCompletions ==
    /\ requested' = requested \cup
         {i \in rows : Linked(i) /\ Completed(i) /\ status[i] # "PushedComplete"}
    /\ UNCHANGED <<rows, name, link, comment, status, signed>>

SetStatus(i, s) ==
    /\ status' = [status EXCEPT ![i] = s]
    /\ UNCHANGED <<rows, name, link, comment, requested, signed>>

\* Seeded faults: a completed row is stamped complete before the provider is
\* told; the status column is not written.
MarkPushedComplete(i) ==
    /\ signed' = signed \cup {i}
    /\ status' = [status EXCEPT ![i] = IF Completed(i) THEN "PushedComplete" ELSE "Pushed"]
    /\ UNCHANGED <<rows, name, link, comment, requested>>

MarkPushedSilently(i) ==
    /\ signed' = signed \cup {i}
    /\ UNCHANGED <<rows, name, link, comment, status, requested>>

MarkPushed(i) ==
    /\ signed' = signed \cup {i}
    /\ status' = [status EXCEPT ![i] = "Pushed"]
    /\ UNCHANGED <<rows, name, link, comment, requested>>

\* Seeded fault: only rows whose work log is recorded are stamped.
MarkCompletionPushedSigned(k) ==
    /\ status' = [i \in Row |->
                    IF i \in signed /\ link[i] = k /\ Completed(i)
                    THEN "PushedComplete" ELSE status[i]]
    /\ UNCHANGED <<rows, name, link, comment, requested, signed>>

\* Every completed row of the issue is stamped, whatever else is true of it.
MarkCompletionPushed(k) ==
    /\ status' = [i \in Row |->
                    IF i \in rows /\ link[i] = k /\ Completed(i)
                    THEN "PushedComplete" ELSE status[i]]
    /\ UNCHANGED <<rows, name, link, comment, requested, signed>>

=============================================================================
