-------------------------------- MODULE Upgrade --------------------------------
(***************************************************************************)
(* OpenAt and migrate of internal/task/store.go: the app and the daemons   *)
(* open tasks.db when they start, create it or bring it to the current     *)
(* layout, and do so at the same time when a package upgrade restarts them  *)
(* all.  No transaction spans the statements, so each is a step.           *)
(***************************************************************************)
EXTENDS Naturals

CONSTANTS
    Process,       \* programs that open the store
    Base,          \* a column of every version
    Wanted,        \* those older versions may lack, numbered as migrate lists them
    ForeignKey,    \* the one an index is defined over
    Layout,        \* which of Wanted the tables of older versions have
    OldRow,        \* sessions older versions recorded with a status that was renamed
    MaxBreaks      \* failed statements, crashes and exits (bound)

ASSUME UpgradeAssumption ==
    /\ Wanted \subseteq Nat
    /\ ForeignKey \in Wanted
    /\ Layout \subseteq SUBSET Wanted
    /\ Base \notin Wanted
    /\ MaxBreaks \in Nat

VARIABLES
    columns,       \* of the tasks table, those of Current
    indexed,       \* idx_tasks_foreign exists
    oldStatus,     \* rows whose status has its former name
    at,            \* the step of OpenAt each process is at
    missing,       \* columns that migrate found missing and has not added yet
    breaks

Current == Wanted \cup {Base}
NoTable == {}          \* a new installation

tableVars == <<columns, indexed, oldStatus>>
upgradeVars == <<tableVars, at, missing, breaks>>

UpgradeTypeOK ==
    /\ columns \subseteq Current
    /\ indexed \in BOOLEAN
    /\ oldStatus \subseteq OldRow
    /\ at \in [Process -> {"closed", "inspect", "alter", "index", "open"}]
    /\ missing \in [Process -> SUBSET Wanted]
    /\ breaks \in 0..MaxBreaks

UpgradeInit ==
    /\ \/ columns = NoTable /\ oldStatus = {}
       \/ (\E l \in Layout : columns = l \cup {Base}) /\ oldStatus = OldRow
    /\ indexed = FALSE
    /\ at = [p \in Process |-> "closed"]
    /\ missing = [p \in Process |-> {}]
    /\ breaks = 0

-----------------------------------------------------------------------------

Advance(p, l) == at' = [at EXCEPT ![p] = l]

\* CREATE TABLE IF NOT EXISTS: a table that exists is left as it is.
ApplySchema(p) ==
    /\ at[p] = "closed"
    /\ columns' = IF columns = NoTable THEN Current ELSE columns
    /\ Advance(p, "inspect")
    /\ UNCHANGED <<indexed, oldStatus, missing, breaks>>

\* Seeded fault: the errors on existing columns are expected to be harmless.
InspectNothing(p) ==
    /\ at[p] = "inspect"
    /\ missing' = [missing EXCEPT ![p] = Wanted]
    /\ Advance(p, "alter")
    /\ UNCHANGED <<tableVars, breaks>>

\* migrate reads the layout once.
Inspect(p) ==
    /\ at[p] = "inspect"
    /\ missing' = [missing EXCEPT ![p] = Wanted \ columns]
    /\ Advance(p, "alter")
    /\ UNCHANGED <<tableVars, breaks>>

NextMissing(p, c) == c \in missing[p] /\ \A b \in missing[p] : c <= b

AddColumn(p, c) ==
    /\ at[p] = "alter"
    /\ NextMissing(p, c) /\ c \notin columns
    /\ columns' = columns \cup {c}
    /\ missing' = [missing EXCEPT ![p] = @ \ {c}]
    /\ UNCHANGED <<indexed, oldStatus, at, breaks>>

\* Seeded fault: another process is upgrading, the rest is left to it.
LeaveToOther(p, c) ==
    /\ at[p] = "alter"
    /\ NextMissing(p, c) /\ c \in columns
    /\ Advance(p, "open")
    /\ missing' = [missing EXCEPT ![p] = {}]
    /\ UNCHANGED <<tableVars, breaks>>

\* Another process added it since: an error, and OpenAt fails.
DuplicateColumn(p, c) ==
    /\ at[p] = "alter"
    /\ NextMissing(p, c) /\ c \in columns
    /\ Advance(p, "closed")
    /\ missing' = [missing EXCEPT ![p] = {}]
    /\ UNCHANGED <<tableVars, breaks>>

RenameStatuses(p) ==
    /\ at[p] = "alter" /\ missing[p] = {}
    /\ oldStatus' = {}
    /\ Advance(p, "index")
    /\ UNCHANGED <<columns, indexed, missing, breaks>>

\* It needs the column.
ApplyIndexes(p) ==
    /\ at[p] = "index"
    /\ ForeignKey \in columns
    /\ indexed' = TRUE
    /\ Advance(p, "open")
    /\ UNCHANGED <<columns, oldStatus, missing, breaks>>

\* A statement fails or is cut off, or the process ends: it has to be started again.
Break(p) ==
    /\ at[p] # "closed"
    /\ breaks < MaxBreaks
    /\ breaks' = breaks + 1
    /\ Advance(p, "closed")
    /\ missing' = [missing EXCEPT ![p] = {}]
    /\ UNCHANGED tableVars

-----------------------------------------------------------------------------

Opening(p) ==
    \/ ApplySchema(p) \/ Inspect(p)
    \/ \E c \in Wanted : AddColumn(p, c) \/ DuplicateColumn(p, c)
    \/ RenameStatuses(p) \/ ApplyIndexes(p)

-----------------------------------------------------------------------------

\* A process that has the store open finds every column, the index and the status names
\* its statements use, whoever else is upgrading and wherever they failed (OpenAt).
OpenIsCurrent ==
    \A p \in Process : at[p] = "open" =>
        columns = Current /\ indexed /\ oldStatus = {}

\* A process that is started again whenever OpenAt fails has the store open in the end:
\* what one attempt added, the next does not add again.
StartsInTheEnd == \A p \in Process : (at[p] = "closed") ~> (at[p] = "open")

=============================================================================
