----------------------------- MODULE FileProvider -----------------------------
(***************************************************************************)
(* The file provider, internal/reconcile/providers/jsonfile: Push writes a *)
(* session to worklogs/, Complete writes a marker to completed/, each with  *)
(* os.WriteFile, which empties the file before it writes.  The daemons that *)
(* call it keep their lists and their record in tasks.db as in Engine; here *)
(* a list is any part of what Engine could have scanned.                   *)
(*                                                                         *)
(* The contents of a file is the document it holds whole.                  *)
(***************************************************************************)
EXTENDS Naturals, FiniteSets

CONSTANTS
    Daemon,
    Session,       \* ids of timed sessions
    Key,           \* issues
    KeyOf,         \* the issue of a session
    StartOf,       \* the second it began
    Sanitize(_),   \* a key as part of a file name: not one to one
    NoDoc,
    Absent, Empty, \* a file that is not there; one that was emptied
    Broken         \* one that holds no document, or parts of two

Doc == Session \cup Key

ASSUME FileAssumption ==
    /\ Session \subseteq Nat
    /\ KeyOf \in [Session -> Key]
    /\ StartOf \in [Session -> Nat]
    /\ Session \cap Key = {}
    /\ NoDoc \notin Doc
    /\ {Absent, Empty, Broken} \cap Doc = {}
    /\ Absent # Empty /\ Absent # Broken /\ Empty # Broken
    /\ IsFiniteSet(Daemon)

VARIABLES
    files,         \* worklogs/ and completed/
    listed,        \* documents a daemon has still to hand over
    stage, hand,   \* its call of Push or Complete, and the document
    recorded       \* the signatures and "Pushed - Complete" statuses of tasks.db

\* Observability variables.
VARIABLES
    contested,     \* daemons in a call during which another wrote to the file
    settled        \* documents recorded, whose file was since written only whole, and by one

callVars == <<listed, stage, hand>>
fileVars == <<files, callVars, recorded, contested, settled>>

\* The names that Push and Complete give, and their directories.
PathOf(doc) ==
    IF doc \in Session THEN <<"worklogs", Sanitize(KeyOf[doc]), StartOf[doc]>>
                       ELSE <<"completed", Sanitize(doc)>>

Path == {PathOf(doc) : doc \in Doc}
Contents == Doc \cup {Absent, Empty, Broken}

\* Two documents that Push or Complete writes to the same name: keys that sanitize
\* makes equal, and for sessions the same second.
Twins(a, b) ==
    /\ a # b
    /\ \/ /\ a \in Session /\ b \in Session
          /\ Sanitize(KeyOf[a]) = Sanitize(KeyOf[b])
          /\ StartOf[a] = StartOf[b]
       \/ /\ a \in Key /\ b \in Key
          /\ Sanitize(a) = Sanitize(b)

\* Calls that write to one file.
Clash(a, b) == a = b \/ Twins(a, b)

FilesTypeOK ==
    /\ files \in [Path -> Contents]
    /\ listed \in [Daemon -> SUBSET Doc]
    /\ stage \in [Daemon -> {"idle", "called", "writing", "written"}]
    /\ hand \in [Daemon -> Doc \cup {NoDoc}]
    /\ \A d \in Daemon : hand[d] = NoDoc <=> stage[d] = "idle"
    /\ recorded \subseteq Doc
    /\ contested \subseteq Daemon
    /\ settled \subseteq recorded

FilesInit ==
    /\ files = [p \in Path |-> Absent]
    /\ listed = [d \in Daemon |-> {}]
    /\ stage = [d \in Daemon |-> "idle"]
    /\ hand = [d \in Daemon |-> NoDoc]
    /\ recorded = {}
    /\ contested = {}
    /\ settled = {}

-----------------------------------------------------------------------------
(* The daemon's side of a call. *)

\* What PendingPush may return, and what PendingCompletions: an issue whose completion
\* is recorded comes back when a session recorded since is completed.
Scan(d, docs) ==
    /\ stage[d] = "idle" /\ listed[d] = {}
    /\ docs \subseteq Session \ recorded \/ docs \subseteq Key
    /\ listed' = [listed EXCEPT ![d] = docs]
    /\ UNCHANGED <<files, stage, hand, recorded, contested, settled>>

\* push and complete hand over the documents one by one, the oldest session first.
Call(d, doc) ==
    /\ stage[d] = "idle"
    /\ doc \in listed[d]
    /\ doc \in Session => \A s \in listed[d] : doc <= s
    /\ stage' = [stage EXCEPT ![d] = "called"]
    /\ hand' = [hand EXCEPT ![d] = doc]
    /\ listed' = [listed EXCEPT ![d] = @ \ {doc}]
    /\ LET rivals == {e \in Daemon : Clash(doc, hand[e])}
       IN  contested' = contested \cup rivals \cup (IF rivals = {} THEN {} ELSE {d})
    /\ UNCHANGED <<files, recorded, settled>>

\* Seeded fault: the document stays in hand.
ReturnHolding(d) ==
    /\ stage' = [stage EXCEPT ![d] = "idle"]
    /\ hand' = hand
    /\ contested' = contested \ {d}

Return(d) ==
    /\ stage' = [stage EXCEPT ![d] = "idle"]
    /\ hand' = [hand EXCEPT ![d] = NoDoc]
    /\ contested' = contested \ {d}

\* MarkPushed, MarkCompletionPushed.
Record(d) ==
    /\ stage[d] = "written"
    /\ recorded' = recorded \cup {hand[d]}
    /\ settled' = IF d \in contested THEN settled ELSE settled \cup {hand[d]}
    /\ Return(d)
    /\ UNCHANGED <<files, listed>>

\* A statement of the daemon fails: the rest of its list is dropped.
StoreFails(d) ==
    /\ stage[d] \in {"idle", "written"}
    /\ listed' = [listed EXCEPT ![d] = {}]
    /\ Return(d)
    /\ UNCHANGED <<files, recorded, settled>>

-----------------------------------------------------------------------------
(* Push and Complete: the name, and os.WriteFile. *)

\* The context is done, or the directory or the file cannot be opened.
Refuse(d) ==
    /\ stage[d] = "called"
    /\ Return(d)
    /\ UNCHANGED <<files, listed, recorded, settled>>

Truncate(d) ==
    /\ stage[d] = "called"
    /\ files' = [files EXCEPT ![PathOf(hand[d])] = Empty]
    /\ stage' = [stage EXCEPT ![d] = "writing"]
    /\ settled' = {s \in settled : ~Clash(hand[d], s)}
    /\ UNCHANGED <<listed, hand, recorded, contested>>

\* What d wrote is all there is in a file that was empty; over that of another writer
\* it may be too short.
LeftBy(d) ==
    IF files[PathOf(hand[d])] = Empty THEN {hand[d]} ELSE {hand[d], Broken}

Write(d) ==
    /\ stage[d] = "writing"
    /\ \E c \in LeftBy(d) : files' = [files EXCEPT ![PathOf(hand[d])] = c]
    /\ stage' = [stage EXCEPT ![d] = "written"]
    /\ settled' = IF d \in contested THEN settled ELSE settled \cup ({hand[d]} \cap recorded)
    /\ UNCHANGED <<listed, hand, recorded, contested>>

\* The file as it is when d stops writing early.
CutShort(d) == files' \in {files, [files EXCEPT ![PathOf(hand[d])] = Broken]}

\* Seeded fault: the error is not looked at.
WriteFailsUnseen(d) ==
    /\ stage[d] = "writing"
    /\ CutShort(d)
    /\ stage' = [stage EXCEPT ![d] = "written"]
    /\ UNCHANGED <<listed, hand, recorded, contested, settled>>

WriteFails(d) ==
    /\ stage[d] = "writing"
    /\ CutShort(d)
    /\ Return(d)
    /\ UNCHANGED <<listed, recorded, settled>>

\* The daemon dies, or is stopped.
Stop(d) ==
    /\ IF stage[d] = "writing" THEN CutShort(d) ELSE files' = files
    /\ listed' = [listed EXCEPT ![d] = {}]
    /\ Return(d)
    /\ UNCHANGED <<recorded, settled>>

-----------------------------------------------------------------------------

Exchange(d) ==
    \/ \E docs \in SUBSET Doc : Scan(d, docs)
    \/ \E doc \in Doc : Call(d, doc)
    \/ Record(d) \/ StoreFails(d)
    \/ Refuse(d) \/ Truncate(d) \/ Write(d) \/ WriteFails(d)

-----------------------------------------------------------------------------

\* What the table says was handed over is on file, whole, also after it was handed over
\* again to be refused, or written again and not recorded: "a re-push of the same session
\* overwrites rather than duplicating" (Push).  It is lost only to a write, of it or of a
\* twin, that is under way, was cut short, or met that of another daemon.
RecordedIsOnFile == \A doc \in settled : files[PathOf(doc)] = doc

=============================================================================
