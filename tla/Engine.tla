-------------------------------- MODULE Engine --------------------------------
(***************************************************************************)
(* The reconcile protocol: the desktop app writing sessions and presses   *)
(* Push, and the daemons that run pull, push and complete for every        *)
(* enabled provider (internal/reconcile/engine.go), both on the table of   *)
(* TaskStore.  Usually one daemon runs, but nothing stops a second one     *)
(* (the background service and a "-once" run from a terminal or cron), so  *)
(* the number of daemons is a parameter.                                   *)
(*                                                                         *)
(* A daemon holds in memory the answer of its last SELECT (queue, keys)    *)
(* while the app and other daemons keep changing the table; every store    *)
(* statement and every call of a provider is a step of its own, and the    *)
(* daemon can die between any two of them.                                 *)
(*                                                                         *)
(* What a pull brings is left to the module of the remote mirror: here it  *)
(* matters only that a failed pull ends the provider's cycle.              *)
(***************************************************************************)
EXTENDS TaskStore, Sequences

CONSTANTS
    Daemon,      \* running daemon processes
    Config,      \* sequence of the enabled providers, in config order
    CanPush,     \* providers whose Push is supported
    CanClose,    \* providers whose Complete is supported and switched on
    Accepting,   \* sessions the provider accepts if they are sent often enough
    Reachable,   \* providers whose pull and complete calls keep getting through
    Reclosable,  \* providers that complete an already completed issue once more
    MaxPresses,  \* bound: presses of Push being carried out at the same time
    MaxFaults    \* bound: crashes, store errors and lost answers in a behaviour

ASSUME EngineAssumption ==
    /\ Config \in Seq(Provider)
    /\ MaxPresses \in Nat
    /\ MaxFaults \in Nat
    /\ IsFiniteSet(Daemon)

VARIABLES
    pc,          \* where each daemon is in its cycle
    at,          \* index in Config of the provider being reconciled
    queue,       \* rows PendingPush returned and not handled yet
    keys,        \* issues PendingCompletions returned and not handled yet
    cur,         \* the session being pushed
    closing,     \* the issue whose completion was accepted
    presses      \* calls of RequestPush between their two UPDATEs

daemonVars == <<pc, at, queue, keys, cur, closing>>

(* Observability variables: what the provider saw and what the user asked. *)
VARIABLES
    sent,        \* work logs of each session the provider accepted
    lost,        \* of these, how many acceptances were never recorded
    told,        \* completions of each issue the provider accepted, up to ToldCap
    asked,       \* sessions some press of Push found to be pushable
    approved,    \* issues some press of Push found a completed session of
    faults       \* crashes, store errors and lost answers so far

obsVars == <<sent, lost, told, asked, approved, faults>>
vars == <<storeVars, daemonVars, presses, obsVars>>

ToldCap == 2   \* bound: told saturates here, enough to tell once from again

PC == {"idle", "pull", "scan", "next", "send", "accepted", "failed",
       "unsupported", "scanDone", "nextKey", "told"}

NoRow == 0     \* no session in flight: AUTOINCREMENT ids start at 1

TypeOK ==
    /\ StoreTypeOK
    /\ pc \in [Daemon -> PC]
    /\ at \in [Daemon -> 0..Len(Config)]
    /\ queue \in [Daemon -> SUBSET Row]
    /\ keys \in [Daemon -> SUBSET Key]
    /\ cur \in [Daemon -> Row \cup {NoRow}]
    /\ closing \in [Daemon -> Key \cup {NoKey}]
    /\ presses \in 0..MaxPresses
    /\ sent \in [Row -> Nat]
    /\ lost \in [Row -> Nat]
    /\ told \in [Key -> 0..ToldCap]
    /\ asked \subseteq Row
    /\ approved \subseteq Key
    /\ faults \in 0..MaxFaults

Init ==
    /\ StoreInit
    /\ pc = [d \in Daemon |-> "idle"]
    /\ at = [d \in Daemon |-> 0]
    /\ queue = [d \in Daemon |-> {}]
    /\ keys = [d \in Daemon |-> {}]
    /\ cur = [d \in Daemon |-> NoRow]
    /\ closing = [d \in Daemon |-> NoKey]
    /\ presses = 0
    /\ sent = [i \in Row |-> 0]
    /\ lost = [i \in Row |-> 0]
    /\ told = [k \in Key |-> 0]
    /\ asked = {}
    /\ approved = {}
    /\ faults = 0

-----------------------------------------------------------------------------
(* The app.  Its buttons are handled on one goroutine, but the push that     *)
(* follows a sign-in runs on another (connect.go), so sessions are saved,   *)
(* completed and pushed again between the two statements of a press.        *)

SaveSession(i, n, k) ==
    /\ i = Cardinality(rows) + 1
    /\ Save(i, n, k)
    /\ UNCHANGED <<daemonVars, presses, obsVars>>

\* The table offers Complete on an open row and Reopen on a completed one.
CompleteTask(i) ==
    /\ ~Completed(i)
    /\ Complete(i)
    /\ UNCHANGED <<daemonVars, presses, obsVars>>

ReopenTask(i) ==
    /\ Completed(i)
    /\ Reopen(i)
    /\ UNCHANGED <<daemonVars, presses, obsVars>>

CompletedKeys == {link[i] : i \in {j \in rows : Linked(j) /\ Completed(j)}}

\* RequestPush, first statement: the user asks for every pushable session.
PressPush ==
    /\ presses < MaxPresses
    /\ presses' = presses + 1
    /\ MarkSessions
    /\ asked' = asked \cup {i \in rows : PushEligible(i)}
    /\ approved' = approved \cup CompletedKeys
    /\ UNCHANGED <<daemonVars, sent, lost, told, faults>>

\* RequestPush, second statement: the press now covers completed sessions,
\* also one saved and completed after the first.
FinishPress ==
    /\ presses > 0
    /\ presses' = presses - 1
    /\ MarkCompletions
    /\ asked' = asked \cup {i \in rows : PushEligible(i) /\ Completed(i)}
    /\ approved' = approved \cup CompletedKeys
    /\ UNCHANGED <<daemonVars, sent, lost, told, faults>>

\* The second statement fails, or the app dies before it: the first one stays.
BreakPress ==
    /\ presses > 0
    /\ faults < MaxFaults
    /\ presses' = presses - 1
    /\ faults' = faults + 1
    /\ UNCHANGED <<storeVars, daemonVars, sent, lost, told, asked, approved>>

-----------------------------------------------------------------------------
(* The daemon. *)

Current(d) == Config[at[d]]
Goto(d, l) == pc' = [pc EXCEPT ![d] = l]

\* Seeded fault: one provider too many.
NextProviderPastLast(d) ==
    /\ Goto(d, IF at[d] <= Len(Config) THEN "pull" ELSE "idle")
    /\ at' = [at EXCEPT ![d] = IF at[d] <= Len(Config) THEN at[d] + 1 ELSE 0]
    /\ queue' = [queue EXCEPT ![d] = {}]
    /\ keys' = [keys EXCEPT ![d] = {}]
    /\ cur' = [cur EXCEPT ![d] = NoRow]
    /\ closing' = [closing EXCEPT ![d] = NoKey]

\* Leave this provider: the next one's pull, or the end of RunOnce.
NextProvider(d) ==
    /\ Goto(d, IF at[d] < Len(Config) THEN "pull" ELSE "idle")
    /\ at' = [at EXCEPT ![d] = IF at[d] < Len(Config) THEN at[d] + 1 ELSE 0]
    /\ queue' = [queue EXCEPT ![d] = {}]
    /\ keys' = [keys EXCEPT ![d] = {}]
    /\ cur' = [cur EXCEPT ![d] = NoRow]
    /\ closing' = [closing EXCEPT ![d] = NoKey]

\* RunOnce, at start and on every tick.
StartCycle(d) ==
    /\ pc[d] = "idle"
    /\ Len(Config) > 0
    /\ Goto(d, "pull")
    /\ at' = [at EXCEPT ![d] = 1]
    /\ UNCHANGED <<storeVars, queue, keys, cur, closing, presses, obsVars>>

\* pull succeeds, or the provider does not support it.
PullOk(d) ==
    /\ pc[d] = "pull"
    /\ Goto(d, "scan")
    /\ UNCHANGED <<storeVars, at, queue, keys, cur, closing, presses, obsVars>>

\* pull fails: reconcileProvider returns before push and complete.
PullFails(d) ==
    /\ pc[d] = "pull"
    /\ NextProvider(d)
    /\ UNCHANGED <<storeVars, presses, obsVars>>

\* push: PendingPush is read once; the rows are then handled from memory.
ScanPush(d) ==
    /\ pc[d] = "scan"
    /\ Goto(d, "next")
    /\ queue' = [queue EXCEPT ![d] = PendingPush(Current(d))]
    /\ UNCHANGED <<storeVars, at, keys, cur, closing, presses, obsVars>>

\* Seeded fault: the row in flight stays in the queue.
BeginPushKeeping(d, i) ==
    /\ pc[d] = "next"
    /\ i \in queue[d]
    /\ \A j \in queue[d] : i <= j
    /\ Goto(d, "send")
    /\ cur' = [cur EXCEPT ![d] = i]
    /\ SetStatus(i, "Pushing")
    /\ UNCHANGED <<at, queue, keys, closing, presses, obsVars>>

\* The oldest row left is shown as Pushing, then handed to the provider.
BeginPush(d, i) ==
    /\ pc[d] = "next"
    /\ i \in queue[d]
    /\ \A j \in queue[d] : i <= j
    /\ Goto(d, "send")
    /\ queue' = [queue EXCEPT ![d] = @ \ {i}]
    /\ cur' = [cur EXCEPT ![d] = i]
    /\ SetStatus(i, "Pushing")
    /\ UNCHANGED <<at, keys, closing, presses, obsVars>>

PushDone(d) ==
    /\ pc[d] = "next"
    /\ queue[d] = {}
    /\ Goto(d, "scanDone")
    /\ UNCHANGED <<storeVars, at, queue, keys, cur, closing, presses, obsVars>>

\* The provider stores the work log and its id comes back.
Accept(d) ==
    /\ pc[d] = "send"
    /\ Current(d) \in CanPush
    /\ Goto(d, "accepted")
    /\ sent' = [sent EXCEPT ![cur[d]] = @ + 1]
    /\ UNCHANGED <<storeVars, at, queue, keys, cur, closing, presses,
                   lost, told, asked, approved, faults>>

\* The provider stores the work log, but the answer is lost: the request timed
\* out, was cancelled by a shutdown, or the response did not parse.
AcceptUnheard(d) ==
    /\ pc[d] = "send"
    /\ Current(d) \in CanPush
    /\ faults < MaxFaults
    /\ Goto(d, "failed")
    /\ sent' = [sent EXCEPT ![cur[d]] = @ + 1]
    /\ lost' = [lost EXCEPT ![cur[d]] = @ + 1]
    /\ faults' = faults + 1
    /\ UNCHANGED <<storeVars, at, queue, keys, cur, closing, presses,
                   told, asked, approved>>

\* The provider refuses the work log or cannot be reached.
Reject(d) ==
    /\ pc[d] = "send"
    /\ Current(d) \in CanPush
    /\ Goto(d, "failed")
    /\ UNCHANGED <<storeVars, at, queue, keys, cur, closing, presses, obsVars>>

PushUnsupported(d) ==
    /\ pc[d] = "send"
    /\ Current(d) \notin CanPush
    /\ Goto(d, "unsupported")
    /\ UNCHANGED <<storeVars, at, queue, keys, cur, closing, presses, obsVars>>

\* MarkPushed with the id the provider returned.
RecordPushed(d) ==
    /\ pc[d] = "accepted"
    /\ Goto(d, "next")
    /\ cur' = [cur EXCEPT ![d] = NoRow]
    /\ MarkPushed(cur[d])
    /\ UNCHANGED <<at, queue, keys, closing, presses, obsVars>>

\* Seeded fault: one refused session ends the provider's cycle.
RollBackLeaving(d) ==
    /\ pc[d] = "failed"
    /\ NextProvider(d)
    /\ SetStatus(cur[d], "Logged")
    /\ UNCHANGED <<presses, obsVars>>

\* The status goes back to Logged and the loop carries on with the next row.
RollBack(d) ==
    /\ pc[d] = "failed"
    /\ Goto(d, "next")
    /\ cur' = [cur EXCEPT ![d] = NoRow]
    /\ SetStatus(cur[d], "Logged")
    /\ UNCHANGED <<at, queue, keys, closing, presses, obsVars>>

\* The status goes back to Logged and push is over, the other rows untouched.
SkipPush(d) ==
    /\ pc[d] = "unsupported"
    /\ Goto(d, "scanDone")
    /\ queue' = [queue EXCEPT ![d] = {}]
    /\ cur' = [cur EXCEPT ![d] = NoRow]
    /\ SetStatus(cur[d], "Logged")
    /\ UNCHANGED <<at, keys, closing, presses, obsVars>>

\* complete: PendingCompletions is read once.
ScanCompletions(d) ==
    /\ pc[d] = "scanDone"
    /\ Goto(d, "nextKey")
    /\ keys' = [keys EXCEPT ![d] = PendingCompletions(Current(d))]
    /\ UNCHANGED <<storeVars, at, queue, cur, closing, presses, obsVars>>

CloseIssue(k) ==
    told' = [told EXCEPT ![k] = IF @ < ToldCap THEN @ + 1 ELSE @]

\* The provider closes the issue and says so.
CloseOk(d, k) ==
    /\ pc[d] = "nextKey"
    /\ k \in keys[d]
    /\ Current(d) \in CanClose
    /\ Goto(d, "told")
    /\ keys' = [keys EXCEPT ![d] = @ \ {k}]
    /\ closing' = [closing EXCEPT ![d] = k]
    /\ CloseIssue(k)
    /\ UNCHANGED <<storeVars, at, queue, cur, presses,
                   sent, lost, asked, approved, faults>>

\* The provider closes the issue, but the answer is lost.
CloseUnheard(d, k) ==
    /\ pc[d] = "nextKey"
    /\ k \in keys[d]
    /\ Current(d) \in CanClose
    /\ faults < MaxFaults
    /\ keys' = [keys EXCEPT ![d] = @ \ {k}]
    /\ CloseIssue(k)
    /\ faults' = faults + 1
    /\ UNCHANGED <<storeVars, pc, at, queue, cur, closing, presses,
                   sent, lost, asked, approved>>

CloseFails(d, k) ==
    /\ pc[d] = "nextKey"
    /\ k \in keys[d]
    /\ Current(d) \in CanClose
    /\ keys' = [keys EXCEPT ![d] = @ \ {k}]
    /\ UNCHANGED <<storeVars, pc, at, queue, cur, closing, presses, obsVars>>

\* MarkCompletionPushed.
RecordClosed(d) ==
    /\ pc[d] = "told"
    /\ Goto(d, "nextKey")
    /\ closing' = [closing EXCEPT ![d] = NoKey]
    /\ MarkCompletionPushed(closing[d])
    /\ UNCHANGED <<at, queue, keys, cur, presses, obsVars>>

\* Every issue is handled, or the provider does not support Complete.
CompleteDone(d) ==
    /\ pc[d] = "nextKey"
    /\ keys[d] = {} \/ Current(d) \notin CanClose
    /\ NextProvider(d)
    /\ UNCHANGED <<storeVars, presses, obsVars>>

\* An acceptance dies with the step that would have recorded it.
Forget(d) ==
    lost' = IF pc[d] = "accepted" THEN [lost EXCEPT ![cur[d]] = @ + 1] ELSE lost

\* A store statement fails: the error ends this provider's cycle.
StoreFails(d) ==
    /\ pc[d] \in {"scan", "next", "accepted", "failed", "unsupported", "scanDone", "told"}
    /\ faults < MaxFaults
    /\ NextProvider(d)
    /\ Forget(d)
    /\ faults' = faults + 1
    /\ UNCHANGED <<storeVars, presses, sent, told, asked, approved>>

\* The daemon is killed, or a signal cancels its context; the service manager
\* or the next "-once" run starts it again.
Die(d) ==
    /\ pc[d] # "idle"
    /\ faults < MaxFaults
    /\ Goto(d, "idle")
    /\ at' = [at EXCEPT ![d] = 0]
    /\ queue' = [queue EXCEPT ![d] = {}]
    /\ keys' = [keys EXCEPT ![d] = {}]
    /\ cur' = [cur EXCEPT ![d] = NoRow]
    /\ closing' = [closing EXCEPT ![d] = NoKey]
    /\ Forget(d)
    /\ faults' = faults + 1
    /\ UNCHANGED <<storeVars, presses, sent, told, asked, approved>>

-----------------------------------------------------------------------------

Push(d) ==
    \/ ScanPush(d) \/ PushDone(d)
    \/ \E i \in Row : BeginPush(d, i)
    \/ Accept(d) \/ Reject(d) \/ PushUnsupported(d)
    \/ RecordPushed(d) \/ RollBack(d) \/ SkipPush(d)

CompleteTasks(d) ==
    \/ ScanCompletions(d) \/ CompleteDone(d)
    \/ \E k \in Key : CloseOk(d, k) \/ CloseFails(d, k)
    \/ RecordClosed(d)

\* The steps of RunOnce when nothing breaks.
Cycle(d) == StartCycle(d) \/ PullOk(d) \/ PullFails(d) \/ Push(d) \/ CompleteTasks(d)

Fault(d) ==
    \/ AcceptUnheard(d)
    \/ \E k \in Key : CloseUnheard(d, k)
    \/ StoreFails(d)
    \/ Die(d)

App ==
    \/ \E i \in Row, n \in Name, k \in Key \cup {NoKey} : SaveSession(i, n, k)
    \/ \E i \in Row : CompleteTask(i) \/ ReopenTask(i)
    \/ PressPush \/ FinishPress \/ BreakPress

Next == App \/ \E d \in Daemon : Cycle(d) \/ Fault(d)

Spec == Init /\ [][Next]_vars

ReachableKey == {k \in Key : ProviderOf[k] \in Reachable}
Closable(k) == told[k] = 0 \/ ProviderOf[k] \in Reclosable

\* A daemon's loop never stops on its own: the ticker fires again and every
\* request ends, with an answer or the client's timeout.  That a provider in
\* the end answers well is assumed only of Reachable and Accepting, and of a
\* second completion only where Reclosable: a task file is simply written again,
\* but a closed Jira issue has no such transition left (jira/client.go:274).
Fairness ==
    /\ WF_vars(FinishPress)
    /\ \A d \in Daemon :
         /\ WF_vars(Cycle(d))
         /\ SF_vars(PullOk(d) /\ Current(d) \in Reachable)
         /\ \A i \in Accepting : SF_vars(Accept(d) /\ cur[d] = i)
         /\ \A k \in ReachableKey : SF_vars(CloseOk(d, k) /\ Closable(k))

FairSpec == Spec /\ Fairness

-----------------------------------------------------------------------------
(* Safety. *)

\* Nothing a user times leaves the machine before Push was pressed for it:
\* the daemon reads a flag the app wrote, from memory that may be stale.
OnlyAskedLeaves == \A i \in Row : sent[i] > 0 => i \in asked

\* A session with a work-log id has a work log upstream.
SignatureIsEarned == \A i \in signed : sent[i] > 0

\* The signature is what stops a double push: a session reaches the provider
\* once a daemon, and once more for each acceptance that was never recorded.
\* With one daemon that is once, unless something broke: each of these was a fault.
NoNeedlessResend ==
    \A i \in Row : sent[i] <= Cardinality(Daemon) + lost[i] /\ lost[i] <= faults

\* "Pushed - Complete" claims the provider was told: only MarkCompletionPushed
\* may write it, and only after the provider accepted the completion.
CompleteStatusIsEarned ==
    \A i \in rows : status[i] = "PushedComplete" => told[link[i]] > 0

\* With one daemon, a row left at "Pushing" by a crash is one the next cycle
\* finds again: no session is wedged in that state.
PushingIsRecovered ==
    \A i \in rows : status[i] = "Pushing" => i \in PendingPush(ProviderOf[link[i]])

\* A provider is told of an issue only after the user completed a session of it
\* that a press of Push covered, however stale the list the daemon works from.
Prompted(k) == \E i \in asked \cap rows : link[i] = k /\ comment[i] # ""
OnlyCompletedIsTold == \A k \in Key : told[k] > 0 => Prompted(k)

\* With one daemon, the status of a session with a work-log id says so and only
\* moves on: no late rollback or Pushing mark lands on it, and once it was
\* completed upstream no reopening makes the daemon complete it again.
PushedMovesOn ==
    [][\A i \in signed' :
          /\ status'[i] \in {"Pushed", "PushedComplete"}
          /\ i \in signed /\ status[i] = "PushedComplete" => ~CompletionOwed(i)']_vars

\* What PendingPush listed and the daemon has not reached yet is still to be
\* pushed when its turn comes, however long the requests before it took.
QueueStaysCurrent ==
    \A d \in Daemon : queue[d] # {} => queue[d] \subseteq PendingPush(Current(d))

\* The protocol, whatever the number of daemons, implements the ledger a user
\* is entitled to: queued, then delivered, then confirmed, and never back.
Ledger == INSTANCE SessionLedger WITH
    Session <- Row,
    queued <- asked,
    delivered <- {i \in Row : sent[i] > 0},
    confirmed <- signed

ImplementsLedger == Ledger!Spec

(* Liveness. *)

Enabled(p) == \E x \in 1..Len(Config) : Config[x] = p

\* A requested session the provider will take is pushed and recorded in the
\* end, whatever other sessions and other providers keep failing.
RequestedIsPushed ==
    \A i \in Accepting, p \in Reachable \cap CanPush :
        (i \in PendingPush(p) /\ Enabled(p)) ~> (i \in signed)

\* A requested completion ends on the row, unless the user reopens the task
\* first: also after a lost answer or a crash, if the provider takes it twice.
\* A provider that does not must at least have been told.
CompletionIsRecorded ==
    \A i \in Row, k \in {j \in ReachableKey : ProviderOf[j] \in CanClose} :
        (CompletionOwed(i) /\ link[i] = k /\ Enabled(ProviderOf[k]))
        ~> (status[i] = "PushedComplete" \/ ~Completed(i) \/ ~Closable(k))

(* What the repository says and the code does not do. *)

\* "Completing a task locally is still not a request to tell the provider"
\* (store_test.go): the provider closes only issues the user pressed Push for
\* after completing them.
OnlyApprovedCloses == \A k \in Key : told[k] > 0 => k \in approved

=============================================================================
