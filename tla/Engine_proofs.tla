----------------------------- MODULE Engine_proofs -----------------------------
(***************************************************************************)
(* Theorems about the reconcile protocol, for any number of sessions,      *)
(* issues, providers, daemons and faults.                                  *)
(***************************************************************************)
EXTENDS Engine, FiniteSetTheorems, TLAPS

LEMMA LenConfig == Len(Config) \in Nat
  BY EngineAssumption

\* Counting once more what happened to a session keeps the counters numbers.
LEMMA CountMore ==
  ASSUME NEW S, NEW f \in [S -> Nat], NEW x \in S
  PROVE  [f EXCEPT ![x] = @ + 1] \in [S -> Nat]
  <1>1. f[x] + 1 \in Nat
    OBVIOUS
  <1>2. QED
    BY <1>1

-----------------------------------------------------------------------------
(* The inductive invariant.                                                *)

\* The locations at which a session is in the daemon's hands.
Busy == {"send", "accepted", "failed", "unsupported"}

\* What a daemon holds in memory was requested: the flag is never taken back.
Held ==
    \A d \in Daemon :
        /\ queue[d] \subseteq requested
        /\ pc[d] \in Busy => cur[d] \in requested

\* Every session on its way out, or out already, was asked for.
Asked ==
    /\ requested \subseteq asked
    /\ OnlyAskedLeaves

\* An acceptance is on record before the signature is.
Earned ==
    /\ SignatureIsEarned
    /\ \A d \in Daemon : pc[d] = "accepted" => sent[cur[d]] > 0

PushInv == TypeOK /\ Held /\ Asked /\ Earned

\* What a provider was told, or may yet be told from a daemon's memory, was
\* completed and asked for.
PromptedInv ==
    /\ OnlyCompletedIsTold
    /\ \A d \in Daemon : \A k \in keys[d] : Prompted(k)

\* The provider was told before the daemon stamps the completion.
ToldInv ==
    /\ \A i \in rows : status[i] = "PushedComplete" => Linked(i) /\ told[link[i]] > 0
    /\ \A d \in Daemon : pc[d] = "told" => closing[d] \in Key /\ told[closing[d]] > 0

\* d delivered session i and can never send it again: it is not in its queue,
\* and either its acceptance is still in hand or the signature keeps it out.
Done(d, i) ==
    /\ i \notin queue[d]
    /\ (pc[d] = "accepted" /\ cur[d] = i) \/ i \in signed
    /\ (pc[d] \in Busy /\ cur[d] = i) => pc[d] = "accepted"

\* f[i] are the daemons whose delivery of i is in hand or on record.
Attributed(f, i) ==
    /\ sent[i] = lost[i] + Cardinality(f[i])
    /\ \A d \in f[i] : Done(d, i)
    /\ \A d \in Daemon : pc[d] = "accepted" /\ cur[d] = i => d \in f[i]

ResendInv ==
    /\ \A d \in Daemon : pc[d] \in Busy => cur[d] \notin queue[d]
    /\ \E f \in [Row -> SUBSET Daemon] : \A i \in Row : Attributed(f, i)

\* A row that carries its work-log id shows it.
SignedLooksPushed ==
    \A i \in signed : status[i] \in {"Pushed", "PushedComplete"}

\* With one daemon nothing it holds in memory goes stale.
SoloInv ==
    /\ QueueStaysCurrent
    /\ \A d \in Daemon :
         /\ queue[d] # {} => pc[d] \in Busy \cup {"next"}
         /\ pc[d] \in Busy => cur[d] \in PendingPush(Current(d)) /\ cur[d] \notin queue[d]
    /\ PushingIsRecovered
    /\ SignedLooksPushed

-----------------------------------------------------------------------------
(* Type correctness. *)

LEMMA CompletedKeysTyped == TypeOK => CompletedKeys \subseteq Key
  <1> SUFFICES ASSUME TypeOK PROVE CompletedKeys \subseteq Key
    OBVIOUS
  <1>1. \A i \in rows : Linked(i) => link[i] \in Key
    BY DEF Linked, TypeOK, StoreTypeOK
  <1>2. QED
    BY <1>1 DEF CompletedKeys

LEMMA AppTyped == TypeOK /\ App => TypeOK'
  <1> SUFFICES ASSUME TypeOK, App PROVE TypeOK'
    OBVIOUS
  <1> USE StoreAssumption, EngineAssumption DEF TypeOK, StoreTypeOK
  <1>1. ASSUME NEW i \in Row, NEW n \in Name, NEW k \in Key \cup {NoKey},
               SaveSession(i, n, k)
        PROVE  TypeOK'
    BY <1>1 DEF SaveSession, Save, daemonVars, obsVars, Comment, Status
  <1>2. ASSUME NEW i \in Row, CompleteTask(i) PROVE TypeOK'
    BY <1>2 DEF CompleteTask, Complete, daemonVars, obsVars, Comment
  <1>3. ASSUME NEW i \in Row, ReopenTask(i) PROVE TypeOK'
    BY <1>3 DEF ReopenTask, Reopen, daemonVars, obsVars, Comment
  <1>4. CASE PressPush
    <2>1. approved' \subseteq Key
      BY <1>4, CompletedKeysTyped DEF PressPush
    <2>2. requested' \subseteq rows
      BY <1>4 DEF PressPush, MarkSessions
    <2>3. asked' \subseteq Row
      BY <1>4 DEF PressPush
    <2>4. QED
      BY <1>4, <2>1, <2>2, <2>3 DEF PressPush, MarkSessions, daemonVars
  <1>5. CASE FinishPress
    <2>1. approved' \subseteq Key
      BY <1>5, CompletedKeysTyped DEF FinishPress
    <2>2. requested' \subseteq rows
      BY <1>5 DEF FinishPress, MarkCompletions
    <2>3. asked' \subseteq Row
      BY <1>5 DEF FinishPress
    <2>4. QED
      BY <1>5, <2>1, <2>2, <2>3 DEF FinishPress, MarkCompletions, daemonVars
  <1>6. CASE BreakPress
    <2>1. faults' \in 0..MaxFaults
      BY <1>6 DEF BreakPress
    <2>2. QED
      BY <1>6, <2>1 DEF BreakPress, storeVars, daemonVars
  <1>7. QED
    BY <1>1, <1>2, <1>3, <1>4, <1>5, <1>6 DEF App

LEMMA NextProviderTyped ==
  ASSUME TypeOK, NEW d \in Daemon, NextProvider(d)
  PROVE  /\ pc' \in [Daemon -> PC]
         /\ at' \in [Daemon -> 0..Len(Config)]
         /\ queue' \in [Daemon -> SUBSET Row]
         /\ keys' \in [Daemon -> SUBSET Key]
         /\ cur' \in [Daemon -> Row \cup {NoRow}]
         /\ closing' \in [Daemon -> Key \cup {NoKey}]
  <1>1. pc' \in [Daemon -> PC]
    BY DEF TypeOK, NextProvider, Goto, PC
  <1>2. at' \in [Daemon -> 0..Len(Config)]
    BY LenConfig DEF TypeOK, NextProvider
  <1>3. QED
    BY <1>1, <1>2 DEF TypeOK, NextProvider

LEMMA CycleTyped ==
  ASSUME TypeOK, Held, NEW d \in Daemon, Cycle(d)
  PROVE  TypeOK'
  <1> USE StoreAssumption, EngineAssumption, LenConfig DEF TypeOK, StoreTypeOK, Goto
  <1> USE DEF obsVars, storeVars, PC
  <1>1. CASE StartCycle(d)
    <2>1. at' \in [Daemon -> 0..Len(Config)]
      BY <1>1 DEF StartCycle
    <2>2. pc' \in [Daemon -> PC]
      BY <1>1 DEF StartCycle
    <2>3. QED
      BY <1>1, <2>1, <2>2 DEF StartCycle
  <1>2. CASE PullOk(d)
    BY <1>2 DEF PullOk
  <1>3. CASE PullFails(d)
    BY <1>3, NextProviderTyped DEF PullFails
  <1>4. CASE ScanPush(d)
    <2>1. PendingPush(Current(d)) \subseteq Row
      BY DEF PendingPush
    <2>2. QED
      BY <1>4, <2>1 DEF ScanPush
  <1>5. CASE PushDone(d)
    BY <1>5 DEF PushDone
  <1>6. ASSUME NEW i \in Row, BeginPush(d, i) PROVE TypeOK'
    BY <1>6 DEF BeginPush, SetStatus, Status
  <1>7. CASE Accept(d)
    <2>1. cur[d] \in Row
      BY <1>7 DEF Accept, Held, Busy
    <2>2. sent' \in [Row -> Nat]
      BY <1>7, <2>1, CountMore DEF Accept
    <2>3. QED
      BY <1>7, <2>2 DEF Accept
  <1>8. CASE Reject(d)
    BY <1>8 DEF Reject
  <1>9. CASE PushUnsupported(d)
    BY <1>9 DEF PushUnsupported
  <1>10. CASE RecordPushed(d)
    <2>1. cur[d] \in rows
      BY <1>10 DEF RecordPushed, Held, Busy
    <2>2. QED
      BY <1>10, <2>1 DEF RecordPushed, MarkPushed, Status
  <1>11. CASE RollBack(d)
    BY <1>11 DEF RollBack, SetStatus, Status
  <1>12. CASE SkipPush(d)
    BY <1>12 DEF SkipPush, SetStatus, Status
  <1>13. CASE ScanCompletions(d)
    <2>1. PendingCompletions(Current(d)) \subseteq Key
      BY DEF PendingCompletions
    <2>2. QED
      BY <1>13, <2>1 DEF ScanCompletions
  <1>14. CASE CompleteDone(d)
    BY <1>14, NextProviderTyped DEF CompleteDone
  <1>15. ASSUME NEW k \in Key, CloseOk(d, k) PROVE TypeOK'
    BY <1>15 DEF CloseOk, CloseIssue, ToldCap
  <1>16. ASSUME NEW k \in Key, CloseFails(d, k) PROVE TypeOK'
    BY <1>16 DEF CloseFails
  <1>17. CASE RecordClosed(d)
    BY <1>17 DEF RecordClosed, MarkCompletionPushed, Status
  <1>18. QED
    BY <1>1, <1>2, <1>3, <1>4, <1>5, <1>6, <1>7, <1>8, <1>9, <1>10, <1>11, <1>12,
       <1>13, <1>14, <1>15, <1>16, <1>17 DEF Cycle, Push, CompleteTasks

LEMMA ForgetTyped ==
  ASSUME TypeOK, Held, NEW d \in Daemon, Forget(d)
  PROVE  lost' \in [Row -> Nat]
  <1>1. CASE pc[d] = "accepted"
    <2>1. cur[d] \in Row
      BY <1>1 DEF TypeOK, StoreTypeOK, Held, Busy
    <2>2. QED
      BY <1>1, <2>1, CountMore DEF TypeOK, Forget
  <1>2. CASE pc[d] # "accepted"
    BY <1>2 DEF TypeOK, Forget
  <1>3. QED
    BY <1>1, <1>2

LEMMA FaultTyped ==
  ASSUME TypeOK, Held, NEW d \in Daemon, Fault(d)
  PROVE  TypeOK'
  <1> USE StoreAssumption, EngineAssumption, LenConfig DEF TypeOK, StoreTypeOK, Goto
  <1> USE DEF storeVars, PC
  <1>1. faults < MaxFaults /\ faults' = faults + 1
    BY DEF Fault, AcceptUnheard, CloseUnheard, StoreFails, Die
  <1>2. faults' \in 0..MaxFaults
    BY <1>1
  <1>3. CASE AcceptUnheard(d)
    <2>1. cur[d] \in Row
      BY <1>3 DEF AcceptUnheard, Held, Busy
    <2>2. sent' \in [Row -> Nat]
      BY <1>3, <2>1, CountMore DEF AcceptUnheard
    <2>3. lost' \in [Row -> Nat]
      BY <1>3, <2>1, CountMore DEF AcceptUnheard
    <2>4. QED
      BY <1>2, <1>3, <2>2, <2>3 DEF AcceptUnheard
  <1>4. ASSUME NEW k \in Key, CloseUnheard(d, k) PROVE TypeOK'
    <2>1. told' \in [Key -> 0..ToldCap]
      BY <1>4 DEF CloseUnheard, CloseIssue, ToldCap
    <2>2. QED
      BY <1>2, <1>4, <2>1 DEF CloseUnheard
  <1>5. CASE StoreFails(d)
    BY <1>2, <1>5, NextProviderTyped, ForgetTyped DEF StoreFails
  <1>6. CASE Die(d)
    <2>1. lost' \in [Row -> Nat]
      BY <1>6, ForgetTyped DEF Die
    <2>2. QED
      BY <1>2, <1>6, <2>1 DEF Die
  <1>7. QED
    BY <1>3, <1>4, <1>5, <1>6 DEF Fault

LEMMA InitTyped == Init => TypeOK
  <1> SUFFICES ASSUME Init PROVE TypeOK
    OBVIOUS
  <1>1. StoreTypeOK
    BY DEF Init, StoreInit, StoreTypeOK, Comment, Status
  <1>2. 0 \in 0..Len(Config) /\ 0 \in 0..MaxPresses /\ 0 \in 0..MaxFaults /\ 0 \in 0..ToldCap
    BY EngineAssumption, LenConfig DEF ToldCap
  <1>3. QED
    BY <1>1, <1>2 DEF Init, TypeOK, PC, NoRow

LEMMA NextTyped == TypeOK /\ Held /\ [Next]_vars => TypeOK'
  <1> SUFFICES ASSUME TypeOK, Held, [Next]_vars PROVE TypeOK'
    OBVIOUS
  <1>1. CASE UNCHANGED vars
    BY <1>1 DEF vars, storeVars, daemonVars, obsVars, TypeOK, StoreTypeOK
  <1>2. CASE Next
    BY <1>2, AppTyped, CycleTyped, FaultTyped DEF Next
  <1>3. QED
    BY <1>1, <1>2

-----------------------------------------------------------------------------
(* What each half of the system leaves alone. *)

LEMMA AppFrame ==
  ASSUME App
  PROVE  /\ UNCHANGED <<daemonVars, signed, sent, lost, told>>
         /\ requested \subseteq requested'
         /\ asked \subseteq asked'
  <1> USE DEF daemonVars, storeVars, obsVars
  <1>1. ASSUME NEW i \in Row, NEW n \in Name, NEW k \in Key \cup {NoKey},
               SaveSession(i, n, k)
        PROVE  UNCHANGED <<daemonVars, signed, requested, sent, lost, told, asked>>
    BY <1>1 DEF SaveSession, Save
  <1>2. ASSUME NEW i \in Row, CompleteTask(i) \/ ReopenTask(i)
        PROVE  UNCHANGED <<daemonVars, signed, requested, sent, lost, told, asked>>
    BY <1>2 DEF CompleteTask, Complete, ReopenTask, Reopen
  <1>3. CASE PressPush
    BY <1>3 DEF PressPush, MarkSessions
  <1>4. CASE FinishPress
    BY <1>4 DEF FinishPress, MarkCompletions
  <1>5. CASE BreakPress
    BY <1>5 DEF BreakPress
  <1>6. QED
    BY <1>1, <1>2, <1>3, <1>4, <1>5 DEF App

LEMMA DaemonFrame ==
  ASSUME NEW d \in Daemon, Cycle(d) \/ Fault(d)
  PROVE  UNCHANGED <<rows, name, link, comment, requested, presses, asked, approved>>
  <1> USE DEF storeVars, obsVars
  <1>1. CASE StartCycle(d) \/ PullOk(d) \/ PullFails(d)
    BY <1>1 DEF StartCycle, PullOk, PullFails
  <1>2. CASE Push(d)
    BY <1>2 DEF Push, ScanPush, PushDone, BeginPush, Accept, Reject, PushUnsupported,
                RecordPushed, RollBack, SkipPush, SetStatus, MarkPushed
  <1>3. CASE CompleteTasks(d)
    BY <1>3 DEF CompleteTasks, ScanCompletions, CompleteDone, CloseOk, CloseFails,
                RecordClosed, MarkCompletionPushed
  <1>4. CASE Fault(d)
    BY <1>4 DEF Fault, AcceptUnheard, CloseUnheard, StoreFails, Die
  <1>5. QED
    BY <1>1, <1>2, <1>3, <1>4 DEF Cycle

LEMMA OthersFrame ==
  ASSUME TypeOK, NEW d \in Daemon, Cycle(d) \/ Fault(d), NEW e \in Daemon, e # d
  PROVE  /\ pc'[e] = pc[e] /\ at'[e] = at[e] /\ queue'[e] = queue[e]
         /\ cur'[e] = cur[e] /\ closing'[e] = closing[e]
  <1> USE DEF TypeOK, Goto, NextProvider
  <1>1. CASE StartCycle(d) \/ PullOk(d) \/ PullFails(d)
    BY <1>1 DEF StartCycle, PullOk, PullFails
  <1>2. CASE Push(d)
    BY <1>2 DEF Push, ScanPush, PushDone, BeginPush, Accept, Reject, PushUnsupported,
                RecordPushed, RollBack, SkipPush
  <1>3. CASE CompleteTasks(d)
    BY <1>3 DEF CompleteTasks, ScanCompletions, CompleteDone, CloseOk, CloseFails,
                RecordClosed
  <1>4. CASE Fault(d)
    BY <1>4 DEF Fault, AcceptUnheard, CloseUnheard, StoreFails, Die
  <1>5. QED
    BY <1>1, <1>2, <1>3, <1>4 DEF Cycle

-----------------------------------------------------------------------------
(* Nothing is sent that was not asked for, nothing is signed unsent.        *)

LEMMA HeldStep == TypeOK /\ Held /\ [Next]_vars => Held'
  <1> SUFFICES ASSUME TypeOK, Held, [Next]_vars PROVE Held'
    OBVIOUS
  <1>1. CASE UNCHANGED vars
    BY <1>1 DEF vars, storeVars, daemonVars, Held
  <1>2. CASE App
    BY <1>2, AppFrame DEF Held, daemonVars
  <1>3. ASSUME NEW d \in Daemon, Cycle(d) \/ Fault(d) PROVE Held'
    <2> USE DEF TypeOK, Held, Busy, Goto, NextProvider
    <2>1. requested' = requested
      BY <1>3, DaemonFrame
    <2>2. queue'[d] \subseteq requested /\ (pc'[d] \in Busy => cur'[d] \in requested)
      <3>1. CASE StartCycle(d) \/ PullOk(d) \/ PullFails(d)
        BY <3>1 DEF StartCycle, PullOk, PullFails
      <3>2. CASE ScanPush(d)
        BY <3>2 DEF ScanPush, PendingPush
      <3>3. ASSUME NEW i \in Row, BeginPush(d, i)
            PROVE  queue'[d] \subseteq requested /\ cur'[d] \in requested
        BY <3>3 DEF BeginPush
      <3>4. CASE PushDone(d) \/ Accept(d) \/ Reject(d) \/ PushUnsupported(d)
        BY <3>4 DEF PushDone, Accept, Reject, PushUnsupported
      <3>5. CASE RecordPushed(d) \/ RollBack(d) \/ SkipPush(d)
        BY <3>5 DEF RecordPushed, RollBack, SkipPush
      <3>6. CASE CompleteTasks(d)
        BY <3>6 DEF CompleteTasks, ScanCompletions, CompleteDone, CloseOk, CloseFails,
                    RecordClosed
      <3>7. CASE Fault(d)
        BY <3>7 DEF Fault, AcceptUnheard, CloseUnheard, StoreFails, Die
      <3>8. QED
        BY <1>3, <3>1, <3>2, <3>3, <3>4, <3>5, <3>6, <3>7 DEF Cycle, Push
    <2>3. QED
      BY <1>3, <2>1, <2>2, OthersFrame
  <1>4. QED
    BY <1>1, <1>2, <1>3 DEF Next

\* A session the provider counts for the first time was in a daemon's hands.
LEMMA SentFrame ==
  ASSUME TypeOK, NEW d \in Daemon, Cycle(d) \/ Fault(d), NEW i \in Row
  PROVE  \/ sent'[i] = sent[i]
         \/ pc[d] = "send" /\ cur[d] = i /\ sent'[i] = sent[i] + 1
  <1> USE DEF TypeOK, obsVars
  <1>1. CASE StartCycle(d) \/ PullOk(d) \/ PullFails(d)
    BY <1>1 DEF StartCycle, PullOk, PullFails
  <1>2. CASE Push(d)
    BY <1>2 DEF Push, ScanPush, PushDone, BeginPush, Accept, Reject, PushUnsupported,
                RecordPushed, RollBack, SkipPush
  <1>3. CASE CompleteTasks(d)
    BY <1>3 DEF CompleteTasks, ScanCompletions, CompleteDone, CloseOk, CloseFails,
                RecordClosed
  <1>4. CASE Fault(d)
    BY <1>4 DEF Fault, AcceptUnheard, CloseUnheard, StoreFails, Die
  <1>5. QED
    BY <1>1, <1>2, <1>3, <1>4 DEF Cycle

LEMMA SignedFrame ==
  ASSUME NEW d \in Daemon, Cycle(d) \/ Fault(d)
  PROVE  \/ signed' = signed
         \/ pc[d] = "accepted" /\ signed' = signed \cup {cur[d]}
  <1> USE DEF storeVars, obsVars
  <1>1. CASE StartCycle(d) \/ PullOk(d) \/ PullFails(d)
    BY <1>1 DEF StartCycle, PullOk, PullFails
  <1>2. CASE Push(d)
    BY <1>2 DEF Push, ScanPush, PushDone, BeginPush, Accept, Reject, PushUnsupported,
                RecordPushed, RollBack, SkipPush, SetStatus, MarkPushed
  <1>3. CASE CompleteTasks(d)
    BY <1>3 DEF CompleteTasks, ScanCompletions, CompleteDone, CloseOk, CloseFails,
                RecordClosed, MarkCompletionPushed
  <1>4. CASE Fault(d)
    BY <1>4 DEF Fault, AcceptUnheard, CloseUnheard, StoreFails, Die
  <1>5. QED
    BY <1>1, <1>2, <1>3, <1>4 DEF Cycle

LEMMA AskedStep == PushInv /\ [Next]_vars => Asked'
  <1> SUFFICES ASSUME PushInv, [Next]_vars PROVE Asked'
    OBVIOUS
  <1> USE DEF PushInv, Asked, OnlyAskedLeaves
  <1>1. CASE UNCHANGED vars
    BY <1>1 DEF vars, storeVars, daemonVars, obsVars
  <1>2. ASSUME NEW i \in Row, NEW n \in Name, NEW k \in Key \cup {NoKey},
               SaveSession(i, n, k)
        PROVE  Asked'
    BY <1>2 DEF SaveSession, Save, obsVars
  <1>3. ASSUME NEW i \in Row, CompleteTask(i) \/ ReopenTask(i) PROVE Asked'
    BY <1>3 DEF CompleteTask, Complete, ReopenTask, Reopen, obsVars
  <1>4. CASE PressPush
    BY <1>4 DEF PressPush, MarkSessions
  <1>5. CASE FinishPress
    \* A linked row that is already signed was sent, and so asked for before.
    <2>1. \A i \in rows : Linked(i) /\ Completed(i) => i \in asked'
      BY <1>5 DEF FinishPress, PushEligible, Earned, SignatureIsEarned, TypeOK, StoreTypeOK
    <2>2. QED
      BY <1>5, <2>1 DEF FinishPress, MarkCompletions
  <1>6. CASE BreakPress
    BY <1>6 DEF BreakPress, storeVars
  <1>7. ASSUME NEW d \in Daemon, Cycle(d) \/ Fault(d) PROVE Asked'
    <2>1. \A i \in Row : sent'[i] > 0 => i \in asked
      BY <1>7, SentFrame DEF Held, Busy
    <2>2. QED
      BY <1>7, <2>1, DaemonFrame
  <1>8. QED
    BY <1>1, <1>2, <1>3, <1>4, <1>5, <1>6, <1>7 DEF Next, App

\* Only Accept leads to the location where an acceptance is in hand.
LEMMA AcceptedFrame ==
  ASSUME TypeOK, NEW d \in Daemon, Cycle(d) \/ Fault(d), pc'[d] = "accepted"
  PROVE  Accept(d)
  <1> USE DEF TypeOK, Goto, NextProvider
  <1>1. CASE StartCycle(d) \/ PullOk(d) \/ PullFails(d)
    BY <1>1 DEF StartCycle, PullOk, PullFails
  <1>2. CASE Push(d)
    BY <1>2 DEF Push, ScanPush, PushDone, BeginPush, Reject, PushUnsupported,
                RecordPushed, RollBack, SkipPush
  <1>3. CASE CompleteTasks(d)
    BY <1>3 DEF CompleteTasks, ScanCompletions, CompleteDone, CloseOk, CloseFails,
                RecordClosed
  <1>4. CASE Fault(d)
    BY <1>4 DEF Fault, AcceptUnheard, CloseUnheard, StoreFails, Die
  <1>5. QED
    BY <1>1, <1>2, <1>3, <1>4 DEF Cycle

LEMMA EarnedStep == PushInv /\ [Next]_vars => Earned'
  <1> SUFFICES ASSUME PushInv, [Next]_vars PROVE Earned'
    OBVIOUS
  <1>0. TypeOK /\ Held /\ Earned /\ \A i \in Row : sent[i] \in Nat
    BY DEF PushInv, TypeOK
  <1>1. CASE UNCHANGED vars
    BY <1>0, <1>1 DEF vars, storeVars, daemonVars, obsVars, Earned, SignatureIsEarned
  <1>2. CASE App
    BY <1>0, <1>2, AppFrame DEF daemonVars, Earned, SignatureIsEarned
  <1>3. ASSUME NEW d \in Daemon, Cycle(d) \/ Fault(d) PROVE Earned'
    <2>1. \A i \in Row : sent[i] > 0 => sent'[i] > 0
      BY <1>0, <1>3, SentFrame
    <2>2. \A e \in Daemon : pc[e] = "accepted" => cur[e] \in Row /\ sent[cur[e]] > 0
      BY <1>0 DEF Held, Earned, Busy, TypeOK, StoreTypeOK
    <2>3. SignatureIsEarned'
      <3>1. signed \subseteq Row
        BY <1>0 DEF TypeOK, StoreTypeOK
      <3>2. QED
        BY <1>0, <1>3, <2>1, <2>2, <3>1, SignedFrame DEF Earned, SignatureIsEarned
    <2>4. pc'[d] = "accepted" => sent'[cur'[d]] > 0
      <3>1. SUFFICES ASSUME pc'[d] = "accepted" PROVE sent'[cur'[d]] > 0
        OBVIOUS
      <3>2. Accept(d) /\ cur[d] \in Row
        BY <1>0, <1>3, <3>1, AcceptedFrame DEF Accept, Held, Busy, TypeOK, StoreTypeOK
      <3>3. sent'[cur[d]] = sent[cur[d]] + 1 /\ cur' = cur
        BY <1>0, <3>2 DEF Accept, TypeOK
      <3>4. QED
        BY <1>0, <3>2, <3>3
    <2>5. \A e \in Daemon : pc'[e] = "accepted" => sent'[cur'[e]] > 0
      BY <1>0, <1>3, <2>1, <2>2, <2>4, OthersFrame
    <2>6. QED
      BY <2>3, <2>5 DEF Earned
  <1>4. QED
    BY <1>1, <1>2, <1>3 DEF Next

LEMMA PushInvInit == Init => PushInv
  <1> SUFFICES ASSUME Init PROVE PushInv
    OBVIOUS
  <1>1. Held
    BY DEF Init, Held, Busy
  <1>2. Asked
    <2>1. \A i \in Row : sent[i] = 0
      BY DEF Init
    <2>2. OnlyAskedLeaves
      BY <2>1 DEF OnlyAskedLeaves
    <2>3. QED
      BY <2>2 DEF Init, StoreInit, Asked
  <1>3. Earned
    BY DEF Init, StoreInit, Earned, SignatureIsEarned
  <1>4. QED
    BY <1>1, <1>2, <1>3, InitTyped DEF PushInv

LEMMA PushInvStep == PushInv /\ [Next]_vars => PushInv'
  BY NextTyped, HeldStep, AskedStep, EarnedStep DEF PushInv

LEMMA PushInvariant == Spec => []PushInv
  BY PushInvInit, PushInvStep, PTL DEF Spec

\* Every column, every daemon's memory and every counter keeps its type,
\* however the app's and the daemons' statements interleave.
THEOREM TypeCorrect == Spec => []TypeOK
  <1>1. PushInv => TypeOK
    BY DEF PushInv
  <1>2. QED
    BY <1>1, PushInvariant, PTL

\* The desktop app keeps its promise that nothing leaves the machine before
\* Push is pressed for it, with any number of daemons working from snapshots
\* of the table and any crash.
THEOREM OnlyAskedLeavesAlways == Spec => []OnlyAskedLeaves
  <1>1. PushInv => OnlyAskedLeaves
    BY DEF PushInv, Asked
  <1>2. QED
    BY <1>1, PushInvariant, PTL

\* MarkPushed runs only after the provider accepted the session.
THEOREM SignatureIsEarnedAlways == Spec => []SignatureIsEarned
  <1>1. PushInv => SignatureIsEarned
    BY DEF PushInv, Earned
  <1>2. QED
    BY <1>1, PushInvariant, PTL

-----------------------------------------------------------------------------
(* The protocol implements the session ledger. *)

LEMMA LedgerInit == Init => Ledger!Init
  <1> SUFFICES ASSUME Init PROVE Ledger!Init
    OBVIOUS
  <1>1. \A i \in Row : sent[i] = 0
    BY DEF Init
  <1>2. {i \in Row : sent[i] > 0} = {}
    BY <1>1
  <1>3. QED
    BY <1>2 DEF Init, StoreInit, Ledger!Init

LEMMA LedgerStep == PushInv /\ [Next]_vars => [Ledger!Next]_(Ledger!ledgerVars)
  <1> DEFINE delivered == {i \in Row : sent[i] > 0}
  <1> SUFFICES ASSUME PushInv, [Next]_vars
               PROVE  Ledger!Next \/ UNCHANGED <<asked, delivered, signed>>
    BY DEF Ledger!ledgerVars
  <1>0. TypeOK /\ Held /\ Asked /\ Earned /\ (\A i \in Row : sent[i] \in Nat) /\ asked' \subseteq Row
    BY NextTyped DEF PushInv, TypeOK
  <1>1. CASE UNCHANGED vars
    BY <1>1 DEF vars, storeVars, obsVars
  <1>2. CASE App
    \* Pressing Push queues what it newly asks for; the rest stutters.
    <2>1. UNCHANGED <<delivered, signed>> /\ asked \subseteq asked'
      BY <1>2, AppFrame
    <2>2. Ledger!Queue(asked' \ asked)
      BY <2>1 DEF Ledger!Queue
    <2>3. QED
      BY <1>0, <2>2 DEF Ledger!Next
  <1>3. ASSUME NEW d \in Daemon, Cycle(d) \/ Fault(d)
        PROVE  Ledger!Next \/ UNCHANGED <<asked, delivered, signed>>
    <2>1. asked' = asked
      BY <1>3, DaemonFrame
    <2>2. CASE pc[d] = "send"
      <3>1. signed' = signed
        BY <1>3, <2>2, SignedFrame
      <3>2. PICK s \in Row : s = cur[d] /\ s \in asked
        BY <1>0, <2>2 DEF Held, Asked, Busy, TypeOK, StoreTypeOK
      <3>3. \A i \in Row : sent'[i] = sent[i] \/ (i = s /\ sent'[i] = sent[i] + 1)
        BY <1>0, <1>3, <3>2, SentFrame
      <3>4. delivered' = delivered \/ delivered' = delivered \cup {s}
        BY <1>0, <3>2, <3>3
      <3>5. delivered' = delivered \/ Ledger!Deliver(s)
        BY <2>1, <3>1, <3>2, <3>4 DEF Ledger!Deliver
      <3>6. Ledger!Deliver(s) => Ledger!Next
        BY DEF Ledger!Next
      <3>7. QED
        BY <2>1, <3>1, <3>5, <3>6
    <2>3. CASE pc[d] = "accepted"
      <3>1. delivered' = delivered
        BY <1>0, <1>3, <2>3, SentFrame
      <3>2. PICK s \in Row : s = cur[d] /\ s \in delivered
        BY <1>0, <2>3 DEF Held, Earned, Busy, TypeOK, StoreTypeOK
      <3>3. signed' = signed \/ Ledger!Confirm(s)
        BY <1>3, <2>1, <3>1, <3>2, SignedFrame DEF Ledger!Confirm
      <3>4. Ledger!Confirm(s) => Ledger!Next
        BY DEF Ledger!Next
      <3>5. QED
        BY <2>1, <3>1, <3>3, <3>4
    <2>4. CASE pc[d] \notin {"send", "accepted"}
      BY <1>0, <1>3, <2>1, <2>4, SentFrame, SignedFrame
    <2>5. QED
      BY <2>2, <2>3, <2>4
  <1>4. QED
    BY <1>1, <1>2, <1>3 DEF Next

\* The whole protocol, with its snapshots, crashes and lost answers, is an
\* implementation of the ledger: queued, delivered and confirmed only grow,
\* in that order, one session at a time past the queue.
THEOREM ImplementsTheLedger == Spec => ImplementsLedger
  BY LedgerInit, LedgerStep, PushInvariant, PTL DEF ImplementsLedger, Spec, Ledger!Spec

-----------------------------------------------------------------------------
(* "Pushed - Complete" is earned. *)

LEMMA CloseIssueTells ==
  ASSUME TypeOK, NEW k \in Key, CloseIssue(k)
  PROVE  /\ told'[k] > 0
         /\ \A j \in Key : told[j] > 0 => told'[j] > 0
  <1>1. told \in [Key -> 0..2]
    BY DEF TypeOK, ToldCap
  <1>2. \A j \in Key : told[j] \in Nat
    BY <1>1
  <1>3. \A j \in Key : told'[j] = IF j = k /\ told[k] < ToldCap THEN told[k] + 1 ELSE told[j]
    BY <1>1 DEF CloseIssue
  <1>4. QED
    BY <1>2, <1>3 DEF ToldCap

\* Completions told are never untold.
LEMMA ToldFrame ==
  ASSUME TypeOK, NEW d \in Daemon, Cycle(d) \/ Fault(d)
  PROVE  \A k \in Key : told[k] > 0 => told'[k] > 0
  <1> USE DEF obsVars
  <1>1. CASE StartCycle(d) \/ PullOk(d) \/ PullFails(d)
    BY <1>1 DEF StartCycle, PullOk, PullFails
  <1>2. CASE Push(d)
    BY <1>2 DEF Push, ScanPush, PushDone, BeginPush, Accept, Reject, PushUnsupported,
                RecordPushed, RollBack, SkipPush
  <1>3. CASE CompleteTasks(d)
    BY <1>3, CloseIssueTells
       DEF CompleteTasks, ScanCompletions, CompleteDone, CloseOk, CloseFails, RecordClosed
  <1>4. CASE Fault(d)
    BY <1>4, CloseIssueTells DEF Fault, AcceptUnheard, CloseUnheard, StoreFails, Die
  <1>5. QED
    BY <1>1, <1>2, <1>3, <1>4 DEF Cycle

\* Only CloseOk leads to the location where a completion is to be stamped.
LEMMA ClosingFrame ==
  ASSUME TypeOK, NEW d \in Daemon, Cycle(d) \/ Fault(d), pc'[d] = "told"
  PROVE  \E k \in Key : CloseOk(d, k)
  <1> USE DEF TypeOK, Goto, NextProvider
  <1>1. CASE StartCycle(d) \/ PullOk(d) \/ PullFails(d)
    BY <1>1 DEF StartCycle, PullOk, PullFails
  <1>2. CASE Push(d)
    BY <1>2 DEF Push, ScanPush, PushDone, BeginPush, Accept, Reject, PushUnsupported,
                RecordPushed, RollBack, SkipPush
  <1>3. CASE CompleteTasks(d)
    BY <1>3 DEF CompleteTasks, ScanCompletions, CompleteDone, CloseFails, RecordClosed
  <1>4. CASE Fault(d)
    BY <1>4 DEF Fault, AcceptUnheard, CloseUnheard, StoreFails, Die
  <1>5. QED
    BY <1>1, <1>2, <1>3, <1>4 DEF Cycle

\* A row turns "Pushed - Complete" only when MarkCompletionPushed stamps its issue.
LEMMA StampFrame ==
  ASSUME TypeOK, NEW d \in Daemon, Cycle(d) \/ Fault(d), NEW i \in rows,
         status'[i] = "PushedComplete"
  PROVE  \/ status[i] = "PushedComplete"
         \/ pc[d] = "told" /\ link[i] = closing[d]
  <1> USE DEF TypeOK, StoreTypeOK, storeVars
  <1>1. CASE StartCycle(d) \/ PullOk(d) \/ PullFails(d)
    BY <1>1 DEF StartCycle, PullOk, PullFails
  <1>2. CASE Push(d)
    BY <1>2 DEF Push, ScanPush, PushDone, BeginPush, Accept, Reject, PushUnsupported,
                RecordPushed, RollBack, SkipPush, SetStatus, MarkPushed
  <1>3. CASE CompleteTasks(d)
    BY <1>3 DEF CompleteTasks, ScanCompletions, CompleteDone, CloseOk, CloseFails,
                RecordClosed, MarkCompletionPushed
  <1>4. CASE Fault(d)
    BY <1>4 DEF Fault, AcceptUnheard, CloseUnheard, StoreFails, Die
  <1>5. QED
    BY <1>1, <1>2, <1>3, <1>4 DEF Cycle

\* The app never stamps a completion, and a new row is not born stamped.
LEMMA AppStampFrame ==
  ASSUME TypeOK, App, NEW i \in rows', status'[i] = "PushedComplete"
  PROVE  i \in rows /\ status[i] = "PushedComplete" /\ link'[i] = link[i]
  <1> USE DEF TypeOK, StoreTypeOK, storeVars
  <1>1. ASSUME NEW j \in Row, NEW n \in Name, NEW k \in Key \cup {NoKey},
               SaveSession(j, n, k)
        PROVE  i \in rows /\ status[i] = "PushedComplete" /\ link'[i] = link[i]
    <2>1. /\ j \in Row \ rows /\ rows' = rows \cup {j}
          /\ status' = [status EXCEPT ![j] = "Logged"] /\ link' = [link EXCEPT ![j] = k]
      BY <1>1 DEF SaveSession, Save
    <2>2. i # j
      BY <2>1
    <2>3. QED
      BY <2>1, <2>2
  <1>2. ASSUME NEW j \in Row, CompleteTask(j) \/ ReopenTask(j)
        PROVE  i \in rows /\ status[i] = "PushedComplete" /\ link'[i] = link[i]
    BY <1>2 DEF CompleteTask, Complete, ReopenTask, Reopen
  <1>3. CASE PressPush \/ FinishPress \/ BreakPress
    BY <1>3 DEF PressPush, MarkSessions, FinishPress, MarkCompletions, BreakPress
  <1>4. QED
    BY <1>1, <1>2, <1>3 DEF App

LEMMA ToldStep == TypeOK /\ ToldInv /\ [Next]_vars => ToldInv'
  <1> SUFFICES ASSUME TypeOK, ToldInv, [Next]_vars PROVE ToldInv'
    OBVIOUS
  <1>1. CASE UNCHANGED vars
    BY <1>1 DEF vars, storeVars, daemonVars, obsVars, ToldInv, Linked
  <1>2. CASE App
    BY <1>2, AppFrame, AppStampFrame DEF daemonVars, ToldInv, Linked
  <1>3. ASSUME NEW d \in Daemon, Cycle(d) \/ Fault(d) PROVE ToldInv'
    <2>1. rows' = rows /\ link' = link
      BY <1>3, DaemonFrame
    <2>2. \A k \in Key : told[k] > 0 => told'[k] > 0
      BY <1>3, ToldFrame
    <2>3. ASSUME NEW i \in rows, status'[i] = "PushedComplete"
          PROVE  Linked(i) /\ told'[link[i]] > 0
      <3>1. Linked(i) => link[i] \in Key
        BY DEF Linked, TypeOK, StoreTypeOK
      <3>2. \A k \in Key : k # NoKey
        BY StoreAssumption
      <3>3. Linked(i) /\ told[link[i]] > 0
        <4>1. CASE status[i] = "PushedComplete"
          BY <4>1 DEF ToldInv
        <4>2. CASE pc[d] = "told" /\ link[i] = closing[d]
          BY <3>2, <4>2 DEF ToldInv, Linked
        <4>3. QED
          BY <1>3, <2>3, <4>1, <4>2, StampFrame
      <3>4. QED
        BY <2>2, <3>1, <3>3
    <2>4. ASSUME pc'[d] = "told" PROVE closing'[d] \in Key /\ told'[closing'[d]] > 0
      <3>1. PICK k \in Key : CloseOk(d, k)
        BY <1>3, <2>4, ClosingFrame
      <3>2. closing'[d] = k /\ told'[k] > 0
        BY <3>1, CloseIssueTells DEF CloseOk, TypeOK
      <3>3. QED
        BY <3>2
    <2>5. \A e \in Daemon : pc'[e] = "told" => closing'[e] \in Key /\ told'[closing'[e]] > 0
      BY <1>3, <2>2, <2>4, OthersFrame DEF ToldInv
    <2>6. QED
      BY <2>1, <2>3, <2>5 DEF ToldInv, Linked
  <1>4. QED
    BY <1>1, <1>2, <1>3 DEF Next

\* Whatever is interleaved, a row says "Pushed - Complete" only if the provider
\* accepted the completion of its issue.
THEOREM CompleteStatusIsEarnedAlways == Spec => []CompleteStatusIsEarned
  <1>1. Init => ToldInv
    BY DEF Init, StoreInit, ToldInv
  <1>2. ToldInv => CompleteStatusIsEarned
    BY DEF ToldInv, CompleteStatusIsEarned
  <1>3. QED
    BY <1>1, <1>2, ToldStep, TypeCorrect, PTL DEF Spec

-----------------------------------------------------------------------------
(* No provider is told of an issue nobody completed. *)

\* A row stays in the table under its issue, and its comment, once there, stays
\* one or the other: a press and a completion are never undone.
LEMMA PromptedStays ==
  ASSUME TypeOK, [Next]_vars, NEW k \in Key, Prompted(k)
  PROVE  Prompted(k)'
  <1>1. PICK i \in asked \cap rows : link[i] = k /\ comment[i] # ""
    BY DEF Prompted
  <1>2. i \in asked' \cap rows' /\ link'[i] = k /\ comment'[i] # ""
    <2>1. CASE UNCHANGED vars
      BY <1>1, <2>1 DEF vars, storeVars, obsVars
    <2>2. ASSUME NEW j \in Row, NEW n \in Name, NEW l \in Key \cup {NoKey},
                 SaveSession(j, n, l)
          PROVE  i \in asked' \cap rows' /\ link'[i] = k /\ comment'[i] # ""
      BY <1>1, <2>2 DEF SaveSession, Save, obsVars, TypeOK, StoreTypeOK
    <2>3. ASSUME NEW j \in Row, CompleteTask(j) \/ ReopenTask(j)
          PROVE  i \in asked' \cap rows' /\ link'[i] = k /\ comment'[i] # ""
      <3>1. i \in Row /\ UNCHANGED <<asked, rows, link>>
        BY <1>1, <2>3 DEF CompleteTask, Complete, ReopenTask, Reopen, obsVars, TypeOK, StoreTypeOK
      <3>2. comment'[i] \in {comment[i], "completed", "re-opened"}
        BY <2>3, <3>1 DEF CompleteTask, Complete, ReopenTask, Reopen, TypeOK, StoreTypeOK
      <3>3. QED
        BY <1>1, <3>1, <3>2
    <2>4. CASE PressPush \/ FinishPress \/ BreakPress
      BY <1>1, <2>4 DEF PressPush, MarkSessions, FinishPress, MarkCompletions, BreakPress,
                        storeVars
    <2>5. ASSUME NEW d \in Daemon, Cycle(d) \/ Fault(d)
          PROVE  i \in asked' \cap rows' /\ link'[i] = k /\ comment'[i] # ""
      BY <1>1, <2>5, DaemonFrame
    <2>6. QED
      BY <2>1, <2>2, <2>3, <2>4, <2>5 DEF Next, App
  <1>3. QED
    BY <1>2 DEF Prompted

\* What a daemon lists was completed, and it tells only of what it listed.
LEMMA KeysFrame ==
  ASSUME TypeOK, Asked, NEW d \in Daemon, Cycle(d) \/ Fault(d)
  PROVE  /\ \A k \in keys'[d] : k \in keys[d] \/ Prompted(k)
         /\ \A k \in Key : told'[k] = told[k] \/ k \in keys[d]
  <1> USE DEF TypeOK, Goto, NextProvider, obsVars
  <1>1. CASE StartCycle(d) \/ PullOk(d) \/ PullFails(d)
    BY <1>1 DEF StartCycle, PullOk, PullFails
  <1>2. CASE Push(d)
    BY <1>2 DEF Push, ScanPush, PushDone, BeginPush, Accept, Reject, PushUnsupported,
                RecordPushed, RollBack, SkipPush
  <1>3. CASE ScanCompletions(d)
    <2>1. \A k \in PendingCompletions(Current(d)) : Prompted(k)
      BY DEF Asked, PendingCompletions, CompletionOwed, Completed, Prompted
    <2>2. QED
      BY <1>3, <2>1 DEF ScanCompletions
  <1>4. ASSUME NEW k \in Key, CloseOk(d, k) \/ CloseFails(d, k) \/ CloseUnheard(d, k)
        PROVE  /\ keys'[d] \subseteq keys[d]
               /\ \A l \in Key : told'[l] = told[l] \/ l \in keys[d]
    BY <1>4 DEF CloseOk, CloseFails, CloseUnheard, CloseIssue
  <1>5. CASE RecordClosed(d) \/ CompleteDone(d)
    BY <1>5 DEF RecordClosed, CompleteDone
  <1>6. CASE AcceptUnheard(d) \/ StoreFails(d) \/ Die(d)
    BY <1>6 DEF AcceptUnheard, StoreFails, Die
  <1>7. QED
    BY <1>1, <1>2, <1>3, <1>4, <1>5, <1>6 DEF Cycle, CompleteTasks, Fault

\* Other daemons' lists are left alone.
LEMMA OtherKeysFrame ==
  ASSUME TypeOK, NEW d \in Daemon, Cycle(d) \/ Fault(d), NEW e \in Daemon, e # d
  PROVE  keys'[e] = keys[e]
  <1> USE DEF TypeOK, NextProvider
  <1>1. CASE StartCycle(d) \/ PullOk(d) \/ PullFails(d)
    BY <1>1 DEF StartCycle, PullOk, PullFails
  <1>2. CASE Push(d)
    BY <1>2 DEF Push, ScanPush, PushDone, BeginPush, Accept, Reject, PushUnsupported,
                RecordPushed, RollBack, SkipPush
  <1>3. CASE CompleteTasks(d)
    BY <1>3 DEF CompleteTasks, ScanCompletions, CompleteDone, CloseOk, CloseFails,
                RecordClosed
  <1>4. CASE Fault(d)
    BY <1>4 DEF Fault, AcceptUnheard, CloseUnheard, StoreFails, Die
  <1>5. QED
    BY <1>1, <1>2, <1>3, <1>4 DEF Cycle

LEMMA PromptedStep ==
  ASSUME PushInv, PromptedInv, [Next]_vars
  PROVE  PromptedInv'
  <1>0. TypeOK /\ TypeOK' /\ Asked
    BY PushInvStep DEF PushInv
  <1>1. \A k \in Key : Prompted(k) => Prompted(k)'
    BY <1>0, PromptedStays
  <1>2. /\ \A d \in Daemon : keys[d] \subseteq Key /\ \A k \in keys[d] : Prompted(k)
        /\ \A k \in Key : told[k] > 0 => Prompted(k)
    BY <1>0 DEF TypeOK, PromptedInv, OnlyCompletedIsTold
  <1>3. CASE UNCHANGED vars \/ App
    <2>1. keys' = keys /\ told' = told
      BY <1>3, AppFrame DEF vars, daemonVars, obsVars
    <2>2. QED
      BY <1>1, <1>2, <2>1 DEF PromptedInv, OnlyCompletedIsTold
  <1>4. ASSUME NEW d \in Daemon, Cycle(d) \/ Fault(d)
        PROVE  PromptedInv'
    <2>1. \A k \in Key : told'[k] = told[k] \/ k \in keys[d]
      BY <1>0, <1>4, KeysFrame
    <2>2. OnlyCompletedIsTold'
      BY <1>1, <1>2, <2>1 DEF OnlyCompletedIsTold
    <2>3. \A k \in keys'[d] : Prompted(k)'
      BY <1>0, <1>1, <1>2, <1>4, KeysFrame DEF TypeOK
    <2>4. \A e \in Daemon \ {d} : keys'[e] = keys[e]
      BY <1>0, <1>4, OtherKeysFrame
    <2>5. QED
      BY <1>1, <1>2, <2>2, <2>3, <2>4 DEF PromptedInv
  <1>5. QED
    BY <1>3, <1>4 DEF Next

\* With any number of daemons, each working from a list that may be stale, a
\* provider is told only of issues the user completed and pushed a session of.
THEOREM OnlyCompletedIsToldAlways == Spec => []OnlyCompletedIsTold
  <1>1. Init => PromptedInv
    <2> SUFFICES ASSUME Init PROVE PromptedInv
      OBVIOUS
    <2>1. \A k \in Key : told[k] = 0
      BY DEF Init
    <2>2. \A d \in Daemon : keys[d] = {}
      BY DEF Init
    <2>3. QED
      BY <2>1, <2>2 DEF PromptedInv, OnlyCompletedIsTold
  <1>2. PushInv /\ PromptedInv /\ [Next]_vars => PromptedInv'
    BY PromptedStep
  <1>3. PromptedInv => OnlyCompletedIsTold
    BY DEF PromptedInv
  <1>4. QED
    BY <1>1, <1>2, <1>3, PushInvariant, PTL DEF Spec

-----------------------------------------------------------------------------
(* No daemon delivers a session twice unless an acceptance was lost. *)

LEMMA DequeuedStep ==
  ASSUME TypeOK, \A d \in Daemon : pc[d] \in Busy => cur[d] \notin queue[d],
         NEW d \in Daemon, Cycle(d) \/ Fault(d)
  PROVE  \A e \in Daemon : pc'[e] \in Busy => cur'[e] \notin queue'[e]
  <1> USE DEF TypeOK, Busy, Goto, NextProvider
  <1>1. pc'[d] \in Busy => cur'[d] \notin queue'[d]
    <2>1. CASE StartCycle(d) \/ PullOk(d) \/ PullFails(d)
      BY <2>1 DEF StartCycle, PullOk, PullFails
    <2>2. CASE Push(d)
      BY <2>2 DEF Push, ScanPush, PushDone, BeginPush, Accept, Reject, PushUnsupported,
                  RecordPushed, RollBack, SkipPush
    <2>3. CASE CompleteTasks(d)
      BY <2>3 DEF CompleteTasks, ScanCompletions, CompleteDone, CloseOk, CloseFails,
                  RecordClosed
    <2>4. CASE Fault(d)
      BY <2>4 DEF Fault, AcceptUnheard, CloseUnheard, StoreFails, Die
    <2>5. QED
      BY <2>1, <2>2, <2>3, <2>4 DEF Cycle
  <1>2. QED
    BY <1>1, OthersFrame

\* A daemon's step that delivers nothing and loses no acceptance.
Quiet(d) == ~Accept(d) /\ ~AcceptUnheard(d) /\ ~(pc[d] = "accepted" /\ Fault(d))

LEMMA QuietFrame ==
  ASSUME TypeOK, NEW d \in Daemon, Cycle(d) \/ Fault(d), Quiet(d)
  PROVE  UNCHANGED <<sent, lost>>
  <1> USE DEF obsVars, Quiet
  <1>1. CASE StartCycle(d) \/ PullOk(d) \/ PullFails(d)
    BY <1>1 DEF StartCycle, PullOk, PullFails
  <1>2. CASE Push(d)
    BY <1>2 DEF Push, ScanPush, PushDone, BeginPush, Reject, PushUnsupported,
                RecordPushed, RollBack, SkipPush
  <1>3. CASE CompleteTasks(d)
    BY <1>3 DEF CompleteTasks, ScanCompletions, CompleteDone, CloseOk, CloseFails,
                RecordClosed
  <1>4. CASE Fault(d)
    BY <1>4 DEF Fault, CloseUnheard, StoreFails, Die, Forget
  <1>5. QED
    BY <1>1, <1>2, <1>3, <1>4 DEF Cycle

\* What a daemon is done with stays out of its hands.
LEMMA DoneStays ==
  ASSUME TypeOK, NEW d \in Daemon, Cycle(d) \/ Fault(d), NEW i \in Row, Done(d, i),
         ~(pc[d] = "accepted" /\ Fault(d))
  PROVE  Done(d, i)'
  <1> USE DEF TypeOK, StoreTypeOK, Done, Busy, Goto, NextProvider, storeVars
  <1>1. CASE StartCycle(d) \/ PullOk(d) \/ PullFails(d)
    BY <1>1 DEF StartCycle, PullOk, PullFails
  <1>2. CASE ScanPush(d)
    BY <1>2 DEF ScanPush, PendingPush, PushEligible
  <1>3. ASSUME NEW j \in Row, BeginPush(d, j) PROVE Done(d, i)'
    BY <1>3 DEF BeginPush, SetStatus
  <1>4. CASE PushDone(d) \/ Accept(d) \/ Reject(d) \/ PushUnsupported(d)
    BY <1>4 DEF PushDone, Accept, Reject, PushUnsupported
  <1>5. CASE RecordPushed(d)
    BY <1>5 DEF RecordPushed, MarkPushed
  <1>6. CASE RollBack(d) \/ SkipPush(d)
    BY <1>6 DEF RollBack, SkipPush, SetStatus
  <1>7. CASE CompleteTasks(d)
    BY <1>7 DEF CompleteTasks, ScanCompletions, CompleteDone, CloseOk, CloseFails,
                RecordClosed, MarkCompletionPushed
  <1>8. CASE Fault(d)
    BY <1>8 DEF Fault, AcceptUnheard, CloseUnheard, StoreFails, Die
  <1>9. QED
    BY <1>1, <1>2, <1>3, <1>4, <1>5, <1>6, <1>7, <1>8 DEF Cycle, Push

LEMMA OthersDoneStay ==
  ASSUME TypeOK, NEW d \in Daemon, Cycle(d) \/ Fault(d),
         NEW e \in Daemon, e # d, NEW i \in Row, Done(e, i)
  PROVE  Done(e, i)'
  BY OthersFrame, SignedFrame DEF Done

\* The deliverers of a session are a finite set, so counting one more or one
\* less of them is arithmetic.
LEMMA CountDeliverers ==
  ASSUME NEW S \in SUBSET Daemon, NEW d \in Daemon
  PROVE  /\ IsFiniteSet(S) /\ Cardinality(S) \in Nat
         /\ d \notin S => Cardinality(S \cup {d}) = Cardinality(S) + 1
         /\ d \in S => Cardinality(S \ {d}) = Cardinality(S) - 1
  <1>1. IsFiniteSet(S)
    BY EngineAssumption, FS_Subset
  <1>2. QED
    BY <1>1, FS_CardinalityType, FS_AddElement, FS_RemoveElement

LEMMA ResendDaemonStep ==
  ASSUME PushInv, ResendInv, NEW d \in Daemon, Cycle(d) \/ Fault(d)
  PROVE  ResendInv'
  <1>0. TypeOK /\ Held
    BY DEF PushInv
  <1>1. \A e \in Daemon : pc'[e] \in Busy => cur'[e] \notin queue'[e]
    BY <1>0, DequeuedStep DEF ResendInv
  <1>2. PICK f \in [Row -> SUBSET Daemon] : \A i \in Row : Attributed(f, i)
    BY DEF ResendInv
  <1>3. \A i \in Row : sent[i] \in Nat /\ lost[i] \in Nat
    BY <1>0 DEF TypeOK
  <1>4. \A e \in Daemon \ {d} : pc'[e] = pc[e] /\ cur'[e] = cur[e]
    BY <1>0, OthersFrame
  <1>5. \A e \in Daemon \ {d}, i \in Row : e \in f[i] => Done(e, i)'
    BY <1>0, <1>2, OthersDoneStay DEF Attributed
  <1>6. SUFFICES \E g \in [Row -> SUBSET Daemon] : \A i \in Row : Attributed(g, i)'
    BY <1>1 DEF ResendInv
  <1>7. CASE Accept(d)
    <2>1. PICK c \in Row : c = cur[d]
      BY <1>0, <1>7 DEF Accept, Held, Busy, TypeOK, StoreTypeOK
    <2>2. d \notin f[c]
      BY <1>2, <1>7, <2>1 DEF Accept, Attributed, Done, Busy
    <2>3. /\ pc'[d] = "accepted" /\ cur' = cur /\ queue' = queue /\ signed' = signed
          /\ lost' = lost /\ sent' = [sent EXCEPT ![c] = @ + 1]
      BY <1>0, <1>7, <2>1 DEF Accept, Goto, TypeOK, storeVars
    <2> DEFINE g == [f EXCEPT ![c] = @ \cup {d}]
    <2>4. g \in [Row -> SUBSET Daemon]
      BY <1>2
    <2>5. Attributed(g, c)'
      <3>1. sent'[c] = lost'[c] + Cardinality(g[c])
        <4>1. sent'[c] = sent[c] + 1 /\ lost'[c] = lost[c]
          BY <1>0, <2>3 DEF TypeOK
        <4>2. f[c] \in SUBSET Daemon /\ g[c] = f[c] \cup {d}
          BY <1>2
        <4>3. Cardinality(f[c]) \in Nat /\ Cardinality(g[c]) = Cardinality(f[c]) + 1
          BY <2>2, <4>2, CountDeliverers
        <4>4. sent[c] = lost[c] + Cardinality(f[c])
          BY <1>2 DEF Attributed
        <4>5. QED
          BY <1>3, <4>1, <4>3, <4>4
      <3>2. Done(d, c)'
        BY <1>0, <1>1, <2>1, <2>3 DEF Done, Busy
      <3>3. QED
        BY <1>2, <1>4, <1>5, <2>1, <2>3, <3>1, <3>2 DEF Attributed
    <2>6. ASSUME NEW i \in Row, i # c PROVE Attributed(g, i)'
      <3>1. sent'[i] = lost'[i] + Cardinality(g[i])
        BY <1>0, <1>2, <2>3, <2>6 DEF Attributed, TypeOK
      <3>2. \A e \in g[i] : Done(e, i)'
        BY <1>0, <1>2, <1>5, <1>7, <2>6, DoneStays DEF Attributed, Accept
      <3>3. QED
        BY <1>2, <1>4, <2>1, <2>3, <2>6, <3>1, <3>2 DEF Attributed
    <2>7. QED
      BY <2>4, <2>5, <2>6
  <1>8. CASE AcceptUnheard(d)
    <2>1. PICK c \in Row : c = cur[d]
      BY <1>0, <1>8 DEF AcceptUnheard, Held, Busy, TypeOK, StoreTypeOK
    <2>2. /\ pc[d] = "send" /\ pc'[d] = "failed"
          /\ sent' = [sent EXCEPT ![c] = @ + 1] /\ lost' = [lost EXCEPT ![c] = @ + 1]
      BY <1>0, <1>8, <2>1 DEF AcceptUnheard, Goto, TypeOK
    <2>3. ASSUME NEW i \in Row PROVE Attributed(f, i)'
      <3>1. sent'[i] = lost'[i] + Cardinality(f[i])
        <4>1. f[i] \in SUBSET Daemon
          BY <1>2
        <4>2. Cardinality(f[i]) \in Nat
          BY <4>1, CountDeliverers
        <4>3. sent[i] = lost[i] + Cardinality(f[i])
          BY <1>2 DEF Attributed
        <4>4. \/ sent'[i] = sent[i] + 1 /\ lost'[i] = lost[i] + 1
              \/ sent'[i] = sent[i] /\ lost'[i] = lost[i]
          BY <1>0, <2>2 DEF TypeOK
        <4>5. QED
          BY <1>3, <4>2, <4>3, <4>4
      <3>2. \A e \in f[i] : Done(e, i)'
        BY <1>0, <1>2, <1>5, <2>2, DoneStays DEF Attributed
      <3>3. QED
        BY <1>2, <1>4, <2>2, <3>1, <3>2 DEF Attributed
    <2>4. QED
      BY <1>2, <2>3
  <1>9. CASE pc[d] = "accepted" /\ Fault(d)
    <2>1. PICK c \in Row : c = cur[d]
      BY <1>0, <1>9 DEF Held, Busy, TypeOK, StoreTypeOK
    <2>2. StoreFails(d) \/ Die(d)
      BY <1>9 DEF Fault, AcceptUnheard, CloseUnheard
    <2>3. /\ pc'[d] \notin Busy /\ queue'[d] = {} /\ signed' = signed
          /\ sent' = sent /\ lost' = [lost EXCEPT ![c] = @ + 1]
      BY <1>0, <1>9, <2>1, <2>2
         DEF StoreFails, Die, Forget, NextProvider, Goto, Busy, TypeOK, storeVars
    <2> DEFINE g == [f EXCEPT ![c] = @ \ {d}]
    <2>4. g \in [Row -> SUBSET Daemon] /\ d \in f[c]
      BY <1>2, <1>9, <2>1 DEF Attributed
    <2>5. ASSUME NEW i \in Row PROVE Attributed(g, i)'
      <3>1. sent'[i] = lost'[i] + Cardinality(g[i])
        <4>1. CASE i = c
          <5>1. sent'[c] = sent[c] /\ lost'[c] = lost[c] + 1
            BY <1>0, <2>3 DEF TypeOK
          <5>2. f[c] \in SUBSET Daemon /\ g[c] = f[c] \ {d}
            BY <1>2
          <5>3. Cardinality(f[c]) \in Nat /\ Cardinality(g[c]) = Cardinality(f[c]) - 1
            BY <2>4, <5>2, CountDeliverers
          <5>4. sent[c] = lost[c] + Cardinality(f[c])
            BY <1>2 DEF Attributed
          <5>5. QED
            BY <1>3, <4>1, <5>1, <5>3, <5>4
        <4>2. CASE i # c
          BY <1>0, <1>2, <2>3, <2>4, <4>2 DEF Attributed, TypeOK
        <4>3. QED
          BY <4>1, <4>2
      <3>2. ASSUME d \in g[i] PROVE Done(d, i)'
        BY <1>2, <1>9, <2>1, <2>3, <3>2 DEF Attributed, Done
      <3>3. \A e \in g[i] : Done(e, i)'
        BY <1>2, <1>5, <2>4, <3>2
      <3>4. \A e \in Daemon : pc'[e] = "accepted" /\ cur'[e] = i => e \in g[i]
        BY <1>2, <1>4, <2>3, <2>4 DEF Attributed, Busy
      <3>5. QED
        BY <3>1, <3>3, <3>4 DEF Attributed
    <2>6. QED
      BY <2>4, <2>5
  <1>10. CASE Quiet(d)
    <2>1. UNCHANGED <<sent, lost>>
      BY <1>0, <1>10, QuietFrame
    <2>2. pc'[d] # "accepted"
      BY <1>0, <1>10, AcceptedFrame DEF Quiet
    <2>3. ASSUME NEW i \in Row PROVE Attributed(f, i)'
      <3>1. \A e \in f[i] : Done(e, i)'
        BY <1>0, <1>2, <1>5, <1>10, DoneStays DEF Attributed, Quiet
      <3>2. QED
        BY <1>2, <1>4, <2>1, <2>2, <3>1 DEF Attributed
    <2>4. QED
      BY <1>2, <2>3
  <1>11. QED
    BY <1>7, <1>8, <1>9, <1>10 DEF Quiet

LEMMA ResendStep == PushInv /\ ResendInv /\ [Next]_vars => ResendInv'
  <1> SUFFICES ASSUME PushInv, ResendInv, [Next]_vars PROVE ResendInv'
    OBVIOUS
  <1>1. CASE UNCHANGED vars
    BY <1>1 DEF vars, storeVars, daemonVars, obsVars, ResendInv, Attributed, Done
  <1>2. CASE App
    BY <1>2, AppFrame DEF daemonVars, ResendInv, Attributed, Done
  <1>3. CASE \E d \in Daemon : Cycle(d) \/ Fault(d)
    BY <1>3, ResendDaemonStep
  <1>4. QED
    BY <1>1, <1>2, <1>3 DEF Next

LEMMA ResendInit == Init => ResendInv
  <1> SUFFICES ASSUME Init PROVE ResendInv
    OBVIOUS
  <1> DEFINE f == [i \in Row |-> {}]
  <1>1. f \in [Row -> SUBSET Daemon]
    OBVIOUS
  <1>2. \A i \in Row : sent[i] = 0 /\ lost[i] = 0
    BY DEF Init
  <1>3. \A d \in Daemon : pc[d] = "idle"
    BY DEF Init
  <1>4. \A i \in Row : Attributed(f, i)
    BY <1>2, <1>3, FS_EmptySet DEF Attributed
  <1>5. QED
    BY <1>1, <1>3, <1>4 DEF ResendInv, Busy

\* Every acceptance that is lost is lost to a fault.
FaultsPay == \A i \in Row : lost[i] <= faults

LEMMA FaultsPayStep ==
  ASSUME TypeOK, FaultsPay, [Next]_vars
  PROVE  FaultsPay'
  <1> USE DEF TypeOK, FaultsPay
  <1>0. \A i \in Row : lost[i] \in Nat /\ faults \in Nat
    BY EngineAssumption
  <1>1. ASSUME UNCHANGED <<lost, faults>> PROVE FaultsPay'
    BY <1>1
  <1>2. ASSUME faults' = faults + 1, lost' = lost PROVE FaultsPay'
    BY <1>0, <1>2
  <1>3. ASSUME faults' = faults + 1, NEW j, lost' = [lost EXCEPT ![j] = @ + 1]
        PROVE  FaultsPay'
    BY <1>0, <1>3
  <1>4. CASE UNCHANGED vars
    BY <1>1, <1>4 DEF vars, obsVars
  <1>5. CASE App
    BY <1>1, <1>2, <1>5 DEF App, SaveSession, CompleteTask, ReopenTask, PressPush,
                            FinishPress, BreakPress, obsVars
  <1>6. ASSUME NEW d \in Daemon, Cycle(d) PROVE FaultsPay'
    <2>1. CASE StartCycle(d) \/ PullOk(d) \/ PullFails(d)
      BY <1>1, <2>1 DEF StartCycle, PullOk, PullFails, obsVars
    <2>2. CASE Push(d)
      BY <1>1, <2>2 DEF Push, ScanPush, PushDone, BeginPush, Accept, Reject,
                        PushUnsupported, RecordPushed, RollBack, SkipPush, obsVars
    <2>3. CASE CompleteTasks(d)
      BY <1>1, <2>3 DEF CompleteTasks, ScanCompletions, CompleteDone, CloseOk, CloseFails,
                        RecordClosed, obsVars
    <2>4. QED
      BY <1>6, <2>1, <2>2, <2>3 DEF Cycle
  <1>7. ASSUME NEW d \in Daemon, Fault(d) PROVE FaultsPay'
    BY <1>2, <1>3, <1>7 DEF Fault, AcceptUnheard, CloseUnheard, StoreFails, Die, Forget
  <1>8. QED
    BY <1>4, <1>5, <1>6, <1>7 DEF Next

\* The work-log signature bounds the deliveries of a session by the number of
\* daemons and of lost acceptances, for any number of each, and faults bound those.
THEOREM NoNeedlessResendAlways == Spec => []NoNeedlessResend
  <1>1. PushInv /\ ResendInv /\ FaultsPay => NoNeedlessResend
    <2> SUFFICES ASSUME PushInv, ResendInv, FaultsPay, NEW i \in Row
                 PROVE  sent[i] <= Cardinality(Daemon) + lost[i] /\ lost[i] <= faults
      BY DEF NoNeedlessResend
    <2>1. PICK f \in [Row -> SUBSET Daemon] : Attributed(f, i)
      BY DEF ResendInv
    <2>2. /\ Cardinality(f[i]) \in Nat /\ Cardinality(Daemon) \in Nat
          /\ Cardinality(f[i]) <= Cardinality(Daemon)
      BY EngineAssumption, FS_Subset, FS_CardinalityType
    <2>3. sent[i] <= Cardinality(Daemon) + lost[i]
      BY <2>1, <2>2 DEF Attributed, PushInv, TypeOK
    <2>4. QED
      BY <2>3 DEF FaultsPay
  <1>2. Init => FaultsPay
    BY EngineAssumption DEF Init, FaultsPay
  <1>3. PushInv /\ FaultsPay /\ [Next]_vars => FaultsPay'
    BY FaultsPayStep DEF PushInv
  <1>4. QED
    BY <1>1, <1>2, <1>3, ResendInit, ResendStep, PushInvariant, PTL DEF Spec

-----------------------------------------------------------------------------
(* One daemon: nothing it holds in memory goes stale. *)

\* The app only adds rows and requests, and leaves every status alone.
LEMMA AppKeepsPending ==
  ASSUME TypeOK, App
  PROVE  /\ rows \subseteq rows'
         /\ \A p : PendingPush(p) \subseteq PendingPush(p)'
         /\ \A i \in rows : link'[i] = link[i] /\ status'[i] = status[i]
         /\ \A i \in rows' \ rows : status'[i] = "Logged"
  <1> USE DEF TypeOK, StoreTypeOK, storeVars
  <1>1. /\ rows \subseteq rows'
        /\ \A i \in rows : link'[i] = link[i] /\ status'[i] = status[i]
        /\ \A i \in rows' \ rows : status'[i] = "Logged"
    <2>1. ASSUME NEW j \in Row, NEW n \in Name, NEW k \in Key \cup {NoKey},
                 SaveSession(j, n, k)
          PROVE  /\ rows \subseteq rows'
                 /\ \A i \in rows : link'[i] = link[i] /\ status'[i] = status[i]
                 /\ \A i \in rows' \ rows : status'[i] = "Logged"
      BY <2>1 DEF SaveSession, Save
    <2>2. ASSUME NEW j \in Row, CompleteTask(j) \/ ReopenTask(j)
          PROVE  rows' = rows /\ link' = link /\ status' = status
      BY <2>2 DEF CompleteTask, Complete, ReopenTask, Reopen
    <2>3. CASE PressPush \/ FinishPress \/ BreakPress
      BY <2>3 DEF PressPush, MarkSessions, FinishPress, MarkCompletions, BreakPress
    <2>4. QED
      BY <2>1, <2>2, <2>3 DEF App
  <1>2. \A p : PendingPush(p) \subseteq PendingPush(p)'
    BY <1>1, AppFrame DEF PendingPush, PushEligible, Linked
  <1>3. QED
    BY <1>1, <1>2

\* Of what was to be pushed, a daemon's step takes out only what it signs.
LEMMA DaemonKeepsPending ==
  ASSUME NEW d \in Daemon, Cycle(d) \/ Fault(d)
  PROVE  \A p : PendingPush(p)' = PendingPush(p) \ (signed' \ signed)
  <1>1. UNCHANGED <<rows, link, requested>>
    BY DaemonFrame
  <1>2. signed \subseteq signed'
    BY SignedFrame
  <1>3. QED
    BY <1>1, <1>2 DEF PendingPush, PushEligible, Linked

LEMMA SoloStep ==
  ASSUME NEW d \in Daemon, Daemon = {d}, TypeOK, SoloInv, [Next]_vars
  PROVE  SoloInv'
  <1> USE DEF SoloInv, QueueStaysCurrent, PushingIsRecovered, SignedLooksPushed
  <1>1. CASE UNCHANGED vars
    BY <1>1 DEF vars, storeVars, daemonVars, obsVars, PendingPush, PushEligible, Linked,
                Current
  <1>2. CASE App
    <2>1. /\ UNCHANGED daemonVars /\ signed' = signed /\ rows \subseteq rows'
          /\ signed \subseteq rows
      BY <1>2, AppFrame, AppKeepsPending DEF TypeOK, StoreTypeOK
    <2>2. QueueStaysCurrent'
      BY <1>2, <2>1, AppKeepsPending DEF daemonVars, Current
    <2>3. PushingIsRecovered'
      BY <1>2, AppKeepsPending
    <2>4. SignedLooksPushed'
      BY <1>2, <2>1, AppKeepsPending
    <2>5. QED
      BY <1>2, <2>1, <2>2, <2>3, <2>4, AppKeepsPending DEF daemonVars, Current
  <1>3. CASE Cycle(d) \/ Fault(d)
    <2>0. /\ UNCHANGED <<rows, link>>
          /\ \A p : PendingPush(p)' = PendingPush(p) \ (signed' \ signed)
          /\ \A p : PendingPush(p) \cap signed = {} /\ PendingPush(p) \subseteq rows
          /\ \A p : \A i \in PendingPush(p) : ProviderOf[link[i]] = p
      BY <1>3, DaemonFrame, DaemonKeepsPending
         DEF PendingPush, PushEligible, TypeOK, StoreTypeOK
    <2> USE DEF TypeOK, StoreTypeOK, Current, Goto, NextProvider, Busy, storeVars
    <2>1. CASE StartCycle(d) \/ PullOk(d) \/ PullFails(d)
      BY <2>0, <2>1 DEF StartCycle, PullOk, PullFails
    <2>2. CASE ScanPush(d)
      BY <2>0, <2>2 DEF ScanPush
    <2>3. ASSUME NEW i \in Row, BeginPush(d, i) PROVE SoloInv'
      <3>1. i \in PendingPush(ProviderOf[link[i]]) /\ i \in rows
        BY <2>0, <2>3 DEF BeginPush
      <3>2. PushingIsRecovered'
        BY <2>0, <2>3, <3>1 DEF BeginPush, SetStatus
      <3>3. SignedLooksPushed'
        BY <2>0, <2>3 DEF BeginPush, SetStatus
      <3>4. QED
        BY <2>0, <2>3, <3>2, <3>3 DEF BeginPush, SetStatus
    <2>4. CASE PushDone(d) \/ Accept(d) \/ Reject(d) \/ PushUnsupported(d)
      BY <2>0, <2>4 DEF PushDone, Accept, Reject, PushUnsupported
    <2>5. CASE RecordPushed(d)
      BY <2>0, <2>5 DEF RecordPushed, MarkPushed
    <2>6. CASE RollBack(d) \/ SkipPush(d)
      <3>1. cur[d] \in rows /\ cur[d] \notin signed
        BY <2>0, <2>6 DEF RollBack, SkipPush
      <3>2. signed' = signed /\ rows' = rows /\ link' = link
        BY <2>0, <2>6 DEF RollBack, SkipPush, SetStatus
      <3>3. \A i \in rows : status'[i] = IF i = cur[d] THEN "Logged" ELSE status[i]
        BY <2>6 DEF RollBack, SkipPush, SetStatus
      <3>4. PushingIsRecovered'
        BY <2>0, <3>2, <3>3
      <3>5. SignedLooksPushed'
        BY <3>1, <3>2, <3>3
      <3>6. QED
        BY <2>0, <2>6, <3>4, <3>5 DEF RollBack, SkipPush, SetStatus
    <2>7. CASE RecordClosed(d)
      BY <2>0, <2>7 DEF RecordClosed, MarkCompletionPushed
    <2>8. CASE CompleteTasks(d) /\ ~RecordClosed(d)
      BY <2>0, <2>8 DEF CompleteTasks, ScanCompletions, CompleteDone, CloseOk, CloseFails
    <2>9. CASE Fault(d)
      <3>1. CASE AcceptUnheard(d) \/ Die(d)
        BY <2>0, <3>1 DEF AcceptUnheard, Die
      <3>2. CASE \E k \in Key : CloseUnheard(d, k)
        BY <2>0, <3>2 DEF CloseUnheard
      <3>3. CASE StoreFails(d)
        BY <2>0, <3>3 DEF StoreFails
      <3>4. QED
        BY <2>9, <3>1, <3>2, <3>3 DEF Fault
    <2>10. QED
      BY <1>3, <2>1, <2>2, <2>3, <2>4, <2>5, <2>6, <2>7, <2>8, <2>9 DEF Cycle, Push
  <1>4. QED
    BY <1>1, <1>2, <1>3 DEF Next

LEMMA SoloInit == Init => SoloInv
  BY DEF Init, StoreInit, SoloInv, QueueStaysCurrent, PushingIsRecovered,
         SignedLooksPushed, Busy

LEMMA SoloInvariant ==
  ASSUME NEW d \in Daemon, Daemon = {d}
  PROVE  Spec => []SoloInv
  <1>1. TypeOK /\ SoloInv /\ [Next]_vars => SoloInv'
    BY SoloStep
  <1>2. QED
    BY <1>1, SoloInit, TypeCorrect, PTL DEF Spec

\* With one daemon, a session a crash left at "Pushing" is one the next cycle
\* finds again: the engine's claim that no row is wedged in that state.
THEOREM PushingIsRecoveredAlways ==
  ASSUME NEW d \in Daemon, Daemon = {d}
  PROVE  Spec => []PushingIsRecovered
  <1>1. SoloInv => PushingIsRecovered
    BY DEF SoloInv
  <1>2. QED
    BY <1>1, SoloInvariant, PTL

\* A step of the one daemon, or of the app, writes no other status over the stamp
\* of a session that carries its work-log id.
LEMMA StampStays ==
  ASSUME NEW d \in Daemon, Daemon = {d}, TypeOK, SoloInv, [Next]_vars,
         NEW i \in signed, status[i] = "PushedComplete"
  PROVE  status'[i] = "PushedComplete"
  <1>0. /\ i \in rows /\ status \in [Row -> Status] /\ rows \subseteq Row
        /\ \A p : i \notin PendingPush(p)
    BY DEF TypeOK, StoreTypeOK, PendingPush, PushEligible
  <1>1. CASE UNCHANGED vars
    BY <1>1 DEF vars, storeVars
  <1>2. CASE App
    BY <1>0, <1>2, AppKeepsPending
  <1>3. CASE Cycle(d) \/ Fault(d)
    <2>1. /\ i \notin queue[d]
          /\ pc[d] \in Busy => cur[d] # i
      BY <1>0 DEF SoloInv, QueueStaysCurrent
    <2>2. CASE StartCycle(d) \/ PullOk(d) \/ PullFails(d)
      BY <2>2 DEF StartCycle, PullOk, PullFails, storeVars
    <2>3. CASE Push(d)
      BY <1>0, <2>1, <2>3 DEF Push, ScanPush, PushDone, BeginPush, Accept, Reject,
         PushUnsupported, RecordPushed, RollBack, SkipPush, SetStatus, MarkPushed, storeVars, Busy
    <2>4. CASE CompleteTasks(d)
      BY <1>0, <2>4 DEF CompleteTasks, ScanCompletions, CompleteDone, CloseOk, CloseFails,
         RecordClosed, MarkCompletionPushed, storeVars
    <2>5. CASE Fault(d)
      BY <2>5 DEF Fault, AcceptUnheard, CloseUnheard, StoreFails, Die, storeVars
    <2>6. QED
      BY <1>3, <2>2, <2>3, <2>4, <2>5 DEF Cycle
  <1>4. QED
    BY <1>1, <1>2, <1>3 DEF Next

\* With one daemon, a row that carries its work-log id shows it, and what is
\* stamped complete stays so: no late rollback or Pushing mark of the push loop
\* lands on it, and Reopen does not make its issue due again.
THEOREM PushedMovesOnAlways ==
  ASSUME NEW d \in Daemon, Daemon = {d}
  PROVE  Spec => PushedMovesOn
  <1>1. ASSUME TypeOK, SoloInv, SoloInv', [Next]_vars
        PROVE  [\A i \in signed' :
                   /\ status'[i] \in {"Pushed", "PushedComplete"}
                   /\ i \in signed /\ status[i] = "PushedComplete" => ~CompletionOwed(i)']_vars
    <2>1. \A i \in signed' : status'[i] \in {"Pushed", "PushedComplete"}
      BY <1>1 DEF SoloInv, SignedLooksPushed
    <2>2. \A i \in signed : status[i] = "PushedComplete" => ~CompletionOwed(i)'
      BY <1>1, StampStays DEF CompletionOwed
    <2>3. QED
      BY <2>1, <2>2
  <1>2. QED
    BY <1>1, SoloInvariant, TypeCorrect, PTL DEF Spec, PushedMovesOn

\* With one daemon, what PendingPush listed is still to be pushed when its
\* turn comes, whatever the app wrote in the meantime.
THEOREM QueueStaysCurrentAlways ==
  ASSUME NEW d \in Daemon, Daemon = {d}
  PROVE  Spec => []QueueStaysCurrent
  <1>1. SoloInv => QueueStaysCurrent
    BY DEF SoloInv
  <1>2. QED
    BY <1>1, SoloInvariant, PTL

=============================================================================
