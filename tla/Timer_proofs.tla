------------------------------ MODULE Timer_proofs ------------------------------
(***************************************************************************)
(* Proofs about Timer, for any tray goroutines, names and sessions.        *)
(*                                                                         *)
(* The fields of the App have no lock, so nothing can be said of a session *)
(* two handlers had their hands on; Observe puts it into contested, and no *)
(* session ever leaves that set.  Of every other session the proof follows *)
(* the one handler that may have it: what it is about to halt is what is   *)
(* on the clock (HaltsItsOwn), and what it is about to start finds the     *)
(* clock stopped (StartsAlone).  Contest is the step they all rest on:     *)
(* two handlers at work contest whatever is live.                          *)
(***************************************************************************)
EXTENDS Timer, SequenceTheorems, TLAPS

\* What each label of a handler says of its locals.
JobsFit ==
    /\ running => start # 0
    /\ \A h \in Hand :
        /\ at[h] \in {"halt", "save"} =>
              job[h].took # 0 /\ (job[h].follow = "set" => job[h].next # Blank)
        /\ at[h] \in {"save", "restart", "run"} => job[h].name # Blank
        /\ at[h] = "set" => job[h].next # Blank

\* A handler about to halt took the session that is on the clock, or what it took and
\* what it would stop are contested.
HaltsItsOwn ==
    \A h \in Hand : at[h] = "halt" =>
        \/ running /\ start = job[h].took
        \/ job[h].took \in contested /\ (running => start \in contested)

\* A handler about to start the clock, or between two laps, finds it stopped, or another
\* handler started it.
StartsAlone ==
    \A h \in Hand : at[h] \in {"save", "restart", "run"} /\ running => start \in contested

\* The names on their way to the store.
NamesFit ==
    /\ running => entry = wanted[start] \/ start \in renamed \cup contested
    /\ \A h \in Hand : at[h] \in {"halt", "save"} =>
        \/ job[h].name = wanted[job[h].took]
        \/ job[h].took \in renamed \cup contested

\* App starts in a typed state, with no session issued.
LEMMA TypeInit == Init => TypeOK
<1>1. Init => ClockTypeOK
  <2>1. 1..0 = {}
    OBVIOUS
  <2>2. Init => wanted \in [Session -> Name] /\ closed \subseteq Session
    BY DEF Init, Session
  <2>3. Init => running \in BOOLEAN
    BY DEF Init
  <2>. QED
    BY <2>2, <2>3 DEF Init, ClockTypeOK
<1>2. Init => JobTypeOK
  BY DEF Init, JobTypeOK, Label, Text, Job, NoJob
<1>3. Init => PageTypeOK /\ RecordTypeOK
  BY DEF Init, PageTypeOK, RecordTypeOK, Text
<1>. QED
  BY <1>1, <1>2, <1>3 DEF TypeOK

\* The last row of a table is a row.
LEMMA LastRow ==
    ASSUME saved \in Seq(Row), saved # << >>
    PROVE  saved[Len(saved)] \in Row
  OBVIOUS

\* A handler that begins with typed locals leaves all locals typed.
LEMMA BeginType ==
    ASSUME JobTypeOK, NEW g \in Goroutine, NEW l \in Label, NEW j \in Job,
           j.took <= issued, issued' = issued, Begin(g, l, j)
    PROVE  JobTypeOK'
  BY DEF JobTypeOK, Begin

\* So does one that moves to another label.
LEMMA GotoType ==
    ASSUME ClockTypeOK, JobTypeOK, NEW g \in Goroutine, NEW l \in Label, Goto(g, l),
           issued' \in Nat, issued' >= issued
    PROVE  JobTypeOK'
<1>1. NoJob \in Job /\ NoJob.took = 0
  BY DEF NoJob, Job, Text
<1>2. job' \in [Goroutine -> Job] /\ \A h \in Goroutine : job'[h].took <= issued
  BY <1>1 DEF Goto, JobTypeOK, ClockTypeOK
<1>3. \A h \in Goroutine : job[h] \in Job /\ job'[h] \in Job
  BY <1>2 DEF JobTypeOK
<1>. QED
  BY <1>2 DEF Goto, JobTypeOK, ClockTypeOK, Job

\* Every step keeps the clock typed: the fields running, startTime and stopTick.
LEMMA ClockStep ==
    ASSUME TypeOK, JobsFit, [Next]_vars
    PROVE  ClockTypeOK' /\ issued' >= issued
<1>1. CASE PressToggle /\ Observe
  BY <1>1 DEF PressToggle, clockVars, Session, TypeOK, ClockTypeOK
<1>2. CASE PressLap /\ Observe
  BY <1>2 DEF PressLap, clockVars, Session, TypeOK, ClockTypeOK
<1>3. CASE PressReset /\ Observe
  BY <1>3 DEF PressReset, clockVars, Session, TypeOK, ClockTypeOK
<1>4. CASE Decline /\ Observe
  BY <1>4 DEF Decline, clockVars, Session, TypeOK, ClockTypeOK
<1>5. CASE Discard /\ Observe
  <2>1. running => start \in Session
    BY DEF Session, TypeOK, ClockTypeOK, JobsFit
  <2>2. /\ UNCHANGED <<start, issued, wanted>> /\ running' = FALSE
        /\ (running /\ closed' = closed \cup {start}) \/ closed' = closed
    BY <1>5 DEF Discard
  <2>3. closed' \subseteq Session
    BY <2>1, <2>2 DEF TypeOK, ClockTypeOK
  <2>4. wanted' \in [Session' -> Name]
    BY <2>2 DEF Session, TypeOK, ClockTypeOK
  <2>5. running' \in BOOLEAN
    BY <2>2
  <2>. QED
    BY <2>2, <2>3, <2>4, <2>5 DEF TypeOK, ClockTypeOK
<1>6. ASSUME NEW t \in Tray, TrayStop(t), Observe
        PROVE  ClockTypeOK' /\ issued' >= issued
  BY <1>6 DEF TrayStop, clockVars, Session, TypeOK, ClockTypeOK
<1>7. ASSUME NEW h \in Hand, NEW n \in Name, SwitchTask(h, n), Observe
        PROVE  ClockTypeOK' /\ issued' >= issued
  BY <1>7 DEF SwitchTask, clockVars, Session, TypeOK, ClockTypeOK
<1>8. ASSUME NEW n \in Text, Type(n), Observe
        PROVE  ClockTypeOK' /\ issued' >= issued
  BY <1>8 DEF Type, clockVars, Session, TypeOK, ClockTypeOK
<1>9. ASSUME NEW n \in Name, Reopen(n), Observe
        PROVE  ClockTypeOK' /\ issued' >= issued
  BY <1>9 DEF Reopen, clockVars, Session, TypeOK, ClockTypeOK
<1>10. ASSUME NEW g \in {Window, Poller}, Refresh(g), Observe
        PROVE  ClockTypeOK' /\ issued' >= issued
  BY <1>10 DEF Refresh, clockVars, Session, TypeOK, ClockTypeOK
<1>11. ASSUME NEW h \in Hand, Halt(h), Observe
        PROVE  ClockTypeOK' /\ issued' >= issued
  <2>1. running => start \in Session
    BY DEF Session, TypeOK, ClockTypeOK, JobsFit
  <2>2. /\ UNCHANGED <<start, issued, wanted>> /\ running' = FALSE
        /\ (running /\ closed' = closed \cup {start}) \/ closed' = closed
    BY <1>11 DEF Halt
  <2>3. closed' \subseteq Session
    BY <2>1, <2>2 DEF TypeOK, ClockTypeOK
  <2>4. wanted' \in [Session' -> Name]
    BY <2>2 DEF Session, TypeOK, ClockTypeOK
  <2>5. running' \in BOOLEAN
    BY <2>2
  <2>. QED
    BY <2>2, <2>3, <2>4, <2>5 DEF TypeOK, ClockTypeOK
<1>12. ASSUME NEW h \in Hand, HaltTwice(h), Observe
        PROVE  ClockTypeOK' /\ issued' >= issued
  BY <1>12 DEF HaltTwice, clockVars, Session, TypeOK, ClockTypeOK
<1>13. ASSUME NEW h \in Hand, Save(h), Observe
        PROVE  ClockTypeOK' /\ issued' >= issued
  BY <1>13 DEF Save, clockVars, Session, TypeOK, ClockTypeOK
<1>14. ASSUME NEW h \in Hand, SaveFails(h), Observe
        PROVE  ClockTypeOK' /\ issued' >= issued
  BY <1>14 DEF SaveFails, clockVars, Session, TypeOK, ClockTypeOK
<1>15. ASSUME NEW h \in Hand, Restart(h), Observe
        PROVE  ClockTypeOK' /\ issued' >= issued
  BY <1>15 DEF Restart, Run, Session, Goroutine, Text, Job, TypeOK, ClockTypeOK, JobTypeOK,
     JobsFit
<1>16. ASSUME NEW h \in Hand, SetTaskName(h), Observe
        PROVE  ClockTypeOK' /\ issued' >= issued
  BY <1>16 DEF SetTaskName, clockVars, Session, TypeOK, ClockTypeOK
<1>17. ASSUME NEW h \in Hand, StartClock(h), Observe
        PROVE  ClockTypeOK' /\ issued' >= issued
  BY <1>17 DEF StartClock, Run, Session, Goroutine, Text, Job, TypeOK, ClockTypeOK, JobTypeOK,
     JobsFit
<1>18. ASSUME NEW g \in Goroutine, Reload(g), Observe
        PROVE  ClockTypeOK' /\ issued' >= issued
  BY <1>18 DEF Reload, clockVars, Session, TypeOK, ClockTypeOK
<1>19. ASSUME NEW g \in Goroutine, Fill(g), Observe
        PROVE  ClockTypeOK' /\ issued' >= issued
  BY <1>19 DEF Fill, clockVars, Session, TypeOK, ClockTypeOK
<1>20. CASE UNCHANGED vars
  BY <1>20 DEF vars, clockVars, Session, TypeOK, ClockTypeOK
<1>. QED
  BY <1>1, <1>2, <1>3, <1>4, <1>5, <1>6, <1>7, <1>8, <1>9, <1>10, <1>11, <1>12, <1>13, <1>14,
     <1>15, <1>16, <1>17, <1>18, <1>19, <1>20 DEF Next, User, Handle

\* Every step keeps the handlers' locals typed.
LEMMA JobStep ==
    ASSUME TypeOK, JobsFit, [Next]_vars
    PROVE  JobTypeOK'
<1>1. CASE PressToggle /\ Observe
  BY <1>1, BeginType DEF PressToggle, Take, Label, clockVars, Goroutine, Hand, Text, Job, NoJob,
     TypeOK, ClockTypeOK, PageTypeOK
<1>2. CASE PressLap /\ Observe
  BY <1>2, BeginType DEF PressLap, Take, Label, clockVars, Goroutine, Hand, Text, Job, TypeOK,
     ClockTypeOK, PageTypeOK
<1>3. CASE PressReset /\ Observe
  BY <1>3 DEF PressReset, JobTypeOK, clockVars, TypeOK
<1>4. CASE Decline /\ Observe
  BY <1>4 DEF Decline, JobTypeOK, clockVars, TypeOK
<1>5. CASE Discard /\ Observe
  BY <1>5, BeginType DEF Discard, Label, Goroutine, Hand, Text, Job, NoJob, TypeOK, ClockTypeOK
<1>6. ASSUME NEW t \in Tray, TrayStop(t), Observe
        PROVE  JobTypeOK'
  BY <1>6, BeginType DEF TrayStop, Take, Label, clockVars, Goroutine, Hand, Text, Job, TypeOK,
     ClockTypeOK, PageTypeOK
<1>7. ASSUME NEW h \in Hand, NEW n \in Name, SwitchTask(h, n), Observe
        PROVE  JobTypeOK'
  BY <1>7, BeginType DEF SwitchTask, Take, Label, clockVars, Goroutine, Text, Job, NoJob,
     TypeOK, ClockTypeOK, PageTypeOK
<1>8. ASSUME NEW n \in Text, Type(n), Observe
        PROVE  JobTypeOK'
  BY <1>8 DEF Type, JobTypeOK, clockVars, TypeOK
<1>9. ASSUME NEW n \in Name, Reopen(n), Observe
        PROVE  JobTypeOK'
  BY <1>9 DEF Reopen, JobTypeOK, clockVars, TypeOK
<1>10. ASSUME NEW g \in {Window, Poller}, Refresh(g), Observe
        PROVE  JobTypeOK'
  BY <1>10, BeginType DEF Refresh, Label, clockVars, Goroutine, Hand, Job, NoJob, TypeOK,
     ClockTypeOK, PageTypeOK
<1>11. ASSUME NEW h \in Hand, Halt(h), Observe
        PROVE  JobTypeOK'
  BY <1>11, GotoType DEF Halt, Named, GiveUp, Label, Goroutine, TypeOK, ClockTypeOK
<1>12. ASSUME NEW h \in Hand, HaltTwice(h), Observe
        PROVE  JobTypeOK'
  BY <1>12 DEF HaltTwice, JobTypeOK, clockVars, TypeOK
<1>13. ASSUME NEW h \in Hand, Save(h), Observe
        PROVE  JobTypeOK'
  <2>1. job[h].follow \in Label
    BY DEF JobTypeOK, Label, Goroutine, Job, TypeOK
  <2>. QED
    BY <1>13, <2>1, GotoType DEF Save, clockVars, Goroutine, TypeOK, ClockTypeOK
<1>14. ASSUME NEW h \in Hand, SaveFails(h), Observe
        PROVE  JobTypeOK'
  BY <1>14, GotoType DEF SaveFails, GiveUp, Label, clockVars, Goroutine, TypeOK, ClockTypeOK
<1>15. ASSUME NEW h \in Hand, Restart(h), Observe
        PROVE  JobTypeOK'
  BY <1>15, GotoType DEF Restart, Run, Label, Goroutine, TypeOK, ClockTypeOK
<1>16. ASSUME NEW h \in Hand, SetTaskName(h), Observe
        PROVE  JobTypeOK'
  <2>1. CASE Goto(h, "idle") /\ issued' = issued
    BY <2>1, GotoType DEF Label, Goroutine, TypeOK, ClockTypeOK
  <2>2. CASE /\ at' = [at EXCEPT ![h] = "run"]
             /\ job' = [job EXCEPT ![h].name = job[h].next]
             /\ issued' = issued
    BY <2>2 DEF JobTypeOK, Label, Goroutine, Job, TypeOK
  <2>. QED
    BY <1>16, <2>1, <2>2 DEF SetTaskName, clockVars
<1>17. ASSUME NEW h \in Hand, StartClock(h), Observe
        PROVE  JobTypeOK'
  BY <1>17, GotoType DEF StartClock, Run, Label, Goroutine, TypeOK, ClockTypeOK
<1>18. ASSUME NEW g \in Goroutine, Reload(g), Observe
        PROVE  JobTypeOK'
  BY <1>18, GotoType DEF Reload, Label, clockVars, TypeOK, ClockTypeOK
<1>19. ASSUME NEW g \in Goroutine, Fill(g), Observe
        PROVE  JobTypeOK'
  BY <1>19, GotoType DEF Fill, Label, clockVars, TypeOK, ClockTypeOK
<1>20. CASE UNCHANGED vars
  BY <1>20 DEF vars, JobTypeOK, clockVars, TypeOK
<1>. QED
  BY <1>1, <1>2, <1>3, <1>4, <1>5, <1>6, <1>7, <1>8, <1>9, <1>10, <1>11, <1>12, <1>13, <1>14,
     <1>15, <1>16, <1>17, <1>18, <1>19, <1>20 DEF Next, User, Handle

\* Every step keeps the entry, the dialog and the poller's read typed.
LEMMA PageStep ==
    ASSUME TypeOK, JobsFit, [Next]_vars
    PROVE  PageTypeOK'
<1>1. CASE PressToggle /\ Observe
  BY <1>1 DEF PressToggle, clockVars, TypeOK, PageTypeOK
<1>2. CASE PressLap /\ Observe
  BY <1>2 DEF PressLap, clockVars, TypeOK, PageTypeOK
<1>3. CASE PressReset /\ Observe
  BY <1>3 DEF PressReset, clockVars, TypeOK, ClockTypeOK, PageTypeOK
<1>4. CASE Decline /\ Observe
  BY <1>4 DEF Decline, clockVars, TypeOK, ClockTypeOK, PageTypeOK
<1>5. CASE Discard /\ Observe
  BY <1>5 DEF Discard, TypeOK, ClockTypeOK, PageTypeOK
<1>6. ASSUME NEW t \in Tray, TrayStop(t), Observe
        PROVE  PageTypeOK'
  BY <1>6 DEF TrayStop, clockVars, TypeOK, PageTypeOK
<1>7. ASSUME NEW h \in Hand, NEW n \in Name, SwitchTask(h, n), Observe
        PROVE  PageTypeOK'
  BY <1>7 DEF SwitchTask, clockVars, TypeOK, PageTypeOK
<1>8. ASSUME NEW n \in Text, Type(n), Observe
        PROVE  PageTypeOK'
  BY <1>8 DEF Type, clockVars, TypeOK, PageTypeOK
<1>9. ASSUME NEW n \in Name, Reopen(n), Observe
        PROVE  PageTypeOK'
  BY <1>9 DEF Reopen, WriteEntry, clockVars, Text, TypeOK, PageTypeOK
<1>10. ASSUME NEW g \in {Window, Poller}, Refresh(g), Observe
        PROVE  PageTypeOK'
  BY <1>10 DEF Refresh, clockVars, TypeOK, PageTypeOK
<1>11. ASSUME NEW h \in Hand, Halt(h), Observe
        PROVE  PageTypeOK'
  BY <1>11 DEF Halt, TypeOK, PageTypeOK
<1>12. ASSUME NEW h \in Hand, HaltTwice(h), Observe
        PROVE  PageTypeOK'
  BY <1>12 DEF HaltTwice, clockVars, TypeOK, PageTypeOK
<1>13. ASSUME NEW h \in Hand, Save(h), Observe
        PROVE  PageTypeOK'
  BY <1>13 DEF Save, clockVars, TypeOK, PageTypeOK
<1>14. ASSUME NEW h \in Hand, SaveFails(h), Observe
        PROVE  PageTypeOK'
  BY <1>14 DEF SaveFails, clockVars, TypeOK, PageTypeOK
<1>15. ASSUME NEW h \in Hand, Restart(h), Observe
        PROVE  PageTypeOK'
  BY <1>15 DEF Restart, Run, TypeOK, ClockTypeOK, PageTypeOK
<1>16. ASSUME NEW h \in Hand, SetTaskName(h), Observe
        PROVE  PageTypeOK'
  BY <1>16 DEF SetTaskName, WriteEntry, clockVars, Goroutine, Job, TypeOK, JobTypeOK, PageTypeOK
<1>17. ASSUME NEW h \in Hand, StartClock(h), Observe
        PROVE  PageTypeOK'
  BY <1>17 DEF StartClock, Run, TypeOK, ClockTypeOK, PageTypeOK
<1>18. ASSUME NEW g \in Goroutine, Reload(g), Observe
        PROVE  PageTypeOK'
  BY <1>18 DEF Reload, clockVars, TypeOK, PageTypeOK
<1>19. ASSUME NEW g \in Goroutine, Fill(g), Observe
        PROVE  PageTypeOK'
  <2>1. saved # << >> => saved[Len(saved)].name \in Name
    BY LastRow DEF Row, TypeOK, RecordTypeOK
  <2>. QED
    BY <1>19, <2>1 DEF Fill, WriteEntry, clockVars, Text, TypeOK, PageTypeOK
<1>20. CASE UNCHANGED vars
  BY <1>20 DEF vars, clockVars, TypeOK, PageTypeOK
<1>. QED
  BY <1>1, <1>2, <1>3, <1>4, <1>5, <1>6, <1>7, <1>8, <1>9, <1>10, <1>11, <1>12, <1>13, <1>14,
     <1>15, <1>16, <1>17, <1>18, <1>19, <1>20 DEF Next, User, Handle

\* What a step can do to the clock, to the sessions given up and to the table: the three
\* writers of each, whatever the handler.
LEMMA Frames ==
    ASSUME [Next]_vars
    PROVE  /\ \/ UNCHANGED clockVars
              \/ /\ running' = FALSE
                 /\ UNCHANGED <<start, issued, wanted>>
                 /\ closed' = (IF running THEN closed \cup {start} ELSE closed)
              \/ \E h \in Hand : at[h] \in {"restart", "run"} /\ Run(h)
           /\ \/ UNCHANGED <<discarded, dropped>>
              \/ Discard
              \/ \E h \in Hand : Halt(h) \/ SaveFails(h)
           /\ \/ renamed' = renamed
              \/ running /\ renamed' = renamed \cup {start}
              \/ issued' = issued + 1 /\ renamed' = renamed \cup {issued + 1}
           /\ \/ saved' = saved
              \/ \E h \in Hand : /\ at[h] = "save"
                                 /\ saved' = Append(saved, [of |-> job[h].took, name |-> job[h].name])
  BY DEF Next, User, Handle, vars, obsVars, PressToggle, PressLap, PressReset, Decline, Discard,
     TrayStop, SwitchTask, Type, Reopen, Refresh, Halt, HaltTwice, Save, SaveFails, Restart,
     StartClock, Run, SetTaskName, Reload, Fill, WriteEntry

\* Every step keeps the table and the history typed.
LEMMA RecordStep ==
    ASSUME TypeOK, JobsFit, [Next]_vars
    PROVE  RecordTypeOK'
<1>1. ClockTypeOK' /\ issued' >= issued
  BY ClockStep
<1>2. Session \subseteq Session'
  BY <1>1 DEF TypeOK, ClockTypeOK, Session
<1>3. contested' \subseteq Session'
  BY <1>2 DEF Next, Observe, Live, vars, TypeOK, RecordTypeOK
<1>4. running => start \in Session
  BY DEF JobsFit, TypeOK, ClockTypeOK, Session
<1>5. \A h \in Hand : at[h] \in {"halt", "save"} => job[h].took \in Session
  BY DEF JobsFit, Goroutine, Job, TypeOK, JobTypeOK, Session
<1>6. discarded' \subseteq Session' /\ dropped' \subseteq Session'
  <2>1. CASE UNCHANGED <<discarded, dropped>>
    BY <1>2, <2>1 DEF TypeOK, RecordTypeOK
  <2>2. CASE Discard
    BY <1>2, <1>4, <2>2 DEF Discard, TypeOK, ClockTypeOK, JobTypeOK, RecordTypeOK, Session
  <2>3. ASSUME NEW h \in Hand, Halt(h)
        PROVE  discarded' \subseteq Session' /\ dropped' \subseteq Session'
    <3>1. job[h].took \in Session
      BY <1>5, <2>3 DEF Halt
    <3>. QED
      BY <1>2, <2>3, <3>1 DEF Halt, Named, TypeOK, RecordTypeOK
  <2>4. ASSUME NEW h \in Hand, SaveFails(h)
        PROVE  discarded' \subseteq Session' /\ dropped' \subseteq Session'
    BY <1>2, <1>5, <2>4 DEF SaveFails, TypeOK, ClockTypeOK, JobTypeOK, RecordTypeOK, Session
  <2>. QED
    BY <2>1, <2>2, <2>3, <2>4, Frames
<1>7. renamed' \subseteq Session'
  <2>1. CASE renamed' = renamed
    BY <1>2, <2>1 DEF TypeOK, RecordTypeOK
  <2>2. CASE running /\ renamed' = renamed \cup {start}
    BY <1>2, <1>4, <2>2 DEF TypeOK, ClockTypeOK, RecordTypeOK
  <2>3. CASE issued' = issued + 1 /\ renamed' = renamed \cup {issued + 1}
    BY <2>3 DEF TypeOK, ClockTypeOK, RecordTypeOK, Session
  <2>. QED
    BY <2>1, <2>2, <2>3, Frames DEF TypeOK, ClockTypeOK, JobTypeOK, RecordTypeOK, Session
<1>8. saved' \in Seq(Row) /\ \A i \in DOMAIN saved' : saved'[i].of \in Session'
  <2>1. CASE saved' = saved
    BY <1>2, <2>1 DEF TypeOK, RecordTypeOK
  <2>2. ASSUME NEW h \in Hand, at[h] = "save",
               saved' = Append(saved, [of |-> job[h].took, name |-> job[h].name])
        PROVE  saved' \in Seq(Row) /\ \A i \in DOMAIN saved' : saved'[i].of \in Session'
    <3> DEFINE row == [of |-> job[h].took, name |-> job[h].name]
    <3>1. row \in Row /\ row.of \in Session
      BY <1>5, <2>2 DEF JobsFit, Goroutine, Job, Row, Text, TypeOK, JobTypeOK
    <3>2. row.of \in Session'
      BY <1>2, <3>1 <3> HIDE DEF row
    <3>3. saved' = Append(saved, row) /\ saved \in Seq(Row)
      BY <2>2 DEF row, TypeOK, RecordTypeOK
    <3>4. saved' \in Seq(Row) /\ Len(saved') = Len(saved) + 1 /\ saved'[Len(saved) + 1] = row
      BY <3>1, <3>3
    <3>5. \A i \in 1..Len(saved) : saved'[i] = saved[i]
      BY <3>3
    <3>6. \A i \in DOMAIN saved' : i = Len(saved) + 1 \/ i \in DOMAIN saved
      BY <3>4
    <3>7. \A i \in DOMAIN saved : saved'[i].of \in Session'
      BY <1>2, <3>5 DEF TypeOK, RecordTypeOK
    <3>. QED
      BY <3>2, <3>4, <3>7
  <2>. QED
    BY <2>1, <2>2, Frames DEF TypeOK, ClockTypeOK, JobTypeOK, RecordTypeOK, Session
<1>. QED
  BY <1>3, <1>6, <1>7, <1>8 DEF RecordTypeOK

\* TypeOK is inductive, given what a label says of a handler's locals.
LEMMA TypeStep ==
    ASSUME TypeOK, JobsFit, [Next]_vars
    PROVE  TypeOK'
  BY ClockStep, JobStep, PageStep, RecordStep DEF TypeOK

\* While two handlers are at work, every live session is contested.
LEMMA Contest ==
    ASSUME Observe, NEW g \in Hand, NEW h \in Hand, g # h,
           at[g] # "idle" \/ at'[g] # "idle", at[h] # "idle" \/ at'[h] # "idle"
    PROVE  Live \subseteq contested' /\ Live' \subseteq contested'
  BY DEF Observe, Overlap

\* The session on the clock and those in a handler's hands are live.
LEMMA LiveIs ==
    ASSUME TypeOK, JobsFit
    PROVE  /\ running => start \in Live
           /\ \A h \in Hand : at[h] \in {"halt", "save"} => job[h].took \in Live
  BY DEF TypeOK, ClockTypeOK, JobTypeOK, Job, JobsFit, Live, OnTheClock, InHand, Session,
     Goroutine

\* JobsFit is inductive.
LEMMA FitStep ==
    ASSUME TypeOK, JobsFit, [Next]_vars
    PROVE  JobsFit'
<1>1. CASE PressToggle /\ Observe
  BY <1>1 DEF PressToggle, Take, Begin, clockVars, Goroutine, NoJob, JobTypeOK, TypeOK, JobsFit
<1>2. CASE PressLap /\ Observe
  BY <1>2 DEF PressLap, Take, Begin, clockVars, JobTypeOK, TypeOK, JobsFit
<1>3. CASE PressReset /\ Observe
  BY <1>3 DEF PressReset, clockVars, JobsFit
<1>4. CASE Decline /\ Observe
  BY <1>4 DEF Decline, clockVars, JobsFit
<1>5. CASE Discard /\ Observe
  BY <1>5 DEF Discard, Begin, JobsFit
<1>6. ASSUME NEW t \in Tray, TrayStop(t), Observe
        PROVE  JobsFit'
  BY <1>6 DEF TrayStop, Take, Begin, clockVars, JobTypeOK, TypeOK, JobsFit
<1>7. ASSUME NEW h \in Hand, NEW n \in Name, SwitchTask(h, n), Observe
        PROVE  JobsFit'
  BY <1>7, TimerAssumption DEF SwitchTask, Take, Begin, clockVars, Goroutine, NoJob, JobTypeOK,
     TypeOK, JobsFit
<1>8. ASSUME NEW n \in Text, Type(n), Observe
        PROVE  JobsFit'
  BY <1>8 DEF Type, clockVars, JobsFit
<1>9. ASSUME NEW n \in Name, Reopen(n), Observe
        PROVE  JobsFit'
  BY <1>9 DEF Reopen, clockVars, JobsFit
<1>10. ASSUME NEW g \in {Window, Poller}, Refresh(g), Observe
        PROVE  JobsFit'
  BY <1>10 DEF Refresh, Begin, clockVars, JobsFit
<1>11. ASSUME NEW h \in Hand, Halt(h), Observe
        PROVE  JobsFit'
  BY <1>11 DEF Halt, Named, GiveUp, Goto, Goroutine, JobTypeOK, TypeOK, JobsFit
<1>12. ASSUME NEW h \in Hand, HaltTwice(h), Observe
        PROVE  JobsFit'
  BY <1>12 DEF HaltTwice, clockVars, JobsFit
<1>13. ASSUME NEW h \in Hand, Save(h), Observe
        PROVE  JobsFit'
  BY <1>13 DEF Save, Goto, clockVars, JobTypeOK, TypeOK, JobsFit
<1>14. ASSUME NEW h \in Hand, SaveFails(h), Observe
        PROVE  JobsFit'
  BY <1>14 DEF SaveFails, GiveUp, Goto, clockVars, JobTypeOK, TypeOK, JobsFit
<1>15. ASSUME NEW h \in Hand, Restart(h), Observe
        PROVE  JobsFit'
  BY <1>15 DEF Restart, Run, Goto, ClockTypeOK, JobTypeOK, TypeOK, JobsFit
<1>16. ASSUME NEW h \in Hand, SetTaskName(h), Observe
        PROVE  JobsFit'
  BY <1>16 DEF SetTaskName, Goto, clockVars, Goroutine, Job, JobTypeOK, TypeOK, JobsFit
<1>17. ASSUME NEW h \in Hand, StartClock(h), Observe
        PROVE  JobsFit'
  BY <1>17 DEF StartClock, Run, Goto, ClockTypeOK, JobTypeOK, TypeOK, JobsFit
<1>18. ASSUME NEW g \in Goroutine, Reload(g), Observe
        PROVE  JobsFit'
  BY <1>18 DEF Reload, Goto, clockVars, Goroutine, JobTypeOK, TypeOK, JobsFit
<1>19. ASSUME NEW g \in Goroutine, Fill(g), Observe
        PROVE  JobsFit'
  BY <1>19 DEF Fill, Goto, clockVars, JobsFit
<1>20. CASE UNCHANGED vars
  BY <1>20 DEF vars, clockVars, JobsFit
<1>. QED
  BY <1>1, <1>2, <1>3, <1>4, <1>5, <1>6, <1>7, <1>8, <1>9, <1>10, <1>11, <1>12, <1>13, <1>14,
     <1>15, <1>16, <1>17, <1>18, <1>19, <1>20 DEF Next, User, Handle

\* The same after a step.
LEMMA LiveIsNext ==
    ASSUME TypeOK, JobsFit, [Next]_vars
    PROVE  /\ running' => start' \in Live'
           /\ \A h \in Hand : at'[h] \in {"halt", "save"} => job'[h].took \in Live'
<1>1. TypeOK' /\ JobsFit'
  BY TypeStep, FitStep
<1>. QED
  BY <1>1 DEF TypeOK, ClockTypeOK, JobTypeOK, Job, JobsFit, Live, OnTheClock, InHand, Session,
     Goroutine

\* No step makes a handler halt a session that is neither its own nor contested.
LEMMA HaltStep ==
    ASSUME TypeOK, JobsFit, HaltsItsOwn, [Next]_vars
    PROVE  HaltsItsOwn'
<1>1. CASE PressToggle /\ Observe
  BY <1>1 DEF PressToggle, Take, Begin, clockVars, Goroutine, JobTypeOK, TypeOK, HaltsItsOwn,
     Observe
<1>2. CASE PressLap /\ Observe
  BY <1>2 DEF PressLap, Take, Begin, clockVars, JobTypeOK, TypeOK, HaltsItsOwn, Observe
<1>3. CASE PressReset /\ Observe
  BY <1>3 DEF PressReset, clockVars, HaltsItsOwn, Observe
<1>4. CASE Decline /\ Observe
  BY <1>4 DEF Decline, clockVars, HaltsItsOwn, Observe
<1>5. CASE Discard /\ Observe
  BY <1>5 DEF Discard, Begin, Session, Goroutine, Hand, ClockTypeOK, JobTypeOK, TypeOK, JobsFit,
     HaltsItsOwn, Observe, Overlap, Live, InHand
<1>6. ASSUME NEW t \in Tray, TrayStop(t), Observe
        PROVE  HaltsItsOwn'
  BY <1>6 DEF TrayStop, Take, Begin, clockVars, JobTypeOK, TypeOK, HaltsItsOwn, Observe
<1>7. ASSUME NEW h \in Hand, NEW n \in Name, SwitchTask(h, n), Observe
        PROVE  HaltsItsOwn'
  <2>1. CASE Take(h, "set", n)
    BY <2>1, <1>7 DEF SwitchTask, Take, Begin, clockVars, JobTypeOK, TypeOK, HaltsItsOwn,
       Observe
  <2>2. CASE at' = [at EXCEPT ![h] = "set"] /\ job' = [job EXCEPT ![h] = [NoJob EXCEPT !.next = n]]
    BY <2>2, <1>7 DEF SwitchTask, clockVars, JobTypeOK, TypeOK, HaltsItsOwn, Observe
  <2>. QED
    BY <1>7, <2>1, <2>2 DEF SwitchTask, Begin, clockVars
<1>8. ASSUME NEW n \in Text, Type(n), Observe
        PROVE  HaltsItsOwn'
  BY <1>8 DEF Type, clockVars, HaltsItsOwn, Observe
<1>9. ASSUME NEW n \in Name, Reopen(n), Observe
        PROVE  HaltsItsOwn'
  BY <1>9 DEF Reopen, clockVars, HaltsItsOwn, Observe
<1>10. ASSUME NEW g \in {Window, Poller}, Refresh(g), Observe
        PROVE  HaltsItsOwn'
  BY <1>10 DEF Refresh, Begin, clockVars, HaltsItsOwn, Observe
<1>11. ASSUME NEW h \in Hand, Halt(h), Observe
        PROVE  HaltsItsOwn'
  BY <1>11 DEF Halt, Named, GiveUp, Goto, Session, Goroutine, ClockTypeOK, JobTypeOK, TypeOK,
     JobsFit, HaltsItsOwn, Observe, Overlap, Live, InHand
<1>12. ASSUME NEW h \in Hand, HaltTwice(h), Observe
        PROVE  HaltsItsOwn'
  BY <1>12 DEF HaltTwice, clockVars, HaltsItsOwn, Observe
<1>13. ASSUME NEW h \in Hand, Save(h), Observe
        PROVE  HaltsItsOwn'
  BY <1>13 DEF Save, Goto, clockVars, Goroutine, Job, JobTypeOK, TypeOK, HaltsItsOwn, Observe
<1>14. ASSUME NEW h \in Hand, SaveFails(h), Observe
        PROVE  HaltsItsOwn'
  BY <1>14 DEF SaveFails, GiveUp, Goto, clockVars, HaltsItsOwn, Observe
<1>15. ASSUME NEW h \in Hand, Restart(h), Observe
        PROVE  HaltsItsOwn'
  <2>1. ASSUME NEW g \in Hand, g # h, at'[g] # "idle"
        PROVE  Live' \subseteq contested'
    BY <1>15, <2>1, Contest DEF Restart
  <2>2. at'[h] = "idle"
    BY <1>15 DEF Restart, Run, Goto, Goroutine, JobTypeOK, TypeOK
  <2>. QED
    BY <2>1, <2>2, LiveIsNext DEF HaltsItsOwn
<1>16. ASSUME NEW h \in Hand, SetTaskName(h), Observe
        PROVE  HaltsItsOwn'
  BY <1>16 DEF SetTaskName, Goto, clockVars, Goroutine, JobTypeOK, TypeOK, HaltsItsOwn, Observe
<1>17. ASSUME NEW h \in Hand, StartClock(h), Observe
        PROVE  HaltsItsOwn'
  <2>1. ASSUME NEW g \in Hand, g # h, at'[g] # "idle"
        PROVE  Live' \subseteq contested'
    BY <1>17, <2>1, Contest DEF StartClock
  <2>2. at'[h] = "idle"
    BY <1>17 DEF StartClock, Run, Goto, Goroutine, JobTypeOK, TypeOK
  <2>. QED
    BY <2>1, <2>2, LiveIsNext DEF HaltsItsOwn
<1>18. ASSUME NEW g \in Goroutine, Reload(g), Observe
        PROVE  HaltsItsOwn'
  BY <1>18 DEF Reload, Goto, clockVars, Goroutine, JobTypeOK, TypeOK, HaltsItsOwn, Observe
<1>19. ASSUME NEW g \in Goroutine, Fill(g), Observe
        PROVE  HaltsItsOwn'
  BY <1>19 DEF Fill, Goto, clockVars, HaltsItsOwn, Observe
<1>20. CASE UNCHANGED vars
  BY <1>20 DEF vars, clockVars, HaltsItsOwn
<1>. QED
  BY <1>1, <1>2, <1>3, <1>4, <1>5, <1>6, <1>7, <1>8, <1>9, <1>10, <1>11, <1>12, <1>13, <1>14,
     <1>15, <1>16, <1>17, <1>18, <1>19, <1>20 DEF Next, User, Handle

\* No step makes a handler start the clock over a session that is not contested.
LEMMA StartStep ==
    ASSUME TypeOK, JobsFit, StartsAlone, [Next]_vars
    PROVE  StartsAlone'
<1>1. CASE PressToggle /\ Observe
  BY <1>1 DEF PressToggle, Take, Begin, clockVars, Goroutine, JobTypeOK, TypeOK, StartsAlone,
     Observe
<1>2. CASE PressLap /\ Observe
  BY <1>2 DEF PressLap, Take, Begin, clockVars, StartsAlone, Observe
<1>3. CASE PressReset /\ Observe
  BY <1>3 DEF PressReset, clockVars, StartsAlone, Observe
<1>4. CASE Decline /\ Observe
  BY <1>4 DEF Decline, clockVars, StartsAlone, Observe
<1>5. CASE Discard /\ Observe
  BY <1>5 DEF Discard, StartsAlone
<1>6. ASSUME NEW t \in Tray, TrayStop(t), Observe
        PROVE  StartsAlone'
  BY <1>6 DEF TrayStop, Take, Begin, clockVars, StartsAlone, Observe
<1>7. ASSUME NEW h \in Hand, NEW n \in Name, SwitchTask(h, n), Observe
        PROVE  StartsAlone'
  BY <1>7 DEF SwitchTask, Take, Begin, clockVars, Goroutine, JobTypeOK, TypeOK, StartsAlone,
     Observe
<1>8. ASSUME NEW n \in Text, Type(n), Observe
        PROVE  StartsAlone'
  BY <1>8 DEF Type, clockVars, StartsAlone
<1>9. ASSUME NEW n \in Name, Reopen(n), Observe
        PROVE  StartsAlone'
  BY <1>9 DEF Reopen, clockVars, StartsAlone, Observe
<1>10. ASSUME NEW g \in {Window, Poller}, Refresh(g), Observe
        PROVE  StartsAlone'
  BY <1>10 DEF Refresh, clockVars, StartsAlone
<1>11. ASSUME NEW h \in Hand, Halt(h), Observe
        PROVE  StartsAlone'
  BY <1>11 DEF Halt, StartsAlone
<1>12. ASSUME NEW h \in Hand, HaltTwice(h), Observe
        PROVE  StartsAlone'
  BY <1>12 DEF HaltTwice, clockVars, StartsAlone, Observe
<1>13. ASSUME NEW h \in Hand, Save(h), Observe
        PROVE  StartsAlone'
  BY <1>13 DEF Save, clockVars, StartsAlone, Observe
<1>14. ASSUME NEW h \in Hand, SaveFails(h), Observe
        PROVE  StartsAlone'
  BY <1>14 DEF SaveFails, clockVars, StartsAlone, Observe
<1>15. ASSUME NEW h \in Hand, Restart(h), Observe
        PROVE  StartsAlone'
  <2>1. ASSUME NEW g \in Hand, g # h, at'[g] # "idle"
        PROVE  Live' \subseteq contested'
    BY <1>15, <2>1, Contest DEF Restart
  <2>2. at'[h] = "idle"
    BY <1>15 DEF Restart, Run, Goto, Goroutine, JobTypeOK, TypeOK
  <2>. QED
    BY <2>1, <2>2, LiveIsNext DEF StartsAlone
<1>16. ASSUME NEW h \in Hand, SetTaskName(h), Observe
        PROVE  StartsAlone'
  BY <1>16 DEF SetTaskName, Goto, clockVars, Goroutine, JobTypeOK, TypeOK, StartsAlone, Observe
<1>17. ASSUME NEW h \in Hand, StartClock(h), Observe
        PROVE  StartsAlone'
  <2>1. ASSUME NEW g \in Hand, g # h, at'[g] # "idle"
        PROVE  Live' \subseteq contested'
    BY <1>17, <2>1, Contest DEF StartClock
  <2>2. at'[h] = "idle"
    BY <1>17 DEF StartClock, Run, Goto, Goroutine, JobTypeOK, TypeOK
  <2>. QED
    BY <2>1, <2>2, LiveIsNext DEF StartsAlone
<1>18. ASSUME NEW g \in Goroutine, Reload(g), Observe
        PROVE  StartsAlone'
  BY <1>18 DEF Reload, Goto, clockVars, Goroutine, JobTypeOK, TypeOK, StartsAlone, Observe
<1>19. ASSUME NEW g \in Goroutine, Fill(g), Observe
        PROVE  StartsAlone'
  BY <1>19 DEF Fill, Goto, clockVars, StartsAlone, Observe
<1>20. CASE UNCHANGED vars
  BY <1>20 DEF vars, clockVars, StartsAlone
<1>. QED
  BY <1>1, <1>2, <1>3, <1>4, <1>5, <1>6, <1>7, <1>8, <1>9, <1>10, <1>11, <1>12, <1>13, <1>14,
     <1>15, <1>16, <1>17, <1>18, <1>19, <1>20 DEF Next, User, Handle

\* Every step keeps the names on their way to the store right.
LEMMA NamesStep ==
    ASSUME TypeOK, JobsFit, HaltsItsOwn, NamesFit, [Next]_vars
    PROVE  NamesFit'
<1>1. CASE PressToggle /\ Observe
  BY <1>1 DEF PressToggle, Take, Begin, clockVars, obsVars, Goroutine, JobTypeOK, TypeOK,
     NamesFit, Observe
<1>2. CASE PressLap /\ Observe
  BY <1>2 DEF PressLap, Take, Begin, clockVars, obsVars, JobTypeOK, TypeOK, NamesFit, Observe
<1>3. CASE PressReset /\ Observe
  BY <1>3 DEF PressReset, clockVars, obsVars, NamesFit, Observe
<1>4. CASE Decline /\ Observe
  BY <1>4 DEF Decline, clockVars, obsVars, NamesFit, Observe
<1>5. CASE Discard /\ Observe
  BY <1>5 DEF Discard, Begin, NamesFit, Observe
<1>6. ASSUME NEW t \in Tray, TrayStop(t), Observe
        PROVE  NamesFit'
  BY <1>6 DEF TrayStop, Take, Begin, clockVars, obsVars, JobTypeOK, TypeOK, NamesFit, Observe
<1>7. ASSUME NEW h \in Hand, NEW n \in Name, SwitchTask(h, n), Observe
        PROVE  NamesFit'
  BY <1>7 DEF SwitchTask, Take, Begin, clockVars, obsVars, Goroutine, JobTypeOK, TypeOK,
     NamesFit, Observe
<1>8. ASSUME NEW n \in Text, Type(n), Observe
        PROVE  NamesFit'
  BY <1>8 DEF Type, clockVars, obsVars, NamesFit, Observe
<1>9. ASSUME NEW n \in Name, Reopen(n), Observe
        PROVE  NamesFit'
  BY <1>9 DEF Reopen, WriteEntry, clockVars, NamesFit, Observe
<1>10. ASSUME NEW g \in {Window, Poller}, Refresh(g), Observe
        PROVE  NamesFit'
  BY <1>10 DEF Refresh, Begin, clockVars, obsVars, NamesFit, Observe
<1>11. ASSUME NEW h \in Hand, Halt(h), Observe
        PROVE  NamesFit'
  BY <1>11 DEF Halt, Named, GiveUp, Goto, Goroutine, JobTypeOK, TypeOK, NamesFit, Observe
<1>12. ASSUME NEW h \in Hand, HaltTwice(h), Observe
        PROVE  NamesFit'
  BY <1>12 DEF HaltTwice, clockVars, obsVars, NamesFit, Observe
<1>13. ASSUME NEW h \in Hand, Save(h), Observe
        PROVE  NamesFit'
  BY <1>13 DEF Save, Goto, clockVars, obsVars, JobTypeOK, TypeOK, NamesFit, Observe
<1>14. ASSUME NEW h \in Hand, SaveFails(h), Observe
        PROVE  NamesFit'
  BY <1>14 DEF SaveFails, GiveUp, Goto, clockVars, JobTypeOK, TypeOK, NamesFit, Observe
<1>15. ASSUME NEW h \in Hand, Restart(h), Observe
        PROVE  NamesFit'
  BY <1>15 DEF Restart, Run, Goto, Goroutine, Job, ClockTypeOK, JobTypeOK, TypeOK, JobsFit,
     NamesFit, Observe
<1>16. ASSUME NEW h \in Hand, SetTaskName(h), Observe
        PROVE  NamesFit'
  BY <1>16 DEF SetTaskName, WriteEntry, Goto, clockVars, Goroutine, JobTypeOK, TypeOK, NamesFit,
     Observe
<1>17. ASSUME NEW h \in Hand, StartClock(h), Observe
        PROVE  NamesFit'
  BY <1>17 DEF StartClock, Run, Goto, Goroutine, Job, ClockTypeOK, JobTypeOK, TypeOK, JobsFit,
     NamesFit, Observe
<1>18. ASSUME NEW g \in Goroutine, Reload(g), Observe
        PROVE  NamesFit'
  BY <1>18 DEF Reload, Goto, clockVars, obsVars, Goroutine, JobTypeOK, TypeOK, NamesFit, Observe
<1>19. ASSUME NEW g \in Goroutine, Fill(g), Observe
        PROVE  NamesFit'
  BY <1>19 DEF Fill, WriteEntry, Goto, clockVars, NamesFit, Observe
<1>20. CASE UNCHANGED vars
  BY <1>20 DEF vars, clockVars, obsVars, NamesFit
<1>. QED
  BY <1>1, <1>2, <1>3, <1>4, <1>5, <1>6, <1>7, <1>8, <1>9, <1>10, <1>11, <1>12, <1>13, <1>14,
     <1>15, <1>16, <1>17, <1>18, <1>19, <1>20 DEF Next, User, Handle

\* Every step leaves running no ticker but that of the session on the clock, the
\* contested ones apart: only Run starts one, and it starts alone.
LEMMA TickersStep ==
    ASSUME TypeOK, JobsFit, StartsAlone, TickersStop, [Next]_vars
    PROVE  TickersStop'
<1>1. contested \subseteq contested'
  BY DEF Next, Observe, vars
<1>2. CASE UNCHANGED clockVars
  BY <1>1, <1>2 DEF clockVars, Session, TickersStop
<1>3. CASE /\ running' = FALSE
           /\ UNCHANGED <<start, issued, wanted>>
           /\ closed' = (IF running THEN closed \cup {start} ELSE closed)
  BY <1>1, <1>3 DEF Session, TickersStop
<1>4. ASSUME NEW h \in Hand, at[h] \in {"restart", "run"}, Run(h)
      PROVE  TickersStop'
  <2>1. running => start \in contested
    BY <1>4 DEF StartsAlone
  <2>2. Session' = Session \cup {issued + 1} /\ start' = issued + 1 /\ running' /\ closed' = closed
    BY <1>4 DEF Run, TypeOK, ClockTypeOK, Session
  <2>. QED
    BY <1>1, <2>1, <2>2 DEF TickersStop
<1>. QED
  BY <1>2, <1>3, <1>4, Frames DEF TypeOK, ClockTypeOK, Session, TickersStop

\* Every step that appends a row appends the name its session was started under.
LEMMA NamedStep ==
    ASSUME TypeOK, JobsFit, NamesFit, NamedAsStarted, [Next]_vars
    PROVE  NamedAsStarted'
<1>1. contested \subseteq contested' /\ renamed \subseteq renamed'
  BY Frames DEF Next, Observe, vars, TypeOK, ClockTypeOK, JobTypeOK, RecordTypeOK, Session
<1>2. \A k \in Session : wanted'[k] = wanted[k]
  <2>1. UNCHANGED wanted \/ \E h \in Hand : Run(h)
    BY Frames DEF clockVars, TypeOK, ClockTypeOK, JobTypeOK, RecordTypeOK, Session
  <2>2. ASSUME NEW h \in Hand, Run(h), NEW k \in Session
        PROVE  wanted'[k] = wanted[k]
    BY <2>2 DEF Run, TypeOK, ClockTypeOK, Session
  <2>. QED
    BY <2>1, <2>2
<1>3. \A i \in DOMAIN saved : \/ saved[i].of \in renamed' \cup contested'
                              \/ saved[i].name = wanted'[saved[i].of]
  BY <1>1, <1>2 DEF NamedAsStarted, TypeOK, RecordTypeOK
<1>4. CASE saved' = saved
  BY <1>3, <1>4 DEF NamedAsStarted
<1>5. ASSUME NEW h \in Hand, at[h] = "save",
             saved' = Append(saved, [of |-> job[h].took, name |-> job[h].name])
      PROVE  NamedAsStarted'
  <2>1. job[h].took \in Session
    BY <1>5 DEF JobsFit, Goroutine, Job, TypeOK, JobTypeOK, Session
  <2>2. \/ job[h].took \in renamed' \cup contested'
        \/ job[h].name = wanted'[job[h].took]
    BY <1>1, <1>2, <1>5, <2>1 DEF NamesFit
  <2>. QED
    BY <1>3, <1>5, <2>2 DEF NamedAsStarted
<1>. QED
  BY <1>4, <1>5, Frames DEF TypeOK, ClockTypeOK, JobTypeOK, RecordTypeOK, Session

\* A step that moves nothing about a session keeps it.
LEMMA KeptSame ==
    ASSUME NEW k, Kept(k), UNCHANGED <<saved, discarded, dropped>>, (k \in Live)' <=> k \in Live
    PROVE  Kept(k)'
  BY DEF Kept, Rows, GivenUp

\* Starting the clock keeps every session: the one it starts is new, and the one it would
\* overwrite is contested.
LEMMA KeptRun ==
    ASSUME TypeOK, JobsFit, StartsAlone, Observe,
           NEW h \in Hand, at[h] \in {"restart", "run"}, Run(h),
           NEW k \in Session', k \notin contested', k \notin contested, k \in Session => Kept(k)
    PROVE  Kept(k)'
<1>1. \A g \in Hand : g # h /\ at[g] # "idle" => k \notin Live /\ k \notin Live'
  BY Contest
<1>2. /\ issued' = issued + 1 /\ start' = issued + 1 /\ running' = TRUE
      /\ UNCHANGED <<saved, discarded, dropped>>
      /\ at'[h] = "idle" /\ \A g \in Hand : g # h => at'[g] = at[g]
  BY DEF Run, Goto, TypeOK, JobTypeOK, Goroutine
<1>3. Rows(k)' = Rows(k) /\ (GivenUp(k)' <=> GivenUp(k))
  BY <1>2 DEF Rows, GivenUp
<1>4. CASE k = issued + 1
  <2>1. k \in Live'
    BY <1>2, <1>4 DEF Live, OnTheClock
  <2>2. Rows(k) = {} /\ ~GivenUp(k)
    BY <1>4 DEF Rows, GivenUp, TypeOK, ClockTypeOK, RecordTypeOK, Session
  <2>. QED
    BY <1>3, <2>1, <2>2 DEF Kept
<1>5. CASE k # issued + 1
  <2>1. k \in Session
    BY <1>2, <1>5 DEF TypeOK, ClockTypeOK, Session
  <2>2. k \notin Live
    BY <1>1 DEF StartsAlone, Live, OnTheClock, InHand
  <2>3. k \notin Live'
    BY <1>1, <1>2, <1>5 DEF Live, OnTheClock, InHand
  <2>. QED
    BY <1>3, <2>1, <2>2, <2>3 DEF Kept
<1>. QED
  BY <1>4, <1>5

\* Every step keeps every session that was kept, one action at a time.
LEMMA KeptStep ==
    ASSUME TypeOK, JobsFit, HaltsItsOwn, StartsAlone, TimeIsKept, [Next]_vars
    PROVE  TimeIsKept'
<1>. SUFFICES ASSUME NEW k \in Session', k \notin contested'
              PROVE  Kept(k)'
  BY DEF TimeIsKept, Kept
<1>kept. k \notin contested /\ (k \in Session => Kept(k))
  BY DEF Next, Observe, vars, TimeIsKept, Kept
<1>now. k \in Live <=> /\ k \in Session
                       /\ \/ running /\ start = k
                          \/ \E h \in Hand : at[h] \in {"halt", "save"} /\ job[h].took = k
  BY DEF Live, OnTheClock, InHand
<1>then. (k \in Live)' <=> \/ running' /\ start' = k
                           \/ \E h \in Hand : at'[h] \in {"halt", "save"} /\ job'[h].took = k
  BY DEF Live, OnTheClock, InHand
<1>1. CASE PressToggle /\ Observe
  BY <1>1, <1>kept, <1>now, <1>then, KeptSame DEF PressToggle, Take, Begin, TypeOK, JobTypeOK,
     Session, Goroutine, clockVars, obsVars
<1>2. CASE PressLap /\ Observe
  BY <1>2, <1>kept, <1>now, <1>then, KeptSame DEF PressLap, Take, Begin, TypeOK, JobTypeOK,
     Session, clockVars, obsVars
<1>3. CASE PressReset /\ Observe
  BY <1>3, <1>kept, <1>now, <1>then, KeptSame DEF PressReset, Session, clockVars, obsVars
<1>4. CASE Decline /\ Observe
  BY <1>4, <1>kept, <1>now, <1>then, KeptSame DEF Decline, Session, clockVars, obsVars
<1>5. CASE Discard /\ Observe
  <2>1. \A g \in Hand : g # Window /\ at[g] # "idle" => k \notin Live'
    BY <1>5, Contest DEF Discard, Begin, TypeOK, JobTypeOK, Hand, Goroutine
  <2>2. /\ at[Window] = "idle" /\ at' = [at EXCEPT ![Window] = "reload"]
        /\ job' = [job EXCEPT ![Window] = NoJob]
        /\ UNCHANGED <<start, issued, saved, dropped>> /\ running' = FALSE
        /\ discarded' = IF running THEN discarded \cup {start} ELSE discarded
    BY <1>5 DEF Discard, Begin
  <2>3. Rows(k)' = Rows(k) /\ k \in Session
    BY <2>2 DEF Rows, Session
  <2>4. CASE running /\ start = k
    <3>1. k \notin Live'
      BY <1>then, <2>1, <2>2
    <3>. QED
      BY <1>kept, <1>now, <2>2, <2>3, <2>4, <3>1 DEF Kept, GivenUp
  <2>5. CASE ~(running /\ start = k)
    <3>1. (k \in Live)' <=> k \in Live
      BY <1>now, <1>then, <2>2, <2>3, <2>5
    <3>. QED
      BY <1>kept, <2>2, <2>3, <2>5, <3>1 DEF Kept, GivenUp
  <2>. QED
    BY <2>4, <2>5
<1>6. ASSUME NEW t \in Tray, TrayStop(t), Observe
        PROVE  Kept(k)'
  BY <1>6, <1>kept, <1>now, <1>then, KeptSame DEF TrayStop, Take, Begin, TypeOK, JobTypeOK,
     Session, clockVars, obsVars
<1>7. ASSUME NEW h \in Hand, NEW n \in Name, SwitchTask(h, n), Observe
        PROVE  Kept(k)'
  BY <1>7, <1>kept, <1>now, <1>then, KeptSame DEF SwitchTask, Take, Begin, TypeOK, JobTypeOK,
     Session, Goroutine, clockVars, obsVars
<1>8. ASSUME NEW n \in Text, Type(n), Observe
        PROVE  Kept(k)'
  BY <1>8, <1>kept, <1>now, <1>then, KeptSame DEF Type, Session, clockVars, obsVars
<1>9. ASSUME NEW n \in Name, Reopen(n), Observe
        PROVE  Kept(k)'
  BY <1>9, <1>kept, <1>now, <1>then, KeptSame DEF Reopen, Session, clockVars
<1>10. ASSUME NEW g \in {Window, Poller}, Refresh(g), Observe
        PROVE  Kept(k)'
  BY <1>10, <1>kept, <1>now, <1>then, KeptSame DEF Refresh, Begin, Session, clockVars, obsVars
<1>11. ASSUME NEW h \in Hand, Halt(h), Observe
        PROVE  Kept(k)'
  <2>1. \A g \in Hand : g # h /\ at[g] # "idle" => k \notin Live /\ k \notin Live'
    BY <1>11, Contest DEF Halt
  <2>2. Rows(k)' = Rows(k) /\ k \in Session /\ discarded' = discarded /\ ~running'
    BY <1>11 DEF Halt, Rows, Session
  <2>3. CASE job[h].took = k
    <3>1. k \in Live
      BY <1>now, <1>11, <2>2, <2>3 DEF Halt
    <3>2. CASE job[h].name = Blank
      <4>1. at'[h] \notin {"halt", "save"} /\ dropped' = dropped \cup {k}
        BY <1>11, <2>3, <3>2 DEF Halt, Named, GiveUp, Goto, TypeOK, JobTypeOK, Goroutine
      <4>2. k \notin Live'
        BY <1>then, <1>11, <2>1, <4>1 DEF Halt, Named, GiveUp, Goto, TypeOK, JobTypeOK,
           Goroutine
      <4>. QED
        BY <1>kept, <2>2, <3>1, <4>1, <4>2 DEF Kept, GivenUp
    <3>3. CASE job[h].name # Blank
      <4>1. at'[h] = "save" /\ job' = job /\ dropped' = dropped
        BY <1>11, <3>3 DEF Halt, Named, Goto, TypeOK, JobTypeOK, Goroutine
      <4>2. k \in Live'
        BY <1>then, <2>3, <4>1
      <4>. QED
        BY <1>kept, <2>2, <3>1, <4>1, <4>2 DEF Kept, GivenUp
    <3>. QED
      BY <3>2, <3>3
  <2>4. CASE job[h].took # k
    <3>1. k \notin Live
      BY <1>kept, <1>now, <1>11, <2>1, <2>4 DEF Halt, HaltsItsOwn
    <3>2. k \notin Live'
      BY <1>then, <1>11, <2>1, <2>4 DEF Halt, Named, GiveUp, Goto, TypeOK, JobTypeOK, Goroutine
    <3>3. dropped' \in {dropped, dropped \cup {job[h].took}}
      BY <1>11 DEF Halt, Named
    <3>. QED
      BY <1>kept, <2>2, <2>4, <3>1, <3>2, <3>3 DEF Kept, GivenUp
  <2>. QED
    BY <2>3, <2>4
<1>12. ASSUME NEW h \in Hand, HaltTwice(h), Observe
        PROVE  Kept(k)'
  BY <1>12, <1>kept, <1>now, <1>then, KeptSame DEF HaltTwice, Session, clockVars, obsVars
<1>13. ASSUME NEW h \in Hand, Save(h), Observe
        PROVE  Kept(k)'
  <2>1. \A g \in Hand : g # h /\ at[g] # "idle" => k \notin Live /\ k \notin Live'
    BY <1>13, Contest DEF Save
  <2>2. k \in Session /\ UNCHANGED <<running, start, discarded>>
    BY <1>13 DEF Save, Session, clockVars, obsVars
  <2>3. at'[h] \notin {"halt", "save"} /\ \A g \in Hand : g # h => at'[g] = at[g]
    BY <1>13 DEF Save, Goto, Job, TypeOK, JobTypeOK, Goroutine, NoJob
  <2>4. k \notin Live'
    <3>1. ~(running /\ start = k)
      BY <1>kept, <1>13 DEF StartsAlone, Save
    <3>. QED
      BY <1>then, <2>1, <2>2, <2>3, <3>1
  <2>5. k \in Live <=> job[h].took = k
    BY <1>kept, <1>now, <1>13, <2>1, <2>2 DEF StartsAlone, Save
  <2>6. UNCHANGED dropped /\ saved' = Append(saved, [of |-> job[h].took, name |-> job[h].name])
    BY <1>13 DEF Save, obsVars
  <2>7. Rows(k)' = Rows(k) \cup (IF job[h].took = k THEN {Len(saved) + 1} ELSE {})
    BY <2>6 DEF Rows
  <2>. QED
    BY <1>kept, <2>2, <2>4, <2>5, <2>6, <2>7 DEF Kept, GivenUp
<1>14. ASSUME NEW h \in Hand, SaveFails(h), Observe
        PROVE  Kept(k)'
  <2>1. \A g \in Hand : g # h /\ at[g] # "idle" => k \notin Live /\ k \notin Live'
    BY <1>14, Contest DEF SaveFails
  <2>2. k \in Session /\ UNCHANGED <<running, start, discarded>>
    BY <1>14 DEF SaveFails, Session, clockVars
  <2>3. at'[h] \notin {"halt", "save"} /\ \A g \in Hand : g # h => at'[g] = at[g]
    BY <1>14 DEF SaveFails, GiveUp, Goto, TypeOK, JobTypeOK, Goroutine
  <2>4. k \notin Live'
    <3>1. ~(running /\ start = k)
      BY <1>kept, <1>14 DEF StartsAlone, SaveFails
    <3>. QED
      BY <1>then, <2>1, <2>2, <2>3, <3>1
  <2>5. k \in Live <=> job[h].took = k
    BY <1>kept, <1>now, <1>14, <2>1, <2>2 DEF StartsAlone, SaveFails
  <2>6. dropped' = dropped \cup {job[h].took} /\ Rows(k)' = Rows(k)
    BY <1>14 DEF SaveFails, Rows
  <2>. QED
    BY <1>kept, <2>2, <2>4, <2>5, <2>6 DEF Kept, GivenUp
<1>15. ASSUME NEW h \in Hand, Restart(h), Observe
        PROVE  Kept(k)'
  <2>1. at[h] = "restart" /\ Run(h)
    BY <1>15 DEF Restart
  <2>. QED
    BY <1>kept, <1>15, <2>1, KeptRun
<1>16. ASSUME NEW h \in Hand, SetTaskName(h), Observe
        PROVE  Kept(k)'
  BY <1>16, <1>kept, <1>now, <1>then, KeptSame DEF SetTaskName, Goto, TypeOK, JobTypeOK,
     Session, Goroutine, clockVars
<1>17. ASSUME NEW h \in Hand, StartClock(h), Observe
        PROVE  Kept(k)'
  <2>1. at[h] = "run" /\ Run(h)
    BY <1>17 DEF StartClock
  <2>. QED
    BY <1>kept, <1>17, <2>1, KeptRun
<1>18. ASSUME NEW g \in Goroutine, Reload(g), Observe
        PROVE  Kept(k)'
  BY <1>18, <1>kept, <1>now, <1>then, KeptSame DEF Reload, Goto, TypeOK, JobTypeOK, Session,
     Goroutine, clockVars, obsVars
<1>19. ASSUME NEW g \in Goroutine, Fill(g), Observe
        PROVE  Kept(k)'
  BY <1>19, <1>kept, <1>now, <1>then, KeptSame DEF Fill, Goto, Session, clockVars
<1>20. CASE UNCHANGED vars
  BY <1>20, <1>kept, <1>now, <1>then, KeptSame DEF vars, clockVars, obsVars, Session
<1>. QED
  BY <1>1, <1>2, <1>3, <1>4, <1>5, <1>6, <1>7, <1>8, <1>9, <1>10, <1>11, <1>12, <1>13, <1>14,
     <1>15, <1>16, <1>17, <1>18, <1>19, <1>20 DEF Next, User, Handle

\* A session that becomes live was live before, or is the one the clock was started for.
LEMMA LiveWas ==
    ASSUME TypeOK, JobsFit, [Next]_vars, NEW k \in Live'
    PROVE  k \in Live \/ k = issued + 1
<1>is. /\ running => start \in Live
       /\ \A h \in Hand : at[h] \in {"halt", "save"} => job[h].took \in Live
  BY LiveIs
<1>then. \/ running' /\ start' = k
         \/ \E h \in Hand : at'[h] \in {"halt", "save"} /\ job'[h].took = k
  BY DEF Live, OnTheClock, InHand
<1>1. CASE PressToggle /\ Observe
  BY <1>1, <1>is, <1>then DEF PressToggle, Take, Begin, TypeOK, JobTypeOK, Goroutine, clockVars
<1>2. CASE PressLap /\ Observe
  BY <1>2, <1>is, <1>then DEF PressLap, Take, Begin, TypeOK, JobTypeOK, Goroutine, clockVars
<1>3. CASE PressReset /\ Observe
  BY <1>3, <1>is, <1>then DEF PressReset, clockVars
<1>4. CASE Decline /\ Observe
  BY <1>4, <1>is, <1>then DEF Decline, clockVars
<1>5. CASE Discard /\ Observe
  BY <1>5, <1>is, <1>then DEF Discard, Begin, TypeOK, JobTypeOK, Goroutine
<1>6. ASSUME NEW t \in Tray, TrayStop(t), Observe
        PROVE  k \in Live \/ k = issued + 1
  BY <1>6, <1>is, <1>then DEF TrayStop, Take, Begin, TypeOK, JobTypeOK, Goroutine, clockVars
<1>7. ASSUME NEW h \in Hand, NEW n \in Name, SwitchTask(h, n), Observe
        PROVE  k \in Live \/ k = issued + 1
  BY <1>7, <1>is, <1>then DEF SwitchTask, Take, Begin, TypeOK, JobTypeOK, Goroutine, clockVars
<1>8. ASSUME NEW n \in Text, Type(n), Observe
        PROVE  k \in Live \/ k = issued + 1
  BY <1>8, <1>is, <1>then DEF Type, clockVars
<1>9. ASSUME NEW n \in Name, Reopen(n), Observe
        PROVE  k \in Live \/ k = issued + 1
  BY <1>9, <1>is, <1>then DEF Reopen, clockVars
<1>10. ASSUME NEW g \in {Window, Poller}, Refresh(g), Observe
        PROVE  k \in Live \/ k = issued + 1
  BY <1>10, <1>is, <1>then DEF Refresh, Begin, TypeOK, JobTypeOK, Goroutine, clockVars
<1>11. ASSUME NEW h \in Hand, Halt(h), Observe
        PROVE  k \in Live \/ k = issued + 1
  BY <1>11, <1>is, <1>then DEF Halt, Named, GiveUp, Goto, TypeOK, JobTypeOK, Goroutine
<1>12. ASSUME NEW h \in Hand, HaltTwice(h), Observe
        PROVE  k \in Live \/ k = issued + 1
  BY <1>12, <1>is, <1>then DEF HaltTwice, clockVars
<1>13. ASSUME NEW h \in Hand, Save(h), Observe
        PROVE  k \in Live \/ k = issued + 1
  BY <1>13, <1>is, <1>then DEF Save, Goto, Job, TypeOK, JobTypeOK, Goroutine, clockVars
<1>14. ASSUME NEW h \in Hand, SaveFails(h), Observe
        PROVE  k \in Live \/ k = issued + 1
  BY <1>14, <1>is, <1>then DEF SaveFails, GiveUp, Goto, TypeOK, JobTypeOK, Goroutine, clockVars
<1>15. ASSUME NEW h \in Hand, Restart(h), Observe
        PROVE  k \in Live \/ k = issued + 1
  BY <1>15, <1>is, <1>then DEF Restart, Run, Goto, TypeOK, JobTypeOK, Goroutine
<1>16. ASSUME NEW h \in Hand, SetTaskName(h), Observe
        PROVE  k \in Live \/ k = issued + 1
  BY <1>16, <1>is, <1>then DEF SetTaskName, Goto, TypeOK, JobTypeOK, Goroutine, clockVars
<1>17. ASSUME NEW h \in Hand, StartClock(h), Observe
        PROVE  k \in Live \/ k = issued + 1
  BY <1>17, <1>is, <1>then DEF StartClock, Run, Goto, TypeOK, JobTypeOK, Goroutine
<1>18. ASSUME NEW g \in Goroutine, Reload(g), Observe
        PROVE  k \in Live \/ k = issued + 1
  BY <1>18, <1>is, <1>then DEF Reload, Goto, TypeOK, JobTypeOK, Goroutine, clockVars
<1>19. ASSUME NEW g \in Goroutine, Fill(g), Observe
        PROVE  k \in Live \/ k = issued + 1
  BY <1>19, <1>is, <1>then DEF Fill, Goto, TypeOK, JobTypeOK, Goroutine, clockVars
<1>20. CASE UNCHANGED vars
  BY <1>20, <1>is, <1>then DEF vars, clockVars
<1>. QED
  BY <1>1, <1>2, <1>3, <1>4, <1>5, <1>6, <1>7, <1>8, <1>9, <1>10, <1>11, <1>12, <1>13, <1>14,
     <1>15, <1>16, <1>17, <1>18, <1>19, <1>20 DEF Next, User, Handle

\* The phase of a session that is kept is told by the table and by what was given up alone.
LEMMA PhaseIs ==
    ASSUME NEW k \in Session, k \notin contested, Kept(k)
    PROVE  /\ Rows(k) = {} /\ ~GivenUp(k) => k \in Live /\ PhaseOf(k) = "timed"
           /\ Rows(k) # {} => k \notin Live /\ ~GivenUp(k) /\ PhaseOf(k) = "stored"
           /\ GivenUp(k) => k \notin Live /\ Rows(k) = {} /\ PhaseOf(k) = "givenUp"
<1>1. CASE Rows(k) = {} /\ ~GivenUp(k)
  BY <1>1 DEF Kept, PhaseOf
<1>2. CASE Rows(k) # {}
  <2>1. ~GivenUp(k) /\ k \notin Live
    BY <1>2 DEF Kept
  <2>2. \E i \in Rows(k) : Rows(k) = {i}
    BY <1>2 DEF Kept
  <2>. QED
    BY <1>2, <2>1, <2>2 DEF PhaseOf
<1>3. CASE GivenUp(k)
  BY <1>3 DEF Kept, PhaseOf
<1>. QED
  BY <1>1, <1>2, <1>3

\* The inductive invariant.
IInv == TypeOK /\ JobsFit /\ HaltsItsOwn /\ StartsAlone

\* It holds at the start.
LEMMA InitIInv == Init => IInv
<1>1. Init => JobsFit /\ HaltsItsOwn /\ StartsAlone
  BY DEF JobsFit, HaltsItsOwn, StartsAlone, Goroutine, Init
<1>. QED
  BY <1>1, TypeInit DEF IInv

\* It is inductive.
LEMMA StepIInv == IInv /\ [Next]_vars => IInv'
  BY TypeStep, FitStep, HaltStep, StartStep DEF IInv

\* In every reachable state locals fit their labels, a handler halts its own session, and
\* a handler that starts the clock finds it stopped, unless the session is contested.
THEOREM Invariance == Spec => []IInv
  BY InitIInv, StepIInv, PTL DEF Spec

\* The same after a step.
LEMMA PhaseIsNext ==
    ASSUME NEW k \in Session', k \notin contested', Kept(k)'
    PROVE  /\ Rows(k)' = {} /\ ~GivenUp(k)' => k \in Live' /\ PhaseOf(k)' = "timed"
           /\ Rows(k)' # {} => k \notin Live' /\ ~GivenUp(k)' /\ PhaseOf(k)' = "stored"
           /\ GivenUp(k)' => k \notin Live' /\ Rows(k)' = {} /\ PhaseOf(k)' = "givenUp"
<1>1. CASE Rows(k)' = {} /\ ~GivenUp(k)'
  BY <1>1 DEF Kept, PhaseOf
<1>2. CASE Rows(k)' # {}
  <2>1. ~GivenUp(k)' /\ k \notin Live'
    BY <1>2 DEF Kept
  <2>2. \E i \in Rows(k)' : Rows(k)' = {i}
    BY <1>2 DEF Kept
  <2>. QED
    BY <1>2, <2>1, <2>2 DEF PhaseOf
<1>3. CASE GivenUp(k)'
  BY <1>3 DEF Kept, PhaseOf
<1>. QED
  BY <1>1, <1>2, <1>3

\* What a step does to the records: nothing, or it adds to those of one session, and then
\* none is begun.
LEMMA Ends ==
    ASSUME TypeOK, JobsFit, [Next]_vars
    PROVE  /\ issued' \in {issued, issued + 1}
           /\ \/ \A k : Rows(k)' = Rows(k) /\ (GivenUp(k)' <=> GivenUp(k))
              \/ /\ issued' = issued
                 /\ \E e \in Session :
                      /\ Rows(e) \subseteq Rows(e)' /\ (GivenUp(e) => GivenUp(e)')
                      /\ \A k : k # e => Rows(k)' = Rows(k) /\ (GivenUp(k)' <=> GivenUp(k))
<1>1. issued' \in {issued, issued + 1}
  BY Frames DEF clockVars, Run
<1>2. ASSUME NEW h \in Hand, at[h] = "save", issued' = issued,
             UNCHANGED <<discarded, dropped>>,
             saved' = Append(saved, [of |-> job[h].took, name |-> job[h].name])
      PROVE  \E e \in Session :
                /\ Rows(e) \subseteq Rows(e)' /\ (GivenUp(e) => GivenUp(e)')
                /\ \A k : k # e => Rows(k)' = Rows(k) /\ (GivenUp(k)' <=> GivenUp(k))
  <2>1. job[h].took \in Session
    BY <1>2 DEF JobsFit, Goroutine, Job, TypeOK, JobTypeOK, Session
  <2>2. \A k : Rows(k)' = Rows(k) \cup (IF job[h].took = k THEN {Len(saved) + 1} ELSE {})
    BY <1>2 DEF Rows, TypeOK, RecordTypeOK
  <2>3. \A k : GivenUp(k)' <=> GivenUp(k)
    BY <1>2 DEF GivenUp
  <2>. QED
    BY <2>1, <2>2, <2>3
<1>3. ASSUME NEW e \in Session, saved' = saved, discarded \subseteq discarded', dropped \subseteq dropped',
             discarded' \cup dropped' \subseteq discarded \cup dropped \cup {e}
      PROVE  \E x \in Session :
                /\ Rows(x) \subseteq Rows(x)' /\ (GivenUp(x) => GivenUp(x)')
                /\ \A k : k # x => Rows(k)' = Rows(k) /\ (GivenUp(k)' <=> GivenUp(k))
  <2>1. \A k : Rows(k)' = Rows(k)
    BY <1>3 DEF Rows
  <2>2. \A k : (GivenUp(k) => GivenUp(k)') /\ (k # e => (GivenUp(k)' <=> GivenUp(k)))
    BY <1>3 DEF GivenUp
  <2>. QED
    BY <2>1, <2>2
<1>4. ASSUME UNCHANGED <<saved, discarded, dropped>>
      PROVE  \A k : Rows(k)' = Rows(k) /\ (GivenUp(k)' <=> GivenUp(k))
  BY <1>4 DEF Rows, GivenUp
<1>5. CASE Discard
  <2>1. /\ saved' = saved /\ dropped' = dropped /\ issued' = issued
        /\ discarded' = IF running THEN discarded \cup {start} ELSE discarded
    BY <1>5 DEF Discard
  <2>2. running => start \in Session
    BY DEF JobsFit, TypeOK, ClockTypeOK, Session
  <2>3. CASE running
    BY <1>3, <2>1, <2>2, <2>3
  <2>4. CASE ~running
    BY <1>4, <2>1, <2>4
  <2>. QED
    BY <1>1, <2>1, <2>3, <2>4
<1>6. ASSUME NEW h \in Hand, Halt(h) \/ SaveFails(h)
      PROVE  /\ issued' = issued
             /\ \E e \in Session :
                  /\ Rows(e) \subseteq Rows(e)' /\ (GivenUp(e) => GivenUp(e)')
                  /\ \A k : k # e => Rows(k)' = Rows(k) /\ (GivenUp(k)' <=> GivenUp(k))
  <2>1. /\ saved' = saved /\ discarded' = discarded /\ issued' = issued
        /\ dropped' \in {dropped, dropped \cup {job[h].took}} /\ at[h] \in {"halt", "save"}
    BY <1>6 DEF Halt, Named, SaveFails, clockVars
  <2>2. job[h].took \in Session
    BY <2>1 DEF JobsFit, Goroutine, Job, TypeOK, JobTypeOK, Session
  <2>. QED
    BY <1>3, <2>1, <2>2
<1>7. \/ Discard
      \/ \E h \in Hand : Halt(h) \/ SaveFails(h)
      \/ UNCHANGED <<saved, discarded, dropped>>
      \/ \E h \in Hand : Save(h)
  BY DEF Next, User, Handle, vars, obsVars, PressToggle, PressLap, PressReset, Decline,
     TrayStop, SwitchTask, Type, Reopen, Refresh, HaltTwice, Restart,
     StartClock, Run, SetTaskName, Reload, Fill
<1>8. ASSUME NEW h \in Hand, Save(h)
      PROVE  /\ at[h] = "save" /\ issued' = issued /\ UNCHANGED <<discarded, dropped>>
             /\ saved' = Append(saved, [of |-> job[h].took, name |-> job[h].name])
  BY <1>8 DEF Save, clockVars, obsVars
<1>. QED
  BY <1>1, <1>2, <1>4, <1>5, <1>6, <1>7, <1>8

\* A step of the timer is a step of the stopwatch: if handlers overlap, it contests what is
\* live; if not, it begins or ends at most one session.
LEMMA StopwatchStep ==
    ASSUME IInv, TimeIsKept, [Next]_vars
    PROVE  [Watch!Next]_Phases
<1>. USE DEF IInv
<1>1. IInv' /\ TimeIsKept'
  BY StepIInv, KeptStep
<1>2. /\ \A k \in Session \ contested : Kept(k)
      /\ \A k \in Session' \ contested' : Kept(k)'
  BY <1>1 DEF TimeIsKept, Kept
<1>3. /\ issued \in Nat /\ Session = 1..issued /\ Session' = 1..issued'
      /\ contested \subseteq Session /\ contested' \subseteq Session'
      /\ \A k : k \notin Session => Rows(k) = {} /\ ~GivenUp(k)
  BY <1>1 DEF TypeOK, ClockTypeOK, RecordTypeOK, Session, Rows, GivenUp
<1>4. \/ contested' = contested
      \/ contested' = contested \cup Live \cup Live'
  BY DEF Next, Observe, vars
<1>5. \A k \in Live' : k \in Live \/ k = issued + 1
  BY LiveWas
<1>6. \A k \in Session \ contested :
        /\ Rows(k) = {} /\ ~GivenUp(k) => k \in Live /\ PhaseOf(k) = "timed"
        /\ Rows(k) # {} => k \notin Live /\ ~GivenUp(k) /\ PhaseOf(k) = "stored"
        /\ GivenUp(k) => k \notin Live /\ Rows(k) = {} /\ PhaseOf(k) = "givenUp"
  BY <1>2, PhaseIs
<1>7. \A k \in Session' \ contested' :
        /\ Rows(k)' = {} /\ ~GivenUp(k)' => k \in Live' /\ PhaseOf(k)' = "timed"
        /\ Rows(k)' # {} => k \notin Live' /\ ~GivenUp(k)' /\ PhaseOf(k)' = "stored"
        /\ GivenUp(k)' => k \notin Live' /\ Rows(k)' = {} /\ PhaseOf(k)' = "givenUp"
  BY <1>2, PhaseIsNext
<1>8. ASSUME NEW k, k \notin Session', k \notin Session
      PROVE  PhaseOf(k)' = PhaseOf(k)
  BY <1>8 DEF PhaseOf
<1>9. ASSUME NEW k \in contested, k \in contested'
      PROVE  PhaseOf(k)' = PhaseOf(k)
  BY <1>3, <1>9 DEF PhaseOf
<1>10. \A k : k \in Session => k \in Session'
  <2>1. issued' \in {issued, issued + 1}
    BY Ends
  <2>. QED
    BY <1>3, <2>1
\* No record but of a session whose time was kept.
<1>11. ASSUME NEW k \in Session, k \notin contested, k \notin contested',
              Rows(k)' = Rows(k), GivenUp(k)' <=> GivenUp(k)
       PROVE  PhaseOf(k)' = PhaseOf(k)
  <2>1. k \in Session \ contested /\ k \in Session' \ contested'
    BY <1>10, <1>11
  <2>. QED
    BY <1>6, <1>7, <1>11, <2>1
<1>12. CASE contested' = contested
  <2>1. ASSUME \A k : Rows(k)' = Rows(k) /\ (GivenUp(k)' <=> GivenUp(k)), issued' = issued
        PROVE  \A k : PhaseOf(k)' = PhaseOf(k)
    <3>. TAKE k
    <3>. QED
      BY <1>3, <1>8, <1>9, <1>11, <1>12, <2>1
  <2>2. ASSUME \A k : Rows(k)' = Rows(k) /\ (GivenUp(k)' <=> GivenUp(k)),
               NEW d, d = issued + 1, issued' = d
        PROVE  /\ PhaseOf(d) = "new" /\ PhaseOf(d)' = "timed"
               /\ \A k : k # d => PhaseOf(k)' = PhaseOf(k)
    <3>1. d \notin Session /\ d \in Session' \ contested'
      BY <1>3, <1>12, <2>2
    <3>2. PhaseOf(d) = "new"
      BY <3>1 DEF PhaseOf
    <3>3. PhaseOf(d)' = "timed"
      <4>1. Rows(d) = {} /\ ~GivenUp(d)
        BY <1>3, <3>1
      <4>2. Rows(d)' = {} /\ ~GivenUp(d)'
        BY <2>2, <4>1
      <4>. QED
        BY <1>7, <3>1, <4>2
    <3>4. ASSUME NEW k, k # d
          PROVE  PhaseOf(k)' = PhaseOf(k)
      <4>1. k \in Session' => k \in Session
        BY <1>3, <2>2, <3>4
      <4>. QED
        BY <1>8, <1>9, <1>11, <1>12, <2>2, <4>1
    <3>. QED
      BY <3>2, <3>3, <3>4
  <2>3. ASSUME issued' = issued, NEW e \in Session,
               Rows(e) \subseteq Rows(e)', GivenUp(e) => GivenUp(e)',
               \A k : k # e => Rows(k)' = Rows(k) /\ (GivenUp(k)' <=> GivenUp(k))
        PROVE  /\ \A k : k # e => PhaseOf(k)' = PhaseOf(k)
               /\ \/ PhaseOf(e)' = PhaseOf(e)
                  \/ PhaseOf(e) = "timed" /\ PhaseOf(e)' \in {"stored", "givenUp"}
    <3>1. ASSUME NEW k, k # e
          PROVE  PhaseOf(k)' = PhaseOf(k)
      BY <1>3, <1>8, <1>9, <1>11, <1>12, <2>3, <3>1
    <3>2. CASE e \in contested
      BY <1>9, <1>12, <3>1, <3>2
    <3>3. CASE e \notin contested
      <4>1. e \in Session \ contested /\ e \in Session' \ contested'
        BY <1>10, <1>12, <3>3
      <4>2. \/ PhaseOf(e)' = PhaseOf(e)
            \/ PhaseOf(e) = "timed" /\ PhaseOf(e)' \in {"stored", "givenUp"}
        BY <1>6, <1>7, <2>3, <4>1
      <4>. QED
        BY <3>1, <4>2
    <3>. QED
      BY <3>2, <3>3
  <2>4. \/ \A k : PhaseOf(k)' = PhaseOf(k)
        \/ \E e \in Nat : /\ \A k : k # e => PhaseOf(k)' = PhaseOf(k)
                          /\ \/ PhaseOf(e) = "new" /\ PhaseOf(e)' = "timed"
                             \/ PhaseOf(e) = "timed" /\ PhaseOf(e)' \in {"stored", "givenUp"}
    <3>1. Session \subseteq Nat /\ issued + 1 \in Nat
      BY <1>3
    <3>2. CASE /\ \A k : Rows(k)' = Rows(k) /\ (GivenUp(k)' <=> GivenUp(k))
               /\ issued' = issued
      BY <2>1, <3>2
    <3>3. CASE /\ \A k : Rows(k)' = Rows(k) /\ (GivenUp(k)' <=> GivenUp(k))
               /\ issued' = issued + 1
      <4>1. PICK d \in Nat : d = issued + 1
        BY <3>1
      <4>. QED
        BY <2>2, <3>3, <4>1
    <3>4. ASSUME issued' = issued, NEW e \in Session,
                 Rows(e) \subseteq Rows(e)', GivenUp(e) => GivenUp(e)',
                 \A k : k # e => Rows(k)' = Rows(k) /\ (GivenUp(k)' <=> GivenUp(k))
          PROVE  \E d \in Nat : /\ \A k : k # d => PhaseOf(k)' = PhaseOf(k)
                                /\ \/ PhaseOf(d)' = PhaseOf(d)
                                   \/ /\ PhaseOf(d) = "timed"
                                      /\ PhaseOf(d)' \in {"stored", "givenUp"}
      BY <2>3, <3>1, <3>4
    <3>. QED
      BY <3>2, <3>3, <3>4, Ends
  <2>5. CASE \A k : PhaseOf(k)' = PhaseOf(k)
    BY <2>5 DEF Phases
  <2>6. ASSUME NEW e \in Nat, \A k : k # e => PhaseOf(k)' = PhaseOf(k),
               \/ PhaseOf(e) = "new" /\ PhaseOf(e)' = "timed"
               \/ PhaseOf(e) = "timed" /\ PhaseOf(e)' \in {"stored", "givenUp"}
        PROVE  [Watch!Next]_Phases
    <3>1. CASE e \notin 1..MaxSessions
      BY <2>6, <3>1 DEF Phases
    <3>2. CASE e \in 1..MaxSessions
      <4>1. Phases[e] = PhaseOf(e) /\ Phases' = [Phases EXCEPT ![e] = PhaseOf(e)']
        BY <2>6, <3>2 DEF Phases
      <4>2. Watch!Begin(e) \/ Watch!Store(e) \/ Watch!GiveUp(e)
        BY <2>6, <4>1 DEF Watch!Begin, Watch!Store, Watch!GiveUp
      <4>. QED
        BY <3>2, <4>2 DEF Watch!Next
    <3>. QED
      BY <3>1, <3>2
  <2>. QED
    BY <2>4, <2>5, <2>6
<1>13. CASE contested' = contested \cup Live \cup Live'
  <2>1. ASSUME NEW k \in Session', k \notin contested'
        PROVE  PhaseOf(k)' = PhaseOf(k)
    <3>1. k \notin Live /\ k \notin Live' /\ k \notin contested
      BY <1>13, <2>1
    <3>2. Rows(k)' # {} \/ GivenUp(k)'
      BY <1>7, <2>1, <3>1
    <3>3. k \in Session
      BY <1>3, <3>2, Ends
    <3>4. Rows(k) # {} \/ GivenUp(k)
      BY <1>6, <3>1, <3>3
    <3>5. Rows(k) \subseteq Rows(k)' /\ (GivenUp(k) => GivenUp(k)')
      BY Ends
    <3>. QED
      BY <1>6, <1>7, <2>1, <3>1, <3>3, <3>4, <3>5
  <2>2. ASSUME NEW k \in contested', k \notin contested
        PROVE  PhaseOf(k) \in {"new", "timed"} /\ PhaseOf(k)' = "contested"
    <3>1. PhaseOf(k)' = "contested"
      BY <1>3, <2>2 DEF PhaseOf
    <3>2. CASE k \notin Session
      BY <3>1, <3>2 DEF PhaseOf
    <3>3. CASE k \in Session
      <4>1. k \in Live
        BY <1>3, <1>5, <1>13, <2>2, <3>3
      <4>. QED
        BY <1>6, <2>2, <3>1, <3>3, <4>1
    <3>. QED
      BY <3>2, <3>3
  <2>3. ASSUME NEW k, k \notin contested' \ contested
        PROVE  PhaseOf(k)' = PhaseOf(k)
    BY <1>8, <1>9, <1>10, <1>13, <2>1, <2>3
  <2>. DEFINE S == (contested' \ contested) \cap 1..MaxSessions
  <2>4. \A k \in S : Phases[k] \in {"new", "timed"}
    BY <2>2 DEF Phases
  <2>5. Phases' = [k \in 1..MaxSessions |-> IF k \in S THEN "contested" ELSE Phases[k]]
    BY <2>2, <2>3 DEF Phases
  <2>6. Watch!Contest(S)
    <3>. HIDE DEF S
    <3>. QED
      BY <2>4, <2>5 DEF Watch!Contest
  <2>7. S \in SUBSET (1..MaxSessions)
    OBVIOUS
  <2>. QED
    BY <2>6, <2>7 DEF Watch!Next
<1>. QED
  BY <1>4, <1>12, <1>13

\* At the start nothing is begun.
LEMMA StopwatchInit == Init => Watch!Init
<1>. SUFFICES ASSUME Init PROVE Watch!Init
  OBVIOUS
<1>1. \A k : k \notin Session
  BY DEF Init, Session
<1>2. \A k : PhaseOf(k) = "new"
  BY <1>1 DEF PhaseOf
<1>. QED
  BY <1>2 DEF Phases, Watch!Init

\* Type correctness of the App's fields, the handlers' locals and the table.
THEOREM TimerTypeCorrect == Spec => []TypeOK
  BY Invariance, PTL DEF IInv

\* What a user of the timer cares about: however window, tray and poller interleave, no
\* session is lost or stored twice that handlers did not contest.
THEOREM TimeIsKeptAlways == Spec => []TimeIsKept
<1>1. Init => TimeIsKept
  BY DEF Init, TimeIsKept, Session
<1>2. IInv /\ TimeIsKept /\ [Next]_vars => TimeIsKept'
  BY KeptStep DEF IInv
<1>. QED
  BY <1>1, <1>2, Invariance, PTL DEF Spec

\* Window, tray and poller, with no lock on the fields they share, implement a stopwatch:
\* every session they do not contest is timed until it is stored once or given up, and what
\* was stored or given up is never taken back (commit, halt, Lap, SwitchTask).
THEOREM ImplementsTheStopwatch == Spec => ImplementsStopwatch
<1>1. IInv /\ TimeIsKept /\ [Next]_vars => [Watch!Next]_Phases
  BY StopwatchStep
<1>. QED
  BY <1>1, StopwatchInit, Invariance, TimeIsKeptAlways, PTL
     DEF Spec, ImplementsStopwatch, Watch!Spec

Uncontested == contested = {}

\* With one goroutine that handles buttons there are no two to overlap.
LEMMA AloneStep ==
    ASSUME Tray = {}, Uncontested, [Next]_vars
    PROVE  Uncontested'
<1>1. ~Overlap
  BY DEF Overlap, Hand
<1>. QED
  BY <1>1 DEF Next, Observe, vars, Uncontested

\* While the tray menu is not used no session is contested: beside the poller, the window
\* alone loses no time and counts none twice, whatever it is interrupted by.
THEOREM WindowKeepsTime ==
    ASSUME Tray = {}
    PROVE  Spec => []NoTimeIsLost
<1>1. Init => Uncontested
  BY DEF Init, Uncontested
<1>2. Uncontested /\ [Next]_vars => Uncontested'
  BY AloneStep
<1>3. TimeIsKept /\ Uncontested => NoTimeIsLost
  BY DEF TimeIsKept, Kept, NoTimeIsLost, Uncontested
<1>. QED
  BY <1>1, <1>2, <1>3, TimeIsKeptAlways, PTL DEF Spec

\* The dialog is about what is on the clock.
AskedOf == dialog # 0 => at[Window] = "idle" /\ running /\ start = dialog

\* Nothing but the tray menu moves the clock behind the dialog.
LEMMA AskedStep ==
    ASSUME Tray = {}, TypeOK, AskedOf, [Next]_vars
    PROVE  AskedOf'
<1>1. ASSUME NEW h \in Hand, h = Window, Handle(h) PROVE AskedOf'
  <2>1. at[h] # "idle" /\ dialog' = dialog
    BY <1>1 DEF Handle, Halt, HaltTwice, Save, SaveFails, Restart, SetTaskName, StartClock, Run
  <2>. QED
    BY <1>1, <2>1 DEF AskedOf
<1>2. ASSUME NEW g \in Goroutine, Reload(g) \/ Fill(g) PROVE AskedOf'
  <2>1. at[g] # "idle" /\ UNCHANGED <<dialog, running, start>>
    BY <1>2 DEF Reload, Fill, clockVars
  <2>2. at' = [at EXCEPT ![g] = at'[g]]
    BY <1>2 DEF Reload, Fill, Goto, TypeOK, JobTypeOK
  <2>. QED
    BY <2>1, <2>2 DEF Goroutine, Hand, TypeOK, JobTypeOK, AskedOf
<1>3. CASE PressToggle \/ PressLap \/ PressReset \/ Decline \/ Discard
  BY <1>3 DEF PressToggle, PressLap, PressReset, Decline, Discard, Click, clockVars, AskedOf
<1>4. ASSUME NEW h \in Hand, h = Window, NEW n \in Name, SwitchTask(h, n) PROVE AskedOf'
  BY <1>4 DEF SwitchTask, Click, AskedOf
<1>5. ASSUME NEW n \in Text, Type(n) PROVE AskedOf'
  BY <1>5 DEF Type, Click, AskedOf
<1>6. ASSUME NEW n \in Name, Reopen(n) PROVE AskedOf'
  BY <1>6 DEF Reopen, Click, AskedOf
<1>7. ASSUME NEW g \in {Window, Poller}, Refresh(g) PROVE AskedOf'
  BY <1>7, TimerAssumption DEF Refresh, Begin, Click, clockVars, TypeOK, JobTypeOK, Goroutine, Hand,
     AskedOf
<1>8. CASE UNCHANGED vars
  BY <1>8 DEF vars, clockVars, AskedOf
<1>. QED
  BY <1>1, <1>2, <1>3, <1>4, <1>5, <1>6, <1>7, <1>8 DEF Next, User, Hand

\* While the tray menu is not used Reset discards the session it asked about, and no step
\* discards another.
THEOREM WindowAsksFirst ==
    ASSUME Tray = {}
    PROVE  Spec => OnlyAskedIsDiscarded
<1>1. Init => AskedOf
  BY DEF Init, AskedOf
<1>2. TypeOK /\ AskedOf /\ [Next]_vars => AskedOf'
  BY AskedStep
<1>3. AskedOf /\ [Next]_vars => [discarded' \ discarded \subseteq {dialog}]_vars
  <2>. SUFFICES ASSUME AskedOf, Next PROVE discarded' \ discarded \subseteq {dialog}
    OBVIOUS
  <2>1. CASE Discard
    BY <2>1 DEF Discard, AskedOf
  <2>2. CASE ~Discard
    <3>1. discarded' = discarded
      BY <2>2 DEF Next, User, Handle, PressToggle, PressLap, PressReset, Decline, TrayStop, SwitchTask,
         Type, Reopen, Refresh, Halt, HaltTwice, Save, SaveFails, Restart, SetTaskName, StartClock, Run,
         Reload, Fill, obsVars
    <3>. QED
      BY <3>1
  <2>. QED
    BY <2>1, <2>2
<1>. QED
  BY <1>1, <1>2, <1>3, TimerTypeCorrect, PTL DEF Spec, OnlyAskedIsDiscarded

\* close(stopTick) reaches the display goroutine of every session no two handlers contested:
\* none outlives its session.
THEOREM TickersStopAlways == Spec => []TickersStop
<1>1. Init => TickersStop
  BY DEF Init, TickersStop, Session
<1>2. IInv /\ TickersStop /\ [Next]_vars => TickersStop'
  BY TickersStep DEF IInv
<1>. QED
  BY <1>1, <1>2, Invariance, PTL DEF Spec

\* A row of the table carries the name its session was started under, unless the entry was
\* rewritten while it ran or handlers contested it.
THEOREM NamedAsStartedAlways == Spec => []NamedAsStarted
<1>1. Init => NamesFit /\ NamedAsStarted
  BY DEF Init, NamesFit, NamedAsStarted, Goroutine
<1>2. IInv /\ NamesFit /\ NamedAsStarted /\ [Next]_vars => (NamesFit /\ NamedAsStarted)'
  BY NamesStep, NamedStep DEF IInv
<1>. QED
  BY <1>1, <1>2, Invariance, PTL DEF Spec

===============================================================================
