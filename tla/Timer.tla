--------------------------------- MODULE Timer ---------------------------------
(***************************************************************************)
(* The desktop timer: Start, Stop, Lap, Reset and SwitchTask of            *)
(* internal/ui/app.go, with the entry of the Overview page                 *)
(* (internal/ui/dashboard.go) they take the task's name from.              *)
(*                                                                         *)
(* Three kinds of goroutines run them with no lock: the window's event      *)
(* queue, one goroutine for each item of the tray menu (as the toolkit has  *)
(* it), and the poller, which reloads the page.  A step of a handler ends   *)
(* where it calls the store, or has read a field and is yet to act on it.   *)
(*                                                                         *)
(* A session is known by its number: startTime and stopTick are set together *)
(* and stand for the same session.                                         *)
(***************************************************************************)
EXTENDS Naturals, Sequences

CONSTANTS
    Name,        \* task names
    Blank,       \* the empty entry
    Window,      \* the window's event queue
    Tray,        \* goroutines of the tray menu
    Poller,
    MaxSessions  \* sessions ever started (bound)

ASSUME TimerAssumption ==
    /\ Blank \notin Name
    /\ Window \notin Tray
    /\ Poller \notin Tray \cup {Window}
    /\ MaxSessions \in Nat

Hand == Tray \cup {Window}
Goroutine == Hand \cup {Poller}

VARIABLES
    running, start,   \* start is startTime and stopTick
    closed,           \* the stopTick channels that are closed
    entry,            \* the text of the task entry
    dialog,           \* the session the Reset dialog was opened for, or 0
    open              \* the process runs

VARIABLES
    at,               \* where each goroutine is
    job               \* its locals: what follows commit, the name it read, the task it
                      \* switches to, the session commit took from startTime

VARIABLE saved        \* rows written, in order

\* Observability variables.
VARIABLES
    issued,           \* sessions started so far
    wanted,           \* the name each was started under
    discarded,        \* those given up in the dialog
    dropped,          \* those commit could not write
    renamed,          \* those whose entry was rewritten while they ran
    contested         \* those that two handlers may have had their hands on

clockVars == <<running, start, closed, issued, wanted>>
obsVars == <<discarded, dropped, renamed>>
vars == <<clockVars, obsVars, at, job, entry, dialog, open, saved, contested>>

Session == 1..issued
Text == Name \cup {Blank}

Job == [follow : {"reload", "restart", "set"}, name : Text, next : Text, took : Nat]

NoJob == [follow |-> "reload", name |-> Blank, next |-> Blank, took |-> 0]

Row == [of : Nat, name : Name]

Label == {"idle", "halt", "save", "restart", "set", "run", "reload", "fill"}

ClockTypeOK ==
    /\ running \in BOOLEAN
    /\ issued \in Nat
    /\ start \in 0..issued
    /\ closed \subseteq Session
    /\ wanted \in [Session -> Name]

JobTypeOK ==
    /\ at \in [Goroutine -> Label]
    /\ job \in [Goroutine -> Job]
    /\ \A g \in Goroutine : job[g].took <= issued

PageTypeOK ==
    /\ entry \in Text
    /\ dialog \in 0..issued
    /\ open \in BOOLEAN

RecordTypeOK ==
    /\ saved \in Seq(Row)
    /\ \A i \in DOMAIN saved : saved[i].of \in Session
    /\ discarded \subseteq Session
    /\ dropped \subseteq Session
    /\ renamed \subseteq Session
    /\ contested \subseteq Session

TypeOK == ClockTypeOK /\ JobTypeOK /\ PageTypeOK /\ RecordTypeOK

Init ==
    /\ running = FALSE
    /\ start = 0
    /\ closed = {}
    /\ entry = Blank
    /\ dialog = 0
    /\ open = TRUE
    /\ at = [g \in Goroutine |-> "idle"]
    /\ job = [g \in Goroutine |-> NoJob]
    /\ saved = << >>
    /\ issued = 0
    /\ wanted \in [{} -> Name]
    /\ discarded = {}
    /\ dropped = {}
    /\ renamed = {}
    /\ contested = {}

Goto(g, l) ==
    /\ at' = [at EXCEPT ![g] = l]
    /\ job' = IF l = "idle" THEN [job EXCEPT ![g] = NoJob] ELSE job

\* Goroutine g enters a handler at label l.
Begin(g, l, j) ==
    /\ at[g] = "idle"
    /\ at' = [at EXCEPT ![g] = l]
    /\ job' = [job EXCEPT ![g] = j]

\* The window's event queue is idle, and no dialog is in front of the page.
Click == at[Window] = "idle" /\ dialog = 0

-----------------------------------------------------------------------------
(* What the user does. *)

\* Stop, Lap and SwitchTask read the entry; commit finds the clock running and reads
\* startTime.  If it does not, nothing happens.
Take(h, follow, next) ==
    /\ running
    /\ Begin(h, "halt", [follow |-> follow, name |-> entry, next |-> next, took |-> start])

\* toggle.
PressToggle ==
    /\ Click
    /\ \/ Take(Window, "reload", Blank)
       \/ ~running /\ entry # Blank /\ Begin(Window, "run", [NoJob EXCEPT !.name = entry])
    /\ UNCHANGED <<clockVars, obsVars, entry, dialog, open, saved>>

PressLap ==
    /\ Click
    /\ Take(Window, "restart", Blank)
    /\ UNCHANGED <<clockVars, obsVars, entry, dialog, open, saved>>

\* The button is enabled while the clock runs.
PressReset ==
    /\ Click
    /\ running
    /\ dialog' = start
    /\ UNCHANGED <<clockVars, obsVars, at, job, entry, open, saved>>

Decline ==
    /\ at[Window] = "idle"
    /\ dialog # 0
    /\ dialog' = 0
    /\ UNCHANGED <<clockVars, obsVars, at, job, entry, open, saved>>

\* The dialog's callback halts whatever runs by then.
Discard ==
    /\ dialog # 0
    /\ dialog' = 0
    /\ Begin(Window, "reload", NoJob)
    /\ running' = FALSE
    /\ IF running
       THEN closed' = closed \cup {start} /\ discarded' = discarded \cup {start}
       ELSE UNCHANGED <<closed, discarded>>
    /\ UNCHANGED <<start, issued, wanted, dropped, renamed, entry, open, saved>>

TrayStop(t) ==
    /\ Take(t, "reload", Blank)
    /\ UNCHANGED <<clockVars, obsVars, entry, dialog, open, saved>>

\* SwitchTask, from the tray or from New Task in the window.
SwitchTask(h, n) ==
    /\ h = Window => Click
    /\ \/ Take(h, "set", n)
       \/ ~running /\ Begin(h, "set", [NoJob EXCEPT !.next = n])
    /\ UNCHANGED <<clockVars, obsVars, entry, dialog, open, saved>>

\* Seeded fault: the entry stays enabled while the clock runs.
TypeAnytime(n) ==
    /\ Click
    /\ entry' = n
    /\ UNCHANGED <<clockVars, obsVars, at, job, dialog, open, saved>>

\* refreshButtons disables the entry while the clock runs.
Type(n) ==
    /\ Click
    /\ ~running
    /\ entry' = n
    /\ UNCHANGED <<clockVars, obsVars, at, job, dialog, open, saved>>

\* Whoever writes the entry while a session runs renames that session.
WriteEntry(n) ==
    /\ entry' = n
    /\ renamed' = IF running /\ n # wanted[start] THEN renamed \cup {start} ELSE renamed

\* Reopen on a row of the table; it puts the row's name into the entry.
Reopen(n) ==
    /\ Click
    /\ \E i \in DOMAIN saved : saved[i].name = n
    /\ WriteEntry(n)
    /\ UNCHANGED <<clockVars, discarded, dropped, at, job, dialog, open, saved>>

\* reload, by the Refresh button or the poller: an empty entry is to be filled.
Refresh(g) ==
    /\ g = Window => Click
    /\ ~running
    /\ entry = Blank
    /\ Begin(g, "fill", NoJob)
    /\ UNCHANGED <<clockVars, obsVars, entry, dialog, open, saved>>

-----------------------------------------------------------------------------
(* commit, Lap and Start. *)

\* After a commit that wrote nothing only SwitchTask goes on.
GiveUp(h) == Goto(h, IF job[h].follow = "set" THEN "set" ELSE "idle")

\* commit after halt: a session with no name is dropped with a dialog.
Named(h) ==
    IF job[h].name = Blank
    THEN GiveUp(h) /\ dropped' = dropped \cup {job[h].took}
    ELSE Goto(h, "save") /\ dropped' = dropped

\* Seeded fault: the ticker is left to itself.
HaltWithoutClose(h) ==
    /\ at[h] = "halt"
    /\ running' = FALSE
    /\ Named(h)
    /\ UNCHANGED <<start, closed, issued, wanted, discarded, renamed, entry, dialog, open, saved>>

\* halt and timerStopped.
Halt(h) ==
    /\ at[h] = "halt"
    /\ running' = FALSE
    /\ closed' = IF running THEN closed \cup {start} ELSE closed
    /\ Named(h)
    /\ UNCHANGED <<start, issued, wanted, discarded, renamed, entry, dialog, open, saved>>

\* Another goroutine halts as well: both may find the clock running, and the second to
\* close the channel ends the process.
HaltTwice(h) ==
    /\ at[h] = "halt"
    /\ running
    /\ \E g \in Hand \ {h} : at[g] = "halt" \/ (g = Window /\ at[g] = "idle" /\ dialog # 0)
    /\ open' = FALSE
    /\ UNCHANGED <<clockVars, obsVars, at, job, entry, dialog, saved>>

\* The row is linked through the copy of the mirror the last reload made.
Save(h) ==
    /\ at[h] = "save"
    /\ Goto(h, job[h].follow)
    /\ saved' = Append(saved, [of |-> job[h].took, name |-> job[h].name])
    /\ UNCHANGED <<clockVars, obsVars, entry, dialog, open>>

SaveFails(h) ==
    /\ at[h] = "save"
    /\ GiveUp(h)
    /\ dropped' = dropped \cup {job[h].took}
    /\ UNCHANGED <<clockVars, discarded, renamed, entry, dialog, open, saved>>

\* startTime and stopTick are new; the name was read before.
Run(h) ==
    /\ issued < MaxSessions
    /\ issued' = issued + 1
    /\ running' = TRUE
    /\ start' = issued + 1
    /\ wanted' = [k \in 1..issued + 1 |-> IF k = issued + 1 THEN job[h].name ELSE wanted[k]]
    /\ renamed' = IF entry # job[h].name THEN renamed \cup {issued + 1} ELSE renamed
    /\ Goto(h, "idle")
    /\ UNCHANGED <<closed, discarded, dropped, entry, dialog, open, saved>>

\* Seeded fault: a lap goes on with the startTime it had.
RestartKeeping(h) ==
    /\ at[h] = "restart"
    /\ running' = TRUE
    /\ Goto(h, "idle")
    /\ UNCHANGED <<start, closed, issued, wanted, obsVars, entry, dialog, open, saved>>

\* Lap starts the clock again without looking at it.
Restart(h) == at[h] = "restart" /\ Run(h)

\* setTaskName, and Start finds the clock stopped.
SetTaskName(h) ==
    /\ at[h] = "set"
    /\ WriteEntry(job[h].next)
    /\ IF running
       THEN Goto(h, "idle")
       ELSE at' = [at EXCEPT ![h] = "run"] /\ job' = [job EXCEPT ![h].name = job[h].next]
    /\ UNCHANGED <<clockVars, discarded, dropped, dialog, open, saved>>

StartClock(h) == at[h] = "run" /\ Run(h)

-----------------------------------------------------------------------------
(* reload, in any goroutine: the Overview page fills an empty entry with the last name. *)

Reload(g) ==
    /\ at[g] = "reload"
    /\ \/ Goto(g, "idle")   \* another page is shown, or there is nothing to fill
       \/ ~running /\ entry = Blank /\ Goto(g, "fill")
    /\ UNCHANGED <<clockVars, obsVars, entry, dialog, open, saved>>

\* MostRecentName has answered.
Fill(g) ==
    /\ at[g] = "fill"
    /\ Goto(g, "idle")
    /\ IF saved = << >> THEN UNCHANGED <<entry, renamed>> ELSE WriteEntry(saved[Len(saved)].name)
    /\ UNCHANGED <<clockVars, discarded, dropped, dialog, open, saved>>

-----------------------------------------------------------------------------

User ==
    \/ PressToggle \/ PressLap \/ PressReset \/ Decline \/ Discard
    \/ \E t \in Tray : TrayStop(t)
    \/ \E h \in Hand, n \in Name : SwitchTask(h, n)
    \/ \E n \in Text : Type(n)
    \/ \E n \in Name : Reopen(n)
    \/ \E g \in {Window, Poller} : Refresh(g)

Handle(h) ==
    \/ Halt(h) \/ HaltTwice(h) \/ Save(h) \/ SaveFails(h)
    \/ Restart(h) \/ SetTaskName(h) \/ StartClock(h)

\* Where the time of a session is until it is stored or given up.
OnTheClock(k) == running /\ start = k
InHand(k) == \E h \in Hand : at[h] \in {"halt", "save"} /\ job[h].took = k
Live == {k \in Session : OnTheClock(k) \/ InHand(k)}

\* Two handlers overlap in a step that neither begins and ends idle.
Overlap ==
    \E g, h \in Hand : /\ g # h
                       /\ at[g] # "idle" \/ at'[g] # "idle"
                       /\ at[h] # "idle" \/ at'[h] # "idle"

\* They contest what is live, before the step and after it.
Observe == contested' = contested \cup (IF Overlap THEN Live \cup Live' ELSE {})

Next ==
    /\ open
    /\ \/ User
       \/ \E h \in Hand : Handle(h)
       \/ \E g \in Goroutine : Reload(g) \/ Fill(g)
    /\ Observe

Spec == Init /\ [][Next]_vars

-----------------------------------------------------------------------------

Rows(k) == {i \in DOMAIN saved : saved[i].of = k}

GivenUp(k) == k \in discarded \cup dropped

\* The time of a session is on the clock or on its way to the store, or it is in one row,
\* or it was given up or could not be written.
Kept(k) ==
    /\ \A i, j \in Rows(k) : i = j
    /\ k \in Live \/ Rows(k) # {} \/ GivenUp(k)
    /\ k \in Live => Rows(k) = {} /\ ~GivenUp(k)
    /\ GivenUp(k) => Rows(k) = {}

\* The time of a session is never lost on the way and never counted twice.  The fields
\* have no lock: handlers that overlap may harm the sessions that are live meanwhile, and
\* those only.
TimeIsKept == \A k \in Session \ contested : Kept(k)

\* "Every mutation happens on the UI goroutine, so a mutex would be ceremony" (App): no
\* session is lost or stored twice, whoever handles it.
NoTimeIsLost == \A k \in Session : Kept(k)

\* Reset "asks first: the whole point of the app is that timed work does not evaporate":
\* the dialog discards the session it was opened for and no other.
OnlyAskedIsDiscarded == [][discarded' \ discarded \subseteq {dialog}]_vars

PhaseOf(k) ==
    IF k \notin Session THEN "new"
    ELSE IF k \in contested THEN "contested"
    ELSE CASE k \in Live /\ Rows(k) = {} /\ ~GivenUp(k)                       -> "timed"
           [] k \notin Live /\ Rows(k) = {} /\ GivenUp(k)                     -> "givenUp"
           [] k \notin Live /\ (\E i \in Rows(k) : Rows(k) = {i}) /\ ~GivenUp(k) -> "stored"
           [] OTHER                                                          -> "lost"

Phases == [k \in 1..MaxSessions |-> PhaseOf(k)]

Watch == INSTANCE Stopwatch WITH Session <- 1..MaxSessions, phase <- Phases

\* The goroutines, with no lock between them, implement a stopwatch: every session is in one
\* of its phases, and what was once stored, given up or contested stays so (commit, halt).
ImplementsStopwatch == Watch!Spec

\* A ticker outlives its session only if handlers contested it (stopTick).
TickersStop == Session \ (closed \cup contested) \subseteq IF running THEN {start} ELSE {}

\* A session is stored under the name it was started under, unless it was contested
\* or the entry was rewritten while it ran: by Reopen, or by a reload that had
\* found it empty.
NamedAsStarted ==
    \A i \in DOMAIN saved :
        \/ saved[i].of \in renamed \cup contested
        \/ saved[i].name = wanted[saved[i].of]

=============================================================================
