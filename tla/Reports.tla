-------------------------------- MODULE Reports --------------------------------
(***************************************************************************)
(* What the app says of the hours: the Reports page, the footer, the       *)
(* Overview's filter "Today" and the tray, all from rows of the table      *)
(* tasks.  A row keeps its start as text, local time and offset; the       *)
(* queries compare texts, the calendar is that of the app's location.      *)
(* Instants are counted in hours of UTC, days from an epoch.               *)
(***************************************************************************)
EXTENDS Integers, FiniteSets, Functions

CONSTANTS
    Location,          \* where the app may run
    Offset(_, _),      \* of a location's clock at an instant
    Span,              \* no clock is further from UTC
    DayLength,         \* hours in a day without a change of clocks
    Name, NoName,      \* NoName is in rows of older versions only
    Days,              \* the window the page offers
    MaxNow,            \* last instant (bound)
    MaxRows,           \* sessions (bound)
    MaxHours,          \* of a session (bound)
    MaxLaunches        \* launches of the app (bound)

ASSUME ReportsAssumption ==
    /\ NoName \notin Name
    /\ DayLength \in Nat \ {0} /\ Days \in Nat \ {0} /\ Span \in Nat
    /\ MaxNow \in Nat
    /\ MaxRows \in Nat \ {0} /\ MaxHours \in Nat \ {0} /\ MaxLaunches \in Nat \ {0}

\* The instants the app has to do with: of its sessions, and around the midnights of
\* the window.
Instant == -(2 * Span + Days * DayLength) .. MaxNow + 2 * Span + DayLength

ASSUME OffsetAssumption == \A l \in Location : \A t \in Instant : Offset(l, t) \in -Span .. Span

VARIABLES
    now,
    here,              \* the location the process took for local when it started
    launched,          \* when that was
    launches,
    rows               \* of tasks; home, where a row was written, is not in the table

reportsVars == <<now, here, launched, launches, rows>>

-----------------------------------------------------------------------------
(* The calendar. *)

Wall(t, l) == t + Offset(l, t)
DateOf(t, l) == Wall(t, l) \div DayLength

\* time.Date, outside the program: a wall clock reading that does not exist becomes the
\* one an hour before or after, as the library's two guesses have it.
Date(w, l) ==
    LET guess == w - Offset(l, w)
    IN  w - Offset(l, guess)

AddDate(t, n, l) == Date(Wall(t, l) + n * DayLength, l)

\* dayStart, also named startOfDay; the day ends where the next should start.
DayStart(t, l) == Date(DateOf(t, l) * DayLength, l)
DayEnd(t, l) == AddDate(DayStart(t, l), 1, l)

\* RFC 3339: "+" sorts before "-", and both before "Z".
Format(t, l) == [wall |-> Wall(t, l), off |-> Offset(l, t)]
Sign(off) == IF off > 0 THEN 1 ELSE IF off < 0 THEN 2 ELSE 3
Magnitude(off) == IF off < 0 THEN -off ELSE off
Less(x, y) ==
    \/ x.wall < y.wall
    \/ x.wall = y.wall /\ Sign(x.off) < Sign(y.off)
    \/ x.wall = y.wall /\ Sign(x.off) = Sign(y.off) /\ Magnitude(x.off) < Magnitude(y.off)

\* parseTime.
Start(r) == r.text.wall - r.text.off

-----------------------------------------------------------------------------
(* The table. *)

Row == [id : 1..MaxRows, name : Name \cup {NoName}, text : [wall : Int, off : Int],
        hours : 0..MaxHours, done : BOOLEAN, home : Location]

ReportsInit ==
    /\ now = 0
    /\ here \in Location
    /\ launched = 0
    /\ launches = 1
    /\ rows \in {{}} \cup {{[id |-> 1, name |-> NoName, text |-> Format(-1, here), hours |-> 1,
                             done |-> d, home |-> here]} : d \in BOOLEAN}

Tick ==
    /\ now < MaxNow
    /\ now' = now + 1
    /\ UNCHANGED <<here, launched, launches, rows>>

\* Seeded fault: a session is timed from the start of the app.
SaveSinceLaunch(n, h) ==
    /\ Cardinality(rows) < MaxRows
    /\ now - h >= launched
    /\ rows' = rows \cup {[id |-> Cardinality(rows) + 1, name |-> n,
                           text |-> Format(now - h, here), hours |-> now - launched,
                           done |-> FALSE, home |-> here]}
    /\ UNCHANGED <<now, here, launched, launches>>

\* A session ends now that began under this launch.
Save(n, h) ==
    /\ Cardinality(rows) < MaxRows
    /\ now - h >= launched
    /\ rows' = rows \cup {[id |-> Cardinality(rows) + 1, name |-> n,
                           text |-> Format(now - h, here), hours |-> h,
                           done |-> FALSE, home |-> here]}
    /\ UNCHANGED <<now, here, launched, launches>>

Complete(c) ==
    /\ rows' = {IF r.id <= c.id /\ r.name = c.name THEN [r EXCEPT !.done = TRUE] ELSE r :
                r \in rows}
    /\ UNCHANGED <<now, here, launched, launches>>

Reopen(c) ==
    /\ rows' = (rows \ {c}) \cup {[c EXCEPT !.done = FALSE]}
    /\ UNCHANGED <<now, here, launched, launches>>

\* The app is started again, perhaps elsewhere.
Launch(l) ==
    /\ launches < MaxLaunches
    /\ launches' = launches + 1
    /\ here' = l
    /\ launched' = now
    /\ UNCHANGED <<now, rows>>

ReportsNext ==
    \/ Tick
    \/ \E n \in Name : \E h \in 0..MaxHours : Save(n, h)
    \/ \E r \in rows : Complete(r) \/ Reopen(r)
    \/ \E l \in Location : Launch(l)

ReportsSpec == ReportsInit /\ [][ReportsNext]_reportsVars

-----------------------------------------------------------------------------
(* What is shown. *)

Hours(S) == SumFunctionOnSet([r \in rows |-> r.hours], S)

\* Seeded fault: every day of the window is taken for 24 hours.
BetweenSpan(from, to) ==
    {r \in rows : ~Less(r.text, Format(from, here))
                  /\ Less(r.text, Format(from + Days * DayLength, here))}

Between(from, to) ==
    {r \in rows : ~Less(r.text, Format(from, here)) /\ Less(r.text, Format(to, here))}

\* The Reports page: the rows of its window.
First == AddDate(DayStart(now, here), -(Days - 1), here)
Sessions == Between(First, DayEnd(now, here))

\* Summarize.
Summary(S) ==
    [total |-> Hours(S), sessions |-> Cardinality(S),
     tasks |-> Cardinality({r.name : r \in S} \ {NoName})]

TotalsByName(S) ==
    [n \in {r.name : r \in S} \ {NoName} |-> Hours({r \in S : r.name = n})]

\* DailyTotals: the bars, each with its date; a row goes to the last bar of its date.
BarDate(i) == DateOf(AddDate(First, i, here), here)
Bar(S, i) ==
    Hours({r \in S : /\ DateOf(Start(r), here) = BarDate(i)
                     /\ \A j \in i + 1 .. Days - 1 : BarDate(j) # BarDate(i)})
DailyTotals(S) == [i \in 0 .. Days - 1 |-> Bar(S, i)]

\* Footer, tray, and the filter of the Overview.

\* Seeded fault: today is the last 24 hours.
RowsTodayRolling == {r \in rows : ~Less(r.text, Format(now - DayLength, here))}

\* What TotalToday and DurationsToday select.
RowsToday == {r \in rows : ~Less(r.text, Format(DayStart(now, here), here))}
TotalToday == [total |-> Hours(RowsToday), count |-> Cardinality({r.name : r \in RowsToday})]
OpenToday == {r \in RowsToday : ~r.done}
DurationsToday == [n \in {r.name : r \in OpenToday} |-> Hours({r \in OpenToday : r.name = n})]
SameDay == {r \in rows : DateOf(Start(r), here) = DateOf(now, here)}

-----------------------------------------------------------------------------

ReportsTypeOK ==
    /\ now \in 0..MaxNow /\ here \in Location /\ launched \in 0..now
    /\ launches \in 1..MaxLaunches
    /\ rows \subseteq Row

\* Every row was written where the app now runs.
AtHome == \A r \in rows : r.home = here

\* The clocks of the place show midnight of day d once, and pass it there.
CleanMidnight(d) ==
    LET midnight == d * DayLength
        t == Date(midnight, here)
    IN  \A u \in midnight - Span .. midnight + Span :
            /\ u < t <=> Wall(u, here) < midnight
            /\ u > t <=> Wall(u, here) > midnight

\* They skip midnight of one of these days, or show it twice.
OddMidnight(from, to) == \E d \in from..to : ~CleanMidnight(d)

\* "Totals are computed from every session that started in the window": the tiles, the
\* bars and the breakdown of the page are of the rows of the window's days, and add up,
\* also when clocks change in the window or a session runs past midnight (refresh,
\* Between, DailyTotals).  Excepted are rows written in another time zone, and days
\* whose midnight the clocks skip or repeat.
ReportIsWhole ==
    LET today == DateOf(now, here)
        window == {r \in rows : DateOf(Start(r), here) \in today - Days + 1 .. today}
        unnamed == {r \in window : r.name = NoName}
        byName == TotalsByName(Sessions)
        bars == DailyTotals(Sessions)
    IN  AtHome /\ ~OddMidnight(today - Days + 1, today + 1) =>
            /\ Sessions = window
            /\ SumFunction(bars) = Summary(Sessions).total
            /\ SumFunction(byName) + Hours(unnamed)
                   = Summary(Sessions).total

\* The footer counts the sessions the filter "Today" lists, and the last bar of the
\* report; the tray those of them that are not completed (TotalToday, DurationsToday,
\* sameDay), with the same exceptions.
TodayAgrees ==
    LET today == DateOf(now, here)
        open == DurationsToday
    IN  AtHome /\ ~OddMidnight(today - Days + 1, today + 1) =>
            /\ RowsToday = SameDay
            /\ TotalToday.total = DailyTotals(Sessions)[Days - 1]
            /\ SumFunction(open) + Hours({r \in SameDay : r.done}) = TotalToday.total

=============================================================================
