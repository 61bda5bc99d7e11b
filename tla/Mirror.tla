--------------------------------- MODULE Mirror ---------------------------------
(***************************************************************************)
(* The local mirror of a provider's issues: pull of                        *)
(* internal/reconcile/engine.go, its cursor, the rows of remote_tasks, and  *)
(* what the app makes of them: the names of its picker and the link that    *)
(* commit gives to a session (internal/ui/app.go).                          *)
(*                                                                         *)
(* Time is in seconds, the precision of the stored cursor, and one clock       *)
(* serves the daemon and the provider.  An issue goes through revisions, its  *)
(* look at each given by TitleAt and ClosedAt.                               *)
(***************************************************************************)
EXTENDS Naturals, FiniteSets

CONSTANTS
    Key,          \* issues assigned to the user
    OnlyOpen,     \* those of a query that leaves done issues out
    Dated,        \* those of a file, which says itself when it was updated
    MaxRev,       \* revisions of an issue (bound)
    TitleAt,      \* the title of an issue at a revision
    ClosedAt,     \* the revisions at which it is done
    None,
    Daemon,
    Coarse(_),    \* the cursor as the provider compares it
    MaxTime,      \* seconds (bound)
    Loader,       \* goroutines of the app that reload: window, tray, poller, sign-in
    MaxRows       \* different rows of sessions (bound)

ASSUME MirrorAssumption ==
    /\ OnlyOpen \subseteq Key /\ Dated \subseteq Key
    /\ MaxRev \in Nat
    /\ ClosedAt \in [Key -> SUBSET (1..MaxRev)]
    /\ MaxTime \in Nat \ {0}
    /\ None \notin Key
    /\ MaxRows \in Nat

Rev == 1..MaxRev
MaybeRev == 0..MaxRev         \* 0 for no row

\* The provider compares at minute precision, or rounds nothing: never up.
ASSUME CoarseAssumption == \A t \in 0..MaxTime : Coarse(t) \in 0..t

VARIABLES
    now,
    rev, stamp,      \* the provider: an issue's revision and when it was updated
    late,            \* issues whose update came with a time that pulls had passed
    mirror,          \* remote_tasks: the revision of the row
    cursor           \* sync_state

VARIABLES
    pulling,         \* daemons in pull
    since, asked,    \* the cursor a pull read, and the one it will write
    todo,            \* issues whose page is still to be read
    got              \* what it read of the others and has not stored

VARIABLES
    copy,            \* App.remotes: the issues and the revisions it has of them
    fetched,         \* loaders that have read the table and not cleared the copy
    found,           \* what they read and have not put into it
    session,         \* the name on the clock, or None
    rows             \* sessions saved: name and foreign_key; seen and failed are history

\* Observability variables.
VARIABLES
    raced,           \* pulls during which another daemon stored a row
    overtaken,       \* issues whose row was ever replaced by an older one
    seen             \* the revision at which the picker showed the name on the clock

provider == <<now, rev, stamp, late>>
locals == <<pulling, since, asked, todo, got>>
reloads == <<copy, fetched, found>>
app == <<reloads, session, seen, rows>>
history == <<raced, overtaken>>
vars == <<provider, mirror, cursor, locals, app, history>>

Nothing == [k \in Key |-> 0]

\* DisplayName: the key and the title.
DisplayName(k, r) == <<k, TitleAt[k][r]>>
Name == {DisplayName(k, r) : k \in Key, r \in Rev}
Entry == [key : Key, rev : Rev]
NameOf(e) == DisplayName(e.key, e.rev)

TypeOK ==
    /\ now \in 1..MaxTime
    /\ rev \in [Key -> MaybeRev]
    /\ stamp \in [Key -> 0..now]
    /\ late \subseteq Key
    /\ mirror \in [Key -> MaybeRev]
    /\ cursor \in 0..now
    /\ pulling \subseteq Daemon
    /\ since \in [Daemon -> 0..now]
    /\ asked \in [Daemon -> 0..now]
    /\ todo \in [Daemon -> SUBSET Key]
    /\ got \in [Daemon -> [Key -> MaybeRev]]
    /\ copy \subseteq Entry
    /\ fetched \subseteq Loader
    /\ found \in [Loader -> SUBSET Entry]
    /\ session \in Name \cup {None}
    /\ rows \subseteq [name : Name, link : Key \cup {None}, seen : Rev, failed : BOOLEAN]
    /\ raced \subseteq pulling
    /\ overtaken \subseteq Key
    /\ seen \in MaybeRev /\ (session # None => seen \in Rev)

Init ==
    /\ now = 1
    /\ rev = Nothing
    /\ stamp = Nothing
    /\ late = {}
    /\ mirror = Nothing
    /\ cursor = 0
    /\ pulling = {}
    /\ since = [d \in Daemon |-> 0]
    /\ asked = [d \in Daemon |-> 0]
    /\ todo = [d \in Daemon |-> {}]
    /\ got = [d \in Daemon |-> Nothing]
    /\ copy = {}
    /\ fetched = {}
    /\ found = [g \in Loader |-> {}]
    /\ session = None
    /\ seen = 0
    /\ rows = {}
    /\ raced = {}
    /\ overtaken = {}

-----------------------------------------------------------------------------
(* The provider, outside the program. *)

Tick ==
    /\ now < MaxTime
    /\ now' = now + 1
    /\ UNCHANGED <<rev, stamp, late, mirror, cursor, locals, app, history>>

\* The cursors a next pull may start from, and the stamps that one of them is past.
Cursors == {cursor} \cup {asked[d] : d \in pulling}
Passed(t) == \E c \in Cursors : t < Coarse(c)

\* An issue is created, renamed, done or reopened, at time t.  A server stamps it now;
\* a file is read only once it is in the directory, complete, which may be long after
\* the time it carries.
Change(k, t) ==
    /\ rev[k] + 1 \in Rev
    /\ t = now \/ k \in Dated
    /\ rev' = [rev EXCEPT ![k] = @ + 1]
    /\ stamp' = [stamp EXCEPT ![k] = t]
    /\ late' = IF Passed(t) THEN late \cup {k} ELSE late \ {k}
    /\ UNCHANGED <<now, mirror, cursor, locals, app, history>>

\* The query of the server selects it.
Visible(k) == rev[k] # 0 /\ (k \in OnlyOpen => rev[k] \notin ClosedAt[k])

\* An incremental pull that starts at cursor c asks for it.
ChangedSince(k, c) == c = 0 \/ stamp[k] >= Coarse(c)

-----------------------------------------------------------------------------
(* Engine.pull. *)

\* Seeded fault: what a broken pull had read is stored by the next.
ReturnKeeping(d) ==
    /\ pulling' = pulling \ {d}
    /\ since' = [since EXCEPT ![d] = 0]
    /\ asked' = [asked EXCEPT ![d] = 0]
    /\ todo' = [todo EXCEPT ![d] = {}]
    /\ got' = got
    /\ raced' = raced \ {d}

\* The daemon leaves pull, its locals gone.
Return(d) ==
    /\ pulling' = pulling \ {d}
    /\ since' = [since EXCEPT ![d] = 0]
    /\ asked' = [asked EXCEPT ![d] = 0]
    /\ todo' = [todo EXCEPT ![d] = {}]
    /\ got' = [got EXCEPT ![d] = Nothing]
    /\ raced' = raced \ {d}

\* LastPull, and the cursor of the next pull, taken before the request of this one.
StartPull(d) ==
    /\ d \notin pulling
    /\ pulling' = pulling \cup {d}
    /\ since' = [since EXCEPT ![d] = cursor]
    /\ asked' = [asked EXCEPT ![d] = now]
    /\ todo' = [todo EXCEPT ![d] = Key]
    /\ UNCHANGED <<provider, mirror, cursor, got, app, history>>

\* A page of the listing, read at its own time.
Read(d, k) ==
    /\ k \in todo[d]
    /\ todo' = [todo EXCEPT ![d] = @ \ {k}]
    /\ got' = IF Visible(k) /\ ChangedSince(k, since[d])
              THEN [got EXCEPT ![d][k] = rev[k]]
              ELSE got
    /\ UNCHANGED <<provider, mirror, cursor, pulling, since, asked, app, history>>

\* UpsertRemote, the rows in any order.
Upsert(d, k) ==
    /\ todo[d] = {}
    /\ got[d][k] # 0
    /\ mirror' = [mirror EXCEPT ![k] = got[d][k]]
    /\ got' = [got EXCEPT ![d][k] = 0]
    /\ raced' = raced \cup (pulling \ {d})
    /\ overtaken' = IF got[d][k] < mirror[k] THEN overtaken \cup {k} ELSE overtaken
    /\ UNCHANGED <<provider, cursor, pulling, since, asked, todo, app>>

\* Seeded fault: the cursor is the time after the pull.
SetLastPullLate(d) ==
    /\ d \in pulling
    /\ todo[d] = {}
    /\ got[d] = Nothing
    /\ cursor' = now
    /\ Return(d)
    /\ UNCHANGED <<provider, mirror, app, overtaken>>

\* Seeded fault: the cursor is rounded up to the next second.
SetLastPullRoundedUp(d) ==
    /\ d \in pulling
    /\ todo[d] = {}
    /\ got[d] = Nothing
    /\ cursor' = asked[d] + 1
    /\ Return(d)
    /\ UNCHANGED <<provider, mirror, app, overtaken>>

SetLastPull(d) ==
    /\ d \in pulling
    /\ todo[d] = {}
    /\ got[d] = Nothing
    /\ cursor' = asked[d]
    /\ Return(d)
    /\ UNCHANGED <<provider, mirror, app, overtaken>>

\* The listing or a statement fails, or the daemon dies: rows already stored stay.
Break(d) ==
    /\ d \in pulling
    /\ Return(d)
    /\ UNCHANGED <<provider, mirror, cursor, app, overtaken>>

-----------------------------------------------------------------------------
(* The app. *)

OpenRemotes ==
    {[key |-> k, rev |-> mirror[k]] : k \in {j \in Key : mirror[j] \notin {0} \cup ClosedAt[j]}}

outside == <<provider, mirror, cursor, locals, history>>

\* reloadRemotes, by goroutines that share the map without a lock: the query,
QueryRemotes(g) ==
    /\ g \notin fetched /\ found[g] = {}
    /\ fetched' = fetched \cup {g}
    /\ found' = [found EXCEPT ![g] = OpenRemotes]
    /\ UNCHANGED <<outside, copy, session, seen, rows>>

\* an empty map in the place of the old one,
EmptyRemotes(g) ==
    /\ g \in fetched
    /\ fetched' = fetched \ {g}
    /\ copy' = {}
    /\ UNCHANGED <<outside, found, session, seen, rows>>

\* and the rows one by one, into whatever map is there by then.
AddRemote(g, e) ==
    /\ g \notin fetched
    /\ e \in found[g]
    /\ found' = [found EXCEPT ![g] = @ \ {e}]
    /\ copy' = {f \in copy : NameOf(f) # NameOf(e)} \cup {e}
    /\ UNCHANGED <<outside, fetched, session, seen, rows>>

\* taskOptions, and the user's choice: an issue of the copy, as far as it is filled, or
\* the name of an earlier session.
Pick ==
    /\ session = None
    /\ \/ \E e \in copy : session' = NameOf(e) /\ seen' = e.rev
       \/ \E r \in rows : session' = r.name /\ seen' = r.seen
    /\ UNCHANGED <<outside, reloads, rows>>

Named(entries, n) == {e.key : e \in {f \in entries : NameOf(f) = n}}

\* Seeded fault: commit looks in the copy alone.
LinksOfCopy(n) == IF Named(copy, n) # {} THEN Named(copy, n) ELSE {None}

\* commit looks in the copy, and Save in the table when that was in vain.
Links(n) ==
    IF Named(copy, n) # {} THEN Named(copy, n)
    ELSE IF Named(OpenRemotes, n) # {} THEN Named(OpenRemotes, n) ELSE {None}

Insert(l, failed) ==
    /\ rows' = rows \cup {[name |-> session, link |-> l, seen |-> seen, failed |-> failed]}
    /\ Cardinality(rows') <= MaxRows

\* The row is saved without a key also when Save's query fails.
Commit ==
    /\ session # None
    /\ \/ \E l \in Links(session) : Insert(l, FALSE)
       \/ Named(copy, session) = {} /\ Insert(None, TRUE)
    /\ session' = None
    /\ seen' = 0
    /\ UNCHANGED <<outside, reloads>>

\* The session is given up, or its INSERT fails.
Abandon ==
    /\ session # None
    /\ session' = None
    /\ seen' = 0
    /\ UNCHANGED <<outside, reloads, rows>>

\* The app ends and is opened again: the user quits, or the runtime finds two goroutines
\* in the map.
Restart ==
    /\ copy' = {}
    /\ fetched' = {}
    /\ found' = [g \in Loader |-> {}]
    /\ session' = None
    /\ seen' = 0
    /\ UNCHANGED <<outside, rows>>

App ==
    \/ \E g \in Loader :
        QueryRemotes(g) \/ EmptyRemotes(g) \/ \E e \in found[g] : AddRemote(g, e)
    \/ Pick \/ Commit \/ Abandon \/ Restart

-----------------------------------------------------------------------------

Pull(d) ==
    \/ StartPull(d) \/ SetLastPull(d) \/ Break(d)
    \/ \E k \in Key : Read(d, k) \/ Upsert(d, k)

Next ==
    \/ Tick
    \/ \E k \in Key : \E t \in 0..now : Change(k, t)
    \/ \E d \in Daemon : Pull(d)
    \/ App

Spec == Init /\ [][Next]_vars

-----------------------------------------------------------------------------

\* The cursor never passes a change: an issue the query selects is in the mirror as it
\* is, or the next pull asks for it (Engine.pull).  Excepted are issues whose row a
\* second daemon has replaced by an older one, and files that came with a time that a
\* pull, done or under way, had already taken its cursor from (jsonfile.Pull).
NothingPassed ==
    \A k \in Key \ (overtaken \cup late) :
        Visible(k) => mirror[k] = rev[k] \/ ChangedSince(k, cursor)

\* A row is replaced by an older one only by a pull during which another daemon
\* stored a row: one daemon, whatever breaks, never takes the mirror back.
RowsGoBackOnlyInRaces ==
    [][\A k \in Key : mirror'[k] < mirror[k] => \E d \in raced : got[d][k] = mirror'[k]]_vars

\* A session under a name of the picker is saved without a foreign_key only if, after the
\* revision at which the picker showed that name, its issue was renamed or done, also when
\* goroutines were rebuilding the copy (commit, Save).  Excepted are sessions for which
\* Save could not read the table, and issues whose row a second daemon took back.
UnlinkedIsExplained ==
    \A r \in rows : r.link = None /\ ~r.failed =>
        \E k \in Key :
            /\ r.name[1] = k
            /\ \/ k \in overtaken
               \/ \E v \in r.seen + 1..rev[k] : v \in ClosedAt[k] \/ DisplayName(k, v) # r.name

=============================================================================
