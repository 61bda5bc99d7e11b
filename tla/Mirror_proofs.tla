------------------------------ MODULE Mirror_proofs ------------------------------
(***************************************************************************)
(* Proofs about Mirror, for any issues, daemons, revisions and clock       *)
(* resolution.                                                             *)
(*                                                                         *)
(* The cursor a pull records is the time it began.  Covered is why that is *)
(* enough: whatever a running pull has read or has yet to read, an issue   *)
(* it would leave behind has changed since it began, so the next pull asks *)
(* for it again.  Fresh says who may take a row back: only a pull during   *)
(* which another daemon stored one.  NamesShown says that a name on the    *)
(* clock was that of an open row once, and that the row is not from before *)
(* then: if it answers to the name no more, its issue has changed since.   *)
(***************************************************************************)
EXTENDS Mirror, TLAPS

\* What the rows and the reads hold are revisions the issue has had, and an idle daemon
\* holds nothing.
Behind ==
    /\ \A k \in Key : mirror[k] <= rev[k]
    /\ \A d \in Daemon, k \in Key : got[d][k] <= rev[k]
    /\ \A d \in Daemon \ pulling : todo[d] = {} /\ \A k \in Key : got[d][k] = 0

\* A pull that ends now leaves an issue as it is in the mirror, or a cursor that does
\* not pass it.
CoveredBy(d, k) ==
    \/ mirror[k] = rev[k]
    \/ got[d][k] = rev[k]
    \/ stamp[k] >= Coarse(asked[d])
    \/ k \in todo[d] /\ ChangedSince(k, since[d])

Covered == \A d \in pulling : \A k \in Key \ (overtaken \cup late) : Visible(k) => CoveredBy(d, k)

\* What a daemon has read and no other has overtaken is not older than the row.
Fresh ==
    \A d \in pulling \ raced : \A k \in Key : got[d][k] # 0 => mirror[k] <= got[d][k]

\* An issue was in the table open, at this revision, and its row is not from before.
Shown(k, v) == v \in Rev \ ClosedAt[k] /\ (v <= mirror[k] \/ k \in overtaken)

\* So with what the copy holds or is about to, and with the names taken from it.
NamesShown ==
    /\ \A e \in copy : Shown(e.key, e.rev)
    /\ \A g \in Loader : \A e \in found[g] : Shown(e.key, e.rev)
    /\ session # None => \E k \in Key : session = DisplayName(k, seen) /\ Shown(k, seen)
    /\ \A r \in rows : \E k \in Key : r.name = DisplayName(k, r.seen) /\ Shown(k, r.seen)

\* What pulling maintains, by induction.
PullInv == TypeOK /\ Behind /\ Covered /\ Fresh /\ NothingPassed

\* What the app's names maintain, by induction.
NameInv == TypeOK /\ Behind /\ NamesShown /\ UnlinkedIsExplained

\* The empty mirror is typed.
LEMMA TypeInit == Init => TypeOK
  BY MirrorAssumption DEF Init, TypeOK, Nothing, MaybeRev

\* The app leaves the daemons, the table and the provider as they are.
LEMMA AppFrame == App => UNCHANGED outside
  BY DEF App, QueryRemotes, EmptyRemotes, AddRemote, Pick, Commit, Abandon, Restart

\* What the app copies, shows and saves is typed.
LEMMA AppType == TypeOK /\ App => TypeOK'
<1>. SUFFICES ASSUME TypeOK, App PROVE TypeOK'
  OBVIOUS
<1>1. now' = now /\ UNCHANGED <<provider, mirror, cursor, locals, history>>
  BY AppFrame DEF outside, provider
<1>2. ASSUME /\ copy' \subseteq Entry
             /\ fetched' \subseteq Loader
             /\ found' \in [Loader -> SUBSET Entry]
             /\ session' \in Name \cup {None}
             /\ seen' \in MaybeRev /\ (session' # None => seen' \in Rev)
             /\ rows' \subseteq [name : Name, link : Key \cup {None}, seen : Rev, failed : BOOLEAN]
      PROVE  TypeOK'
  BY <1>1, <1>2 DEF provider, locals, history, TypeOK
<1>3. ASSUME NEW g \in Loader, QueryRemotes(g) PROVE TypeOK'
  <2>1. OpenRemotes \subseteq Entry
    BY DEF OpenRemotes, Entry, TypeOK, MaybeRev, Rev
  <2>. QED
    BY <1>2, <1>3, <2>1 DEF QueryRemotes, TypeOK
<1>4. ASSUME NEW g \in Loader, EmptyRemotes(g) PROVE TypeOK'
  BY <1>2, <1>4 DEF EmptyRemotes, TypeOK
<1>5. ASSUME NEW g \in Loader, NEW e \in found[g], AddRemote(g, e) PROVE TypeOK'
  BY <1>2, <1>5 DEF AddRemote, TypeOK
<1>6. CASE Pick
  <2>1. session' \in Name /\ seen' \in Rev
    BY <1>6 DEF Pick, NameOf, Name, Entry, TypeOK
  <2>. QED
    BY <1>2, <1>6, <2>1 DEF Pick, reloads, TypeOK, MaybeRev, Rev
<1>7. CASE Commit
  <2>1. Named(copy, session) \subseteq Key /\ Named(OpenRemotes, session) \subseteq Key
    BY DEF Named, OpenRemotes, Entry, TypeOK
  <2>2. PICK l \in Key \cup {None}, f \in BOOLEAN : Insert(l, f)
    BY <1>7, <2>1 DEF Commit, Links
  <2>. QED
    BY <1>2, <1>7, <2>2, MirrorAssumption DEF Commit, Insert, reloads, TypeOK, MaybeRev
<1>8. CASE Abandon
  BY <1>2, <1>8, MirrorAssumption DEF Abandon, reloads, TypeOK, MaybeRev
<1>9. CASE Restart
  BY <1>2, <1>9, MirrorAssumption DEF Restart, TypeOK, MaybeRev
<1>. QED
  BY <1>3, <1>4, <1>5, <1>6, <1>7, <1>8, <1>9 DEF App

\* Type correctness is inductive on its own.
LEMMA TypeStep == TypeOK /\ [Next]_vars => TypeOK'
<1>. SUFFICES ASSUME TypeOK, [Next]_vars PROVE TypeOK'
  OBVIOUS
<1>1. CASE Tick
  BY <1>1, MirrorAssumption DEF Tick, locals, app, reloads, history, TypeOK
<1>2. ASSUME NEW k \in Key, NEW t \in 0..now, Change(k, t) PROVE TypeOK'
  BY <1>2 DEF Change, locals, app, reloads, history, TypeOK, MaybeRev, Rev
<1>3. ASSUME NEW d \in Daemon, StartPull(d) PROVE TypeOK'
  BY <1>3 DEF StartPull, provider, app, reloads, history, TypeOK
<1>4. ASSUME NEW d \in Daemon, SetLastPull(d) PROVE TypeOK'
  BY <1>4 DEF SetLastPull, Return, provider, app, reloads, TypeOK
<1>5. ASSUME NEW d \in Daemon, Break(d) PROVE TypeOK'
  BY <1>5, MirrorAssumption DEF Break, Return, Nothing, provider, app, reloads, TypeOK, MaybeRev
<1>6. ASSUME NEW d \in Daemon, NEW k \in Key, Read(d, k) PROVE TypeOK'
  BY <1>6 DEF Read, provider, app, reloads, history, TypeOK
<1>7. ASSUME NEW d \in Daemon, NEW k \in Key, Upsert(d, k) PROVE TypeOK'
  BY <1>7, MirrorAssumption DEF Upsert, provider, app, reloads, TypeOK, MaybeRev
<1>8. CASE App
  BY <1>8, AppType
<1>9. CASE UNCHANGED vars
  BY <1>9 DEF vars, provider, locals, app, reloads, history, TypeOK
<1>. QED
  BY <1>1, <1>2, <1>3, <1>4, <1>5, <1>6, <1>7, <1>8, <1>9 DEF Next, Pull

\* No step stores, reads or copies a revision the issue has not had.
LEMMA BehindStep ==
    ASSUME TypeOK, Behind, [Next]_vars
    PROVE  Behind'
<1>1. CASE Tick
  BY <1>1 DEF Tick, locals, app, reloads, Behind
<1>2. ASSUME NEW k \in Key, NEW t \in 0..now, Change(k, t) PROVE Behind'
  BY <1>2 DEF Change, locals, app, reloads, TypeOK, MaybeRev, Behind
<1>3. ASSUME NEW d \in Daemon, StartPull(d) PROVE Behind'
  BY <1>3 DEF StartPull, provider, app, reloads, Behind
<1>4. ASSUME NEW d \in Daemon, SetLastPull(d) PROVE Behind'
  BY <1>4 DEF SetLastPull, Return, Nothing, provider, app, reloads, Behind
<1>5. ASSUME NEW d \in Daemon, Break(d) PROVE Behind'
  BY <1>5 DEF Break, Return, Nothing, provider, app, reloads, TypeOK, MaybeRev, Behind
<1>6. ASSUME NEW d \in Daemon, NEW k \in Key, Read(d, k) PROVE Behind'
  BY <1>6 DEF Read, provider, app, reloads, TypeOK, MaybeRev, Behind
<1>7. ASSUME NEW d \in Daemon, NEW k \in Key, Upsert(d, k) PROVE Behind'
  BY <1>7 DEF Upsert, provider, app, reloads, TypeOK, MaybeRev, Behind
<1>8. CASE App
  BY <1>8, AppFrame DEF outside, provider, locals, Behind
<1>9. CASE UNCHANGED vars
  BY <1>9 DEF vars, provider, locals, app, reloads, Behind
<1>. QED
  BY <1>1, <1>2, <1>3, <1>4, <1>5, <1>6, <1>7, <1>8, <1>9 DEF Next, Pull

\* Only the upsert of one pull can put a row ahead of what another pull has read, and it
\* races that pull.
LEMMA FreshStep ==
    ASSUME TypeOK, Behind, Fresh, [Next]_vars
    PROVE  Fresh'
<1>1. CASE Tick
  BY <1>1 DEF Tick, locals, history, Fresh
<1>2. ASSUME NEW k \in Key, NEW t \in 0..now, Change(k, t) PROVE Fresh'
  BY <1>2 DEF Change, locals, history, Fresh
<1>3. ASSUME NEW d \in Daemon, StartPull(d) PROVE Fresh'
  BY <1>3 DEF StartPull, history, Behind, Fresh
<1>4. ASSUME NEW d \in Daemon, SetLastPull(d) PROVE Fresh'
  BY <1>4 DEF SetLastPull, Return, Fresh
<1>5. ASSUME NEW d \in Daemon, Break(d) PROVE Fresh'
  BY <1>5 DEF Break, Return, Fresh
<1>6. ASSUME NEW d \in Daemon, NEW k \in Key, Read(d, k) PROVE Fresh'
  BY <1>6 DEF Read, history, Behind, Fresh
<1>7. ASSUME NEW d \in Daemon, NEW k \in Key, Upsert(d, k) PROVE Fresh'
  BY <1>7 DEF Upsert, TypeOK, Fresh
<1>8. CASE App
  BY <1>8, AppFrame DEF outside, locals, history, Fresh
<1>9. CASE UNCHANGED vars
  BY <1>9 DEF vars, locals, history, Fresh
<1>. QED
  BY <1>1, <1>2, <1>3, <1>4, <1>5, <1>6, <1>7, <1>8, <1>9 DEF Next, Pull

\* A running pull goes on covering every issue, whatever changes and whoever stores rows.
LEMMA CoveredStep ==
    ASSUME TypeOK, Behind, Covered, NothingPassed, [Next]_vars
    PROVE  Covered'
<1>1. CASE Tick
  BY <1>1 DEF Tick, locals, history, Covered, CoveredBy, Visible, ChangedSince
<1>2. ASSUME NEW k \in Key, NEW t \in 0..now, Change(k, t) PROVE Covered'
  <2>1. /\ UNCHANGED <<mirror, pulling, since, asked, todo, got, overtaken>>
        /\ rev' = [rev EXCEPT ![k] = @ + 1] /\ stamp' = [stamp EXCEPT ![k] = t]
        /\ late' = IF Passed(t) THEN late \cup {k} ELSE late \ {k}
    BY <1>2 DEF Change, locals, history
  <2>2. ASSUME NEW d \in pulling, NEW j \in Key \ (overtaken \cup late'), Visible(j)'
        PROVE  CoveredBy(d, j)'
    <3>1. CASE j = k
      <4>1. ~Passed(t)
        BY <2>1, <2>2, <3>1
      <4>2. asked[d] \in Cursors
        BY <2>2 DEF Cursors
      <4>3. Coarse(asked[d]) \in Nat
        BY <2>2, CoarseAssumption, MirrorAssumption DEF TypeOK
      <4>4. t >= Coarse(asked[d])
        BY <4>1, <4>2, <4>3 DEF Passed, TypeOK
      <4>. QED
        BY <2>1, <3>1, <4>4 DEF CoveredBy, TypeOK
    <3>2. CASE j # k
      <4>1. rev'[j] = rev[j] /\ stamp'[j] = stamp[j] /\ j \notin late
        BY <2>1, <2>2, <3>2 DEF TypeOK
      <4>. QED
        BY <2>1, <2>2, <4>1 DEF Covered, CoveredBy, Visible, ChangedSince
    <3>. QED
      BY <3>1, <3>2
  <2>. QED
    BY <2>1, <2>2 DEF Covered
<1>3. ASSUME NEW d \in Daemon, StartPull(d) PROVE Covered'
  BY <1>3 DEF StartPull, provider, history, TypeOK, Covered, CoveredBy, Visible, ChangedSince,
     NothingPassed
<1>4. ASSUME NEW d \in Daemon, SetLastPull(d) PROVE Covered'
  BY <1>4 DEF SetLastPull, Return, provider, Covered, CoveredBy, Visible, ChangedSince
<1>5. ASSUME NEW d \in Daemon, Break(d) PROVE Covered'
  BY <1>5 DEF Break, Return, provider, Covered, CoveredBy, Visible, ChangedSince
<1>6. ASSUME NEW d \in Daemon, NEW k \in Key, Read(d, k) PROVE Covered'
  BY <1>6 DEF Read, provider, history, TypeOK, Covered, CoveredBy, Visible, ChangedSince
<1>7. ASSUME NEW d \in Daemon, NEW k \in Key, Upsert(d, k) PROVE Covered'
  BY <1>7 DEF Upsert, provider, app, reloads, TypeOK, MaybeRev, Behind, Covered, CoveredBy, Visible,
     ChangedSince
<1>8. CASE App
  BY <1>8, AppFrame DEF outside, provider, locals, history, Covered, CoveredBy, Visible, ChangedSince
<1>9. CASE UNCHANGED vars
  BY <1>9 DEF vars, provider, locals, history, Covered, CoveredBy, Visible, ChangedSince
<1>. QED
  BY <1>1, <1>2, <1>3, <1>4, <1>5, <1>6, <1>7, <1>8, <1>9 DEF Next, Pull

\* No step leaves an issue stale in the mirror and behind the cursor: SetLastPull finds
\* every issue covered, and an upsert that takes a row back is recorded.
LEMMA PassedStep ==
    ASSUME TypeOK, Behind, Covered, NothingPassed, [Next]_vars
    PROVE  NothingPassed'
<1>1. CASE Tick
  BY <1>1 DEF Tick, history, Visible, ChangedSince, NothingPassed
<1>2. ASSUME NEW k \in Key, NEW t \in 0..now, Change(k, t) PROVE NothingPassed'
  <2>1. UNCHANGED <<mirror, cursor, overtaken>>
    BY <1>2 DEF Change, history
  <2>2. rev' = [rev EXCEPT ![k] = @ + 1] /\ stamp' = [stamp EXCEPT ![k] = t]
    BY <1>2 DEF Change
  <2>3. Coarse(cursor) \in Nat /\ late' = IF Passed(t) THEN late \cup {k} ELSE late \ {k}
    BY <1>2, CoarseAssumption, MirrorAssumption DEF Change, TypeOK
  <2>. QED
    BY <2>1, <2>2, <2>3 DEF Passed, Cursors, TypeOK, Visible, ChangedSince, NothingPassed
<1>3. ASSUME NEW d \in Daemon, StartPull(d) PROVE NothingPassed'
  BY <1>3 DEF StartPull, provider, history, Visible, ChangedSince, NothingPassed
<1>4. ASSUME NEW d \in Daemon, SetLastPull(d) PROVE NothingPassed'
  <2>1. /\ UNCHANGED <<rev, stamp, late, mirror, overtaken>>
        /\ cursor' = asked[d] /\ todo[d] = {} /\ d \in pulling
    BY <1>4 DEF SetLastPull, provider
  <2>2. \A k \in Key : got[d][k] = 0
    BY <1>4 DEF SetLastPull, Nothing
  <2>3. Coarse(asked[d]) \in 0..asked[d]
    BY CoarseAssumption, MirrorAssumption DEF TypeOK
  <2>4. ASSUME NEW k \in Key \ (overtaken \cup late), Visible(k)
        PROVE  mirror[k] = rev[k] \/ stamp[k] >= Coarse(asked[d])
    <3>1. mirror[k] = rev[k] \/ got[d][k] = rev[k] \/ stamp[k] >= Coarse(asked[d]) \/ k \in todo[d]
      BY <2>1, <2>4 DEF Covered, CoveredBy
    <3>2. got[d][k] # rev[k] /\ k \notin todo[d]
      BY <2>1, <2>2, <2>4 DEF Visible
    <3>. QED
      BY <2>3, <3>1, <3>2 DEF TypeOK
  <2>. QED
    BY <2>1, <2>4 DEF Visible, ChangedSince, NothingPassed
<1>5. ASSUME NEW d \in Daemon, Break(d) PROVE NothingPassed'
  BY <1>5 DEF Break, provider, Visible, ChangedSince, NothingPassed
<1>6. ASSUME NEW d \in Daemon, NEW k \in Key, Read(d, k) PROVE NothingPassed'
  BY <1>6 DEF Read, provider, history, Visible, ChangedSince, NothingPassed
<1>7. ASSUME NEW d \in Daemon, NEW k \in Key, Upsert(d, k) PROVE NothingPassed'
  <2>1. /\ mirror' = [mirror EXCEPT ![k] = got[d][k]]
        /\ got[d][k] # 0 /\ got[d][k] <= rev[k]
        /\ overtaken' = IF got[d][k] < mirror[k] THEN overtaken \cup {k} ELSE overtaken
        /\ UNCHANGED <<rev, stamp, late, cursor>>
    BY <1>7 DEF Upsert, provider, Behind
  <2>2. ASSUME NEW j \in Key \ (overtaken' \cup late), Visible(j)
        PROVE  mirror'[j] = rev[j] \/ ChangedSince(j, cursor)
    <3>1. mirror[j] = rev[j] \/ ChangedSince(j, cursor)
      BY <2>1, <2>2 DEF NothingPassed
    <3>2. CASE j = k
      <4>1. got[d][k] \in Nat /\ mirror[k] \in Nat /\ rev[k] \in Nat /\ mirror'[k] = got[d][k]
        BY <2>1, MirrorAssumption DEF TypeOK, MaybeRev
      <4>2. got[d][k] >= mirror[k]
        BY <2>1, <2>2, <3>2, <4>1
      <4>. QED
        BY <2>1, <3>1, <3>2, <4>1, <4>2
    <3>3. CASE j # k
      BY <2>1, <3>1, <3>3 DEF TypeOK
    <3>. QED
      BY <3>2, <3>3
  <2>. QED
    BY <2>1, <2>2 DEF NothingPassed, Visible, ChangedSince
<1>8. CASE App
  BY <1>8, AppFrame DEF outside, provider, history, Visible, ChangedSince, NothingPassed
<1>9. CASE UNCHANGED vars
  BY <1>9 DEF vars, provider, history, Visible, ChangedSince, NothingPassed
<1>. QED
  BY <1>1, <1>2, <1>3, <1>4, <1>5, <1>6, <1>7, <1>8, <1>9 DEF Next, Pull

\* Shown, of the next state.
ShownNext(k, v) == v \in Rev \ ClosedAt[k] /\ (v <= mirror'[k] \/ k \in overtaken')

\* A row goes back only when its issue is counted as overtaken.
LEMMA ShownHolds ==
    ASSUME TypeOK, [Next]_vars, NEW k \in Key, NEW v, Shown(k, v)
    PROVE  ShownNext(k, v)
<1>1. CASE mirror' = mirror /\ overtaken \subseteq overtaken'
  BY <1>1 DEF Shown, ShownNext
<1>2. ASSUME NEW d \in Daemon, NEW j \in Key, Upsert(d, j) PROVE ShownNext(k, v)
  BY <1>2 DEF Upsert, TypeOK, MaybeRev, Rev, Shown, ShownNext
<1>3. CASE App \/ UNCHANGED vars
  BY <1>1, <1>3, AppFrame DEF outside, vars, history
<1>. QED
  BY <1>1, <1>2, <1>3 DEF Next, Pull, Tick, Change, StartPull, SetLastPull, Break, Read, history

\* Every name that can be picked or was is that of an issue shown.
LEMMA ShownStep ==
    ASSUME TypeOK, NamesShown, [Next]_vars
    PROVE  NamesShown'
<1>. DEFINE Stays(n, v) == \E k \in Key : n = DisplayName(k, v) /\ ShownNext(k, v)
<1>1. /\ \A e \in copy : ShownNext(e.key, e.rev)
      /\ \A g \in Loader : \A e \in found[g] : ShownNext(e.key, e.rev)
  BY ShownHolds DEF NamesShown, TypeOK, Entry
<1>2. /\ session # None => Stays(session, seen)
      /\ \A r \in rows : Stays(r.name, r.seen)
  <2>1. ASSUME NEW n, NEW v, NEW k \in Key, n = DisplayName(k, v), Shown(k, v) PROVE Stays(n, v)
    BY <2>1, ShownHolds
  <2>. HIDE DEF Stays
  <2>. QED
    BY <2>1 DEF NamesShown
<1>3. ASSUME /\ \A e \in copy' : ShownNext(e.key, e.rev)
             /\ \A g \in Loader : \A e \in found'[g] : ShownNext(e.key, e.rev)
             /\ session' # None => Stays(session', seen')
             /\ \A r \in rows' : Stays(r.name, r.seen)
      PROVE  NamesShown'
  BY <1>3 DEF NamesShown, DisplayName, Shown, ShownNext
<1>4. CASE UNCHANGED app
  BY <1>1, <1>2, <1>3, <1>4 DEF app, reloads
<1>5. ASSUME NEW g \in Loader, QueryRemotes(g) PROVE NamesShown'
  <2>1. \A e \in OpenRemotes : e.key \in Key /\ ShownNext(e.key, e.rev)
    <3>1. \A e \in OpenRemotes : e.key \in Key /\ Shown(e.key, e.rev)
      BY DEF OpenRemotes, TypeOK, MaybeRev, Rev, Shown
    <3>. QED
      BY <3>1, ShownHolds
  <2>. QED
    BY <1>1, <1>2, <1>3, <1>5, <2>1 DEF QueryRemotes, TypeOK
<1>6. ASSUME NEW g \in Loader, EmptyRemotes(g) PROVE NamesShown'
  BY <1>1, <1>2, <1>3, <1>6 DEF EmptyRemotes
<1>7. ASSUME NEW g \in Loader, NEW e \in found[g], AddRemote(g, e) PROVE NamesShown'
  BY <1>1, <1>2, <1>3, <1>7 DEF AddRemote, TypeOK
<1>8. CASE Pick
  <2>1. Stays(session', seen')
    BY <1>1, <1>2, <1>8 DEF Pick, NameOf, Entry, TypeOK
  <2>. QED
    BY <1>1, <1>2, <1>3, <1>8, <2>1 DEF Pick, reloads
<1>9. CASE Commit
  BY <1>1, <1>2, <1>3, <1>9 DEF Commit, Insert, reloads
<1>10. CASE Abandon
  BY <1>1, <1>2, <1>3, <1>10 DEF Abandon, reloads
<1>11. CASE Restart
  BY <1>2, <1>3, <1>11 DEF Restart
<1>. QED
  BY <1>4, <1>5, <1>6, <1>7, <1>8, <1>9, <1>10, <1>11 DEF Next, App, Pull, Tick, Change, StartPull,
     SetLastPull, Break, Read, Upsert, vars

\* What UnlinkedIsExplained asks of an issue.
Explained(k, n, v) ==
    k \in overtaken \/ \E w \in v + 1..rev[k] : w \in ClosedAt[k] \/ DisplayName(k, w) # n

\* An issue shown under a name that no open row of the table has now is explained.
LEMMA MissingIsExplained ==
    ASSUME TypeOK, Behind, NEW k \in Key, NEW v, Shown(k, v),
           Named(OpenRemotes, DisplayName(k, v)) = {}
    PROVE  Explained(k, DisplayName(k, v), v)
<1>. DEFINE n == DisplayName(k, v)
            m == mirror[k]
<1>. SUFFICES ASSUME k \notin overtaken
              PROVE  \E w \in v + 1..rev[k] : w \in ClosedAt[k] \/ DisplayName(k, w) # n
  BY DEF Explained
<1>1. v \in Rev \ ClosedAt[k] /\ v <= m /\ m <= rev[k] /\ m \in Nat /\ rev[k] \in Nat /\ v \in Nat /\ v # 0
  BY MirrorAssumption DEF Shown, Behind, TypeOK, MaybeRev, Rev
<1>2. CASE m \in ClosedAt[k]
  <2>1. m # v
    BY <1>1, <1>2
  <2>. QED
    BY <1>1, <1>2, <2>1
<1>3. CASE m \notin ClosedAt[k]
  <2>. DEFINE e == [key |-> k, rev |-> m]
  <2>1. e \in OpenRemotes
    BY <1>1, <1>3 DEF OpenRemotes
  <2>2. NameOf(e) # n
    BY <2>1 DEF Named
  <2>3. DisplayName(k, m) # n
    BY <2>2 DEF NameOf
  <2>4. m # v
    BY <2>3
  <2>. QED
    BY <1>1, <2>3, <2>4
<1>. QED
  BY <1>2, <1>3

\* Commit saves a row without a link only when both of its lookups were in vain.
LEMMA UnlinkedStep ==
    ASSUME TypeOK, Behind, NamesShown, UnlinkedIsExplained, [Next]_vars
    PROVE  UnlinkedIsExplained'
<1>1. ASSUME NEW k \in Key, NEW n, NEW v \in Nat, Explained(k, n, v)
      PROVE  k \in overtaken' \/ \E w \in v + 1..rev'[k] : w \in ClosedAt[k] \/ DisplayName(k, w) # n
  <2>1. rev[k] \in Nat /\ rev'[k] \in Nat
    BY TypeStep, MirrorAssumption DEF TypeOK, MaybeRev
  <2>2. overtaken \subseteq overtaken' /\ rev[k] <= rev'[k]
    <3>1. CASE App \/ UNCHANGED vars
      BY <2>1, <3>1, AppFrame DEF outside, provider, history, vars
    <3>2. ASSUME NEW j \in Key, NEW t \in 0..now, Change(j, t)
          PROVE  overtaken \subseteq overtaken' /\ rev[k] <= rev'[k]
      BY <2>1, <3>2 DEF Change, history, TypeOK
    <3>. QED
      BY <2>1, <3>1, <3>2 DEF Next, Pull, Tick, StartPull, SetLastPull, Break, Read, Upsert, provider,
         history
  <2>3. v + 1..rev[k] \subseteq v + 1..rev'[k]
    BY <2>1, <2>2
  <2>. QED
    BY <1>1, <2>2, <2>3 DEF Explained
<1>2. ASSUME NEW r \in rows, r.link = None, ~r.failed
      PROVE  \E k \in Key : r.name[1] = k /\ Explained(k, r.name, r.seen)
  BY <1>2 DEF UnlinkedIsExplained, Explained
<1>3. \A r \in rows : r.seen \in Nat
  BY DEF TypeOK, Rev
<1>4. \A r \in rows : r.link = None /\ ~r.failed =>
          \E k \in Key :
              /\ r.name[1] = k
              /\ \/ k \in overtaken'
                 \/ \E w \in r.seen + 1..rev'[k] : w \in ClosedAt[k] \/ DisplayName(k, w) # r.name
  BY <1>1, <1>2, <1>3
<1>5. CASE rows' = rows
  BY <1>4, <1>5 DEF UnlinkedIsExplained, DisplayName
<1>6. CASE Commit
  <2>1. UNCHANGED <<rev, overtaken>> /\ session # None
    BY <1>6 DEF Commit, outside, provider, history
  <2>2. PICK k \in Key : session = DisplayName(k, seen) /\ Shown(k, seen)
    BY <2>1 DEF NamesShown
  <2>3. ASSUME NEW r \in rows' \ rows, r.link = None, ~r.failed
        PROVE  r.name[1] = k /\ Explained(k, r.name, r.seen)
    <3>1. r.name = session /\ r.seen = seen
      BY <1>6, <2>3 DEF Commit, Insert
    <3>2. None \in Links(session)
      BY <1>6, <2>3 DEF Commit, Insert
    <3>3. None \notin Named(copy, session) /\ None \notin Named(OpenRemotes, session)
      BY MirrorAssumption DEF Named, OpenRemotes, Entry, TypeOK
    <3>4. Named(OpenRemotes, session) = {}
      BY <3>2, <3>3 DEF Links
    <3>. QED
      BY <2>2, <3>1, <3>4, MissingIsExplained DEF DisplayName
  <2>. QED
    BY <1>4, <2>1, <2>3 DEF UnlinkedIsExplained, Explained, DisplayName
<1>. QED
  BY <1>5, <1>6 DEF Next, App, Pull, Tick, Change, StartPull, SetLastPull, Break, Read, Upsert,
     QueryRemotes, EmptyRemotes, AddRemote, Pick, Abandon, Restart, app, vars

\* The invariant of pulling holds at the start.
LEMMA PullInit == Init => PullInv
<1>1. Init => TypeOK
  BY TypeInit
<1>2. Init => Behind /\ Covered /\ Fresh /\ NothingPassed
  BY DEF Init, Behind, Covered, Fresh, NothingPassed, Nothing
<1>. QED
  BY <1>1, <1>2 DEF PullInv

\* For any number of daemons, PullInv holds in every reachable state.
THEOREM PullInvariance == Spec => []PullInv
<1>1. PullInv /\ [Next]_vars => PullInv'
  BY TypeStep, BehindStep, CoveredStep, FreshStep, PassedStep DEF PullInv
<1>. QED
  BY PullInit, <1>1, PTL DEF Spec

\* Type correctness of the mirror, the pulls and the app's copy.
THEOREM MirrorTypeCorrect == Spec => []TypeOK
  BY PullInvariance, PTL DEF PullInv

\* The cursor never passes a change the mirror lacks, except one that a slower pull
\* took back: a later pull of any daemon asks for it again.
THEOREM NothingPassedAlways == Spec => []NothingPassed
  BY PullInvariance, PTL DEF PullInv

\* A pull that no other daemon disturbs takes no row back, and an issue that its provider
\* dates itself is not late: what NothingPassed excepts does not come about.
Undisturbed == raced = {} /\ overtaken = {} /\ late = {}

LEMMA UndisturbedStep ==
    ASSUME NEW d \in Daemon, Daemon = {d}, Dated = {}, PullInv, Undisturbed, [Next]_vars
    PROVE  Undisturbed'
<1>. USE DEF PullInv, Undisturbed
<1>1. ASSUME UNCHANGED <<late, overtaken>>, raced' \subseteq raced PROVE Undisturbed'
  BY <1>1
<1>2. ASSUME NEW k \in Key, NEW t \in 0..now, Change(k, t) PROVE Undisturbed'
  <2>1. t = now /\ UNCHANGED <<raced, overtaken>>
    BY <1>2 DEF Change, history
  <2>2. \A c \in Cursors : c \in 0..now /\ c \in 0..MaxTime
    <3>1. Cursors \subseteq 0..now
      BY DEF Cursors, TypeOK
    <3>2. now \in Nat /\ now <= MaxTime /\ MaxTime \in Nat
      BY MirrorAssumption DEF TypeOK
    <3>. QED
      BY <3>1, <3>2
  <2>3. \A c \in Cursors : Coarse(c) \in Nat /\ Coarse(c) <= now
    BY <2>2, CoarseAssumption, MirrorAssumption DEF TypeOK
  <2>4. ~Passed(t)
    BY <2>1, <2>3 DEF Passed, TypeOK
  <2>. QED
    BY <1>2, <2>1, <2>4 DEF Change
<1>3. ASSUME NEW k \in Key, Upsert(d, k) PROVE Undisturbed'
  <2>1. d \in pulling /\ pulling \ {d} = {}
    BY <1>3 DEF Upsert, Behind, TypeOK
  <2>2. /\ mirror[k] \in Nat /\ got[d][k] \in Nat
        /\ mirror[k] <= got[d][k]
    BY <1>3, <2>1 DEF Upsert, Fresh, TypeOK, MaybeRev
  <2>. QED
    BY <1>3, <2>1, <2>2 DEF Upsert, provider
<1>4. CASE Tick \/ App \/ UNCHANGED vars
  BY <1>1, <1>4, AppFrame DEF Tick, outside, vars, provider, history
<1>5. CASE StartPull(d) \/ SetLastPull(d) \/ Break(d) \/ \E k \in Key : Read(d, k)
  BY <1>1, <1>5 DEF StartPull, SetLastPull, Break, Read, Return, provider, history
<1>. QED
  BY <1>2, <1>3, <1>4, <1>5 DEF Next, Pull

\* One daemon on a server's issues misses nothing, whatever breaks its pulls and whenever
\* issues change: each one the query selects is in the mirror as it is, or asked for next.
THEOREM OneDaemonMissesNothing ==
    ASSUME NEW d \in Daemon, Daemon = {d}, Dated = {}
    PROVE  Spec => [](\A k \in Key : Visible(k) => mirror[k] = rev[k] \/ ChangedSince(k, cursor))
<1>1. Init => Undisturbed
  BY DEF Init, Undisturbed
<1>2. PullInv /\ Undisturbed /\ [Next]_vars => Undisturbed'
  BY UndisturbedStep
<1>3. PullInv /\ Undisturbed =>
          \A k \in Key : Visible(k) => mirror[k] = rev[k] \/ ChangedSince(k, cursor)
  BY DEF PullInv, Undisturbed, NothingPassed
<1>. QED
  BY <1>1, <1>2, <1>3, PullInvariance, PTL DEF Spec

\* UpsertRemote replaces a row by an older revision only for a pull during which another
\* daemon stored rows.
THEOREM RowsGoBackOnlyInRacesAlways == Spec => RowsGoBackOnlyInRaces
<1>1. ASSUME PullInv, [Next]_vars
      PROVE  [\A k \in Key : mirror'[k] < mirror[k] =>
                  \E d \in raced : got[d][k] = mirror'[k]]_vars
  <2>. SUFFICES ASSUME NEW k \in Key, mirror'[k] < mirror[k]
                PROVE  \E d \in raced : got[d][k] = mirror'[k]
    OBVIOUS
  <2>1. mirror \in [Key -> Nat]
    BY <1>1 DEF PullInv, TypeOK, MaybeRev
  <2>2. mirror' # mirror
    BY <2>1
  <2>3. PICK d \in Daemon, j \in Key : Upsert(d, j)
    BY <1>1, <2>2, AppFrame DEF Next, Pull, Tick, Change, StartPull, SetLastPull, Break, Read,
       outside, vars
  <2>4. mirror' = [mirror EXCEPT ![j] = got[d][j]] /\ got[d][j] # 0
    BY <2>3 DEF Upsert
  <2>5. j = k /\ mirror'[k] = got[d][k]
    BY <2>1, <2>4
  <2>6. d \in pulling
    BY <1>1, <2>4 DEF PullInv, Behind
  <2>7. d \in raced
    BY <1>1, <2>4, <2>6 DEF PullInv, Fresh, TypeOK, MaybeRev
  <2>. QED
    BY <2>5, <2>7
<1>. QED
  BY PullInvariance, <1>1, PTL DEF Spec, RowsGoBackOnlyInRaces

\* That of the names does, too.
LEMMA NameInit == Init => NameInv
<1>1. Init => Behind /\ NamesShown /\ UnlinkedIsExplained
  BY DEF Init, Behind, NamesShown, UnlinkedIsExplained, Nothing
<1>. QED
  BY <1>1, TypeInit DEF NameInv

\* A session started under a task picked in the window is saved without its foreign key
\* only for the reasons UnlinkedIsExplained names.
THEOREM UnlinkedIsExplainedAlways == Spec => []UnlinkedIsExplained
<1>1. NameInv /\ [Next]_vars => NameInv'
  BY TypeStep, BehindStep, ShownStep, UnlinkedStep DEF NameInv
<1>2. NameInv => UnlinkedIsExplained
  BY DEF NameInv
<1>. QED
  BY NameInit, <1>1, <1>2, PTL DEF Spec

=============================================================================
