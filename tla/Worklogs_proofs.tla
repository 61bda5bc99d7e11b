---------------------------- MODULE Worklogs_proofs ----------------------------
(***************************************************************************)
(* Theorems about work logs, for any number of sessions, daemons, requests *)
(* and faults.                                                             *)
(***************************************************************************)
EXTENDS Worklogs, FiniteSetTheorems, TLAPS

-----------------------------------------------------------------------------
(* The inductive invariants. *)

\* The locations at which a request holds a work log the ledger does not name.
Unsaved == {"insert", "reread"}

\* The id a request holds is that of a work log of its own session.
RequestsHold ==
    /\ \A r \in Request : at[r] \in Unsaved =>
         id[r] \in Logs(key[r]) /\ id[r] # ledger[key[r]]
    /\ \A r, q \in Request :
         at[r] \in Unsaved /\ at[q] \in Unsaved /\ id[r] = id[q] => r = q
    /\ \A r \in Request : at[r] = "reread" => ledger[key[r]] # NoId
    /\ \A r \in Request : at[r] = "answer" =>
         id[r] \in Logs(key[r]) /\ id[r] \in {ledger[key[r]]} \cup adrift[key[r]]

\* So is what the ledger and the clients were given.
ClientsHold ==
    /\ \A s \in Session : ledger[s] # NoId => ledger[s] \in Logs(s)
    /\ \A s \in Session : heard[s] \subseteq Logs(s)
    /\ \A d \in Client : client[d] = "answered" => got[d] \in Logs(job[d])
    /\ SignatureNamesWorklog

LogInv == TypeOK /\ RequestsHold /\ ClientsHold /\ AnswersAgree

\* A work log client d asked for is known to the ledger, or about to be: no
\* request of d that saw the ledger adds another.
Settled(d, s) ==
    /\ \A r \in Request : at[r] = "add" /\ from[r] = d /\ key[r] = s => r \in blind
    /\ \/ ledger[s] # NoId
       \/ \E r \in Request : Unrecorded(r) /\ from[r] = d /\ key[r] = s

\* f[s] are the clients to whom a work log of s is attributed.
Attributed(f, s) ==
    /\ Cardinality(Logs(s)) <= Cardinality(f[s]) + excused[s]
    /\ \A d \in f[s] : Settled(d, s)

CountInv ==
    \E f \in [Session -> SUBSET Client] : \A s \in Session : Attributed(f, s)

-----------------------------------------------------------------------------
(* Work logs are only added. *)

LEMMA JiraGrows ==
  ASSUME TypeOK, NEW s \in Session, jira' = Append(jira, s)
  PROVE  /\ Len(jira) \in Nat /\ Len(jira') = Len(jira) + 1
         /\ \A n \in 1..Len(jira) : n \in 1..Len(jira') /\ jira'[n] = jira[n]
         /\ Len(jira) + 1 \in 1..Len(jira') /\ jira'[Len(jira) + 1] = s
         /\ Len(jira) + 1 \notin 0..Len(jira)
  <1>1. jira \in Seq(Session) /\ Len(jira) \in Nat
    BY DEF TypeOK, ServerTypeOK
  <1>2. QED
    BY <1>1

LEMMA LogsGrow ==
  ASSUME TypeOK, NEW s \in Session, jira' = Append(jira, s)
  PROVE  /\ jira' \in Seq(Session)
         /\ Len(jira) \in Nat /\ Len(jira') = Len(jira) + 1
         /\ \A t \in Session :
              /\ Logs(t)' = IF t = s THEN Logs(t) \cup {Len(jira) + 1} ELSE Logs(t)
              /\ Len(jira) + 1 \notin Logs(t)
  <1>1. jira \in Seq(Session) /\ Len(jira) \in Nat
    BY DEF TypeOK, ServerTypeOK
  <1>2. jira' \in Seq(Session) /\ Len(jira') = Len(jira) + 1
    BY <1>1
  <1>3. \A n \in 1..Len(jira) + 1 : jira'[n] = IF n = Len(jira) + 1 THEN s ELSE jira[n]
    BY <1>1
  <1>4. QED
    BY <1>1, <1>2, <1>3 DEF Logs

\* Ids are positions: they stay valid while Jira grows.
LEMMA IdsStay ==
  ASSUME TypeOK, NEW s \in Session, jira' = Append(jira, s)
  PROVE  /\ ledger \in [Session -> 0..Len(jira')]
         /\ id \in [Request -> 0..Len(jira')]
         /\ got \in [Client -> 0..Len(jira')]
         /\ signature \in [Session -> 0..Len(jira')]
         /\ heard \in [Session -> SUBSET (0..Len(jira'))]
         /\ adrift \in [Session -> SUBSET (0..Len(jira'))]
         /\ Len(jira) + 1 \in 0..Len(jira')
  <1>1. Len(jira) \in Nat /\ Len(jira') = Len(jira) + 1
    BY LogsGrow
  <1>2. 0..Len(jira) \subseteq 0..Len(jira') 
    BY <1>1
  <1>3. QED
    BY <1>1, <1>2 DEF TypeOK, ServerTypeOK, ClientTypeOK, HistoryTypeOK

-----------------------------------------------------------------------------
(* Type correctness. *)

LEMMA AddTo ==
  ASSUME NEW S, NEW T, NEW f \in [S -> SUBSET T], NEW x \in S, NEW y \in T
  PROVE  [f EXCEPT ![x] = @ \cup {y}] \in [S -> SUBSET T]
  <1>1. f[x] \cup {y} \in SUBSET T
    OBVIOUS
  <1>2. QED
    BY <1>1

\* A request in hand has a session, and so has a client at work.
LEMMA HasKey ==
  ASSUME TypeOK, NEW r \in Request, at[r] # "free"
  PROVE  key[r] \in Session
  BY DEF TypeOK, ServerTypeOK, Paired

LEMMA HasJob ==
  ASSUME TypeOK, NEW d \in Client, client[d] # "idle"
  PROVE  job[d] \in Session
  BY DEF TypeOK, ClientTypeOK, Paired

\* Excuse counts.
LEMMA ExcuseTyped ==
  ASSUME TypeOK, NEW R \in SUBSET Request, Excuse(R)
  PROVE  excused' \in [Session -> Nat]
  <1>1. ASSUME NEW s \in Session
        PROVE  Cardinality({r \in R : Unrecorded(r) /\ key[r] = s}) \in Nat
    <2>1. {r \in R : Unrecorded(r) /\ key[r] = s} \subseteq Request
      OBVIOUS
    <2>2. QED
      BY <2>1, FS_Subset, FS_CardinalityType, WorklogsAssumption
  <1>2. QED
    BY <1>1 DEF Excuse, TypeOK, HistoryTypeOK

LEMMA ClientTyped ==
  ASSUME TypeOK, NEW d \in Client, Turn(d) \/ Timeout(d) \/ ClientDies(d)
  PROVE  TypeOK'
  <1> USE WorklogsAssumption DEF NoId, Rest
  <1>1. ServerTypeOK /\ ClientTypeOK /\ HistoryTypeOK /\ Paired
    BY DEF TypeOK
  <1>2. CASE Scan(d)
    <2>1. ServerTypeOK'
      BY <1>1, <1>2 DEF Scan, serverVars, obsVars, ServerTypeOK
    <2>2. ClientTypeOK'
      BY <1>1, <1>2 DEF Scan, serverVars, obsVars, ClientTypeOK
    <2>3. HistoryTypeOK'
      BY <1>1, <1>2 DEF Scan, serverVars, obsVars, HistoryTypeOK
    <2>4. Paired'
      BY <1>1, <1>2 DEF Scan, serverVars, obsVars, Paired, ServerTypeOK, ClientTypeOK
    <2>5. QED
      BY <2>1, <2>2, <2>3, <2>4 DEF TypeOK
  <1>3. ASSUME NEW s \in Session, Pick(d, s) PROVE TypeOK'
    <2>1. ServerTypeOK'
      BY <1>1, <1>3 DEF Pick, serverVars, obsVars, ServerTypeOK
    <2>2. ClientTypeOK'
      BY <1>1, <1>3 DEF Pick, serverVars, obsVars, ClientTypeOK
    <2>3. HistoryTypeOK'
      BY <1>1, <1>3 DEF Pick, serverVars, obsVars, HistoryTypeOK
    <2>4. Paired'
      BY <1>1, <1>3 DEF Pick, serverVars, obsVars, Paired, ServerTypeOK, ClientTypeOK
    <2>5. QED
      BY <2>1, <2>2, <2>3, <2>4 DEF TypeOK
  <1>4. CASE SendFails(d)
    <2>1. ServerTypeOK'
      BY <1>1, <1>4 DEF SendFails, serverVars, obsVars, ServerTypeOK
    <2>2. ClientTypeOK'
      BY <1>1, <1>4 DEF SendFails, serverVars, obsVars, ClientTypeOK
    <2>3. HistoryTypeOK'
      BY <1>1, <1>4 DEF SendFails, serverVars, obsVars, HistoryTypeOK
    <2>4. Paired'
      BY <1>1, <1>4
         DEF SendFails, serverVars, obsVars, Paired, ServerTypeOK, ClientTypeOK
    <2>5. QED
      BY <2>1, <2>2, <2>3, <2>4 DEF TypeOK
  <1>5. ASSUME NEW r \in Request, Send(d, r) PROVE TypeOK'
    <2>1. job[d] \in Session
      BY <1>5, HasJob DEF Send
    <2>2. ServerTypeOK'
      BY <1>1, <1>5, <2>1 DEF Send, obsVars, ServerTypeOK
    <2>3. ClientTypeOK'
      BY <1>1, <1>5, <2>1 DEF Send, obsVars, ClientTypeOK
    <2>4. HistoryTypeOK'
      BY <1>1, <1>5, <2>1 DEF Send, obsVars, HistoryTypeOK
    <2>5. Paired'
      BY <1>1, <1>5 DEF Send, obsVars, Paired, ServerTypeOK, ClientTypeOK
    <2>6. QED
      BY <2>2, <2>3, <2>4, <2>5 DEF TypeOK
  <1>6. CASE Record(d)
    <2>1. job[d] \in Session
      BY <1>6, HasJob DEF Record
    <2>2. ServerTypeOK'
      BY <1>1, <1>6, <2>1 DEF Record, serverVars, obsVars, ServerTypeOK
    <2>3. ClientTypeOK'
      BY <1>1, <1>6, <2>1 DEF Record, serverVars, obsVars, ClientTypeOK
    <2>4. HistoryTypeOK'
      BY <1>1, <1>6, <2>1 DEF Record, serverVars, obsVars, HistoryTypeOK
    <2>5. Paired'
      BY <1>1, <1>6 DEF Record, serverVars, obsVars, Paired, ServerTypeOK, ClientTypeOK
    <2>6. QED
      BY <2>2, <2>3, <2>4, <2>5 DEF TypeOK
  <1>7. CASE Timeout(d)
    <2>1. ServerTypeOK'
      BY <1>1, <1>7, ExcuseTyped DEF Timeout, GiveUp, Fault, ServerTypeOK
    <2>2. ClientTypeOK'
      BY <1>1, <1>7, ExcuseTyped DEF Timeout, GiveUp, Fault, ClientTypeOK
    <2>3. HistoryTypeOK'
      BY <1>1, <1>7, ExcuseTyped DEF Timeout, GiveUp, Fault, HistoryTypeOK
    <2>4. Paired'
      BY <1>1, <1>7 DEF Timeout, GiveUp, Fault, Paired, ServerTypeOK, ClientTypeOK
    <2>5. QED
      BY <2>1, <2>2, <2>3, <2>4 DEF TypeOK
  <1>8. CASE ClientDies(d)
    <2>1. ServerTypeOK'
      BY <1>1, <1>8, ExcuseTyped DEF ClientDies, GiveUp, Fault, ServerTypeOK
    <2>2. ClientTypeOK'
      BY <1>1, <1>8, ExcuseTyped DEF ClientDies, GiveUp, Fault, ClientTypeOK
    <2>3. HistoryTypeOK'
      BY <1>1, <1>8, ExcuseTyped DEF ClientDies, GiveUp, Fault, HistoryTypeOK
    <2>4. Paired'
      BY <1>1, <1>8 DEF ClientDies, GiveUp, Fault, Paired, ServerTypeOK, ClientTypeOK
    <2>5. QED
      BY <2>1, <2>2, <2>3, <2>4 DEF TypeOK
  <1>9. QED
    BY <1>2, <1>3, <1>4, <1>5, <1>6, <1>7, <1>8 DEF Turn, PushTo

LEMMA ServerTyped ==
  ASSUME TypeOK, NEW r \in Request, Handle(r) \/ Break(r)
  PROVE  TypeOK'
  <1> USE WorklogsAssumption DEF NoId, Goto
  <1>1. ServerTypeOK /\ ClientTypeOK /\ HistoryTypeOK /\ Paired
    BY DEF TypeOK
  <1>2. CASE Lookup(r)
    <2>1. key[r] \in Session
      BY <1>2, HasKey DEF Lookup
    <2>2. ServerTypeOK'
      BY <1>1, <1>2, <2>1 DEF Lookup, clientVars, obsVars, ServerTypeOK
    <2>3. ClientTypeOK'
      BY <1>1, <1>2, <2>1 DEF Lookup, clientVars, obsVars, ClientTypeOK
    <2>4. HistoryTypeOK'
      BY <1>1, <1>2, <2>1 DEF Lookup, clientVars, obsVars, HistoryTypeOK
    <2>5. Paired'
      BY <1>1, <1>2 DEF Lookup, clientVars, obsVars, Paired, ServerTypeOK, ClientTypeOK
    <2>6. QED
      BY <2>2, <2>3, <2>4, <2>5 DEF TypeOK
  <1>3. CASE Add(r)
    <2>1. key[r] \in Session
      BY <1>3, HasKey DEF Add
    <2>2. /\ jira' \in Seq(Session) /\ Len(jira') = Len(jira) + 1
          /\ ledger \in [Session -> 0..Len(jira')]
          /\ id \in [Request -> 0..Len(jira')]
          /\ got \in [Client -> 0..Len(jira')]
          /\ signature \in [Session -> 0..Len(jira')]
          /\ heard \in [Session -> SUBSET (0..Len(jira'))]
          /\ adrift \in [Session -> SUBSET (0..Len(jira'))]
          /\ Len(jira) + 1 \in 0..Len(jira')
      BY <1>3, <2>1, IdsStay, LogsGrow DEF Add
    <2>3. ServerTypeOK'
      BY <1>1, <1>3, <2>1, <2>2 DEF Add, clientVars, ServerTypeOK
    <2>4. ClientTypeOK'
      BY <1>1, <1>3, <2>1, <2>2 DEF Add, clientVars, ClientTypeOK
    <2>5. HistoryTypeOK'
      BY <1>1, <1>3, <2>1, <2>2 DEF Add, clientVars, HistoryTypeOK
    <2>6. Paired'
      BY <1>1, <1>3 DEF Add, clientVars, Paired, ServerTypeOK, ClientTypeOK
    <2>7. QED
      BY <2>3, <2>4, <2>5, <2>6 DEF TypeOK
  <1>4. CASE AddFails(r)
    <2>1. ServerTypeOK'
      BY <1>1, <1>4 DEF AddFails, clientVars, obsVars, ServerTypeOK
    <2>2. ClientTypeOK'
      BY <1>1, <1>4 DEF AddFails, clientVars, obsVars, ClientTypeOK
    <2>3. HistoryTypeOK'
      BY <1>1, <1>4 DEF AddFails, clientVars, obsVars, HistoryTypeOK
    <2>4. Paired'
      BY <1>1, <1>4
         DEF AddFails, clientVars, obsVars, Paired, ServerTypeOK, ClientTypeOK
    <2>5. QED
      BY <2>1, <2>2, <2>3, <2>4 DEF TypeOK
  <1>5. CASE Insert(r)
    <2>1. key[r] \in Session
      BY <1>5, HasKey DEF Insert
    <2>2. ServerTypeOK'
      BY <1>1, <1>5, <2>1 DEF Insert, clientVars, obsVars, ServerTypeOK
    <2>3. ClientTypeOK'
      BY <1>1, <1>5, <2>1 DEF Insert, clientVars, obsVars, ClientTypeOK
    <2>4. HistoryTypeOK'
      BY <1>1, <1>5, <2>1 DEF Insert, clientVars, obsVars, HistoryTypeOK
    <2>5. Paired'
      BY <1>1, <1>5 DEF Insert, clientVars, obsVars, Paired, ServerTypeOK, ClientTypeOK
    <2>6. QED
      BY <2>2, <2>3, <2>4, <2>5 DEF TypeOK
  <1>6. CASE InsertDuplicate(r)
    <2>1. ServerTypeOK'
      BY <1>1, <1>6 DEF InsertDuplicate, clientVars, obsVars, ServerTypeOK
    <2>2. ClientTypeOK'
      BY <1>1, <1>6 DEF InsertDuplicate, clientVars, obsVars, ClientTypeOK
    <2>3. HistoryTypeOK'
      BY <1>1, <1>6 DEF InsertDuplicate, clientVars, obsVars, HistoryTypeOK
    <2>4. Paired'
      BY <1>1, <1>6
         DEF InsertDuplicate, clientVars, obsVars, Paired, ServerTypeOK, ClientTypeOK
    <2>5. QED
      BY <2>1, <2>2, <2>3, <2>4 DEF TypeOK
  <1>7. CASE Reread(r)
    <2>1. key[r] \in Session
      BY <1>7, HasKey DEF Reread
    <2>2. ServerTypeOK'
      BY <1>1, <1>7, <2>1 DEF Reread, clientVars, obsVars, ServerTypeOK
    <2>3. ClientTypeOK'
      BY <1>1, <1>7, <2>1 DEF Reread, clientVars, obsVars, ClientTypeOK
    <2>4. HistoryTypeOK'
      BY <1>1, <1>7, <2>1 DEF Reread, clientVars, obsVars, HistoryTypeOK
    <2>5. Paired'
      BY <1>1, <1>7 DEF Reread, clientVars, obsVars, Paired, ServerTypeOK, ClientTypeOK
    <2>6. QED
      BY <2>2, <2>3, <2>4, <2>5 DEF TypeOK
  <1>8. CASE Answer(r)
    <2>1. key[r] \in Session /\ from[r] \in Client
      BY <1>1, <1>8, HasKey DEF Answer, ServerTypeOK
    <2>2. ServerTypeOK'
      BY <1>1, <1>8, <2>1 DEF Answer, Free, ServerTypeOK
    <2>3. ClientTypeOK'
      <3>1. id[r] \in 0..Len(jira)
        BY <1>1 DEF ServerTypeOK
      <3>2. /\ client' = [client EXCEPT ![from[r]] = "answered"]
            /\ got' = [got EXCEPT ![from[r]] = id[r]]
        BY <1>8 DEF Answer
      <3>3. UNCHANGED <<jira, todo, job, signature>>
        BY <1>8 DEF Answer
      <3>4. QED
        BY <1>1, <2>1, <3>1, <3>2, <3>3 DEF ClientTypeOK
    <2>4. HistoryTypeOK'
      <3>1. id[r] \in 0..Len(jira) /\ heard \in [Session -> SUBSET (0..Len(jira))]
        BY <1>1 DEF ServerTypeOK, HistoryTypeOK
      <3>2. [heard EXCEPT ![key[r]] = @ \cup {id[r]}] \in [Session -> SUBSET (0..Len(jira))]
        BY <2>1, <3>1, AddTo
      <3>3. QED
        BY <1>1, <1>8, <3>2 DEF Answer, Free, HistoryTypeOK
    <2>5. Paired'
      BY <1>1, <1>8 DEF Answer, Free, Paired, ServerTypeOK, ClientTypeOK
    <2>6. QED
      BY <2>2, <2>3, <2>4, <2>5 DEF TypeOK
  <1>9. CASE Refuse(r)
    <2>1. from[r] \in Client
      BY <1>1, <1>9 DEF Refuse, ServerTypeOK
    <2>2. ServerTypeOK'
      BY <1>1, <1>9, <2>1 DEF Refuse, Free, Rest, ServerTypeOK
    <2>3. ClientTypeOK'
      BY <1>1, <1>9, <2>1 DEF Refuse, Free, Rest, ClientTypeOK
    <2>4. HistoryTypeOK'
      BY <1>1, <1>9, <2>1 DEF Refuse, Free, Rest, HistoryTypeOK
    <2>5. Paired'
      BY <1>1, <1>9 DEF Refuse, Free, Rest, Paired, ServerTypeOK, ClientTypeOK
    <2>6. QED
      BY <2>2, <2>3, <2>4, <2>5 DEF TypeOK
  <1>10. CASE Drop(r)
    <2>1. ServerTypeOK'
      BY <1>1, <1>10 DEF Drop, Free, clientVars, ServerTypeOK
    <2>2. ClientTypeOK'
      BY <1>1, <1>10 DEF Drop, Free, clientVars, ClientTypeOK
    <2>3. HistoryTypeOK'
      BY <1>1, <1>10 DEF Drop, Free, clientVars, HistoryTypeOK
    <2>4. Paired'
      BY <1>1, <1>10 DEF Drop, Free, clientVars, Paired, ServerTypeOK, ClientTypeOK
    <2>5. QED
      BY <2>1, <2>2, <2>3, <2>4 DEF TypeOK
  <1>11. CASE LookupFails(r)
    <2>1. ServerTypeOK'
      BY <1>1, <1>11 DEF LookupFails, clientVars, Fault, ServerTypeOK
    <2>2. ClientTypeOK'
      BY <1>1, <1>11 DEF LookupFails, clientVars, Fault, ClientTypeOK
    <2>3. HistoryTypeOK'
      BY <1>1, <1>11 DEF LookupFails, clientVars, Fault, HistoryTypeOK
    <2>4. Paired'
      BY <1>1, <1>11
         DEF LookupFails, clientVars, Fault, Paired, ServerTypeOK, ClientTypeOK
    <2>5. QED
      BY <2>1, <2>2, <2>3, <2>4 DEF TypeOK
  <1>12. CASE AddUnheard(r)
    <2>1. key[r] \in Session
      BY <1>12, HasKey DEF AddUnheard
    <2>2. /\ jira' \in Seq(Session) /\ Len(jira') = Len(jira) + 1
          /\ ledger \in [Session -> 0..Len(jira')]
          /\ id \in [Request -> 0..Len(jira')]
          /\ got \in [Client -> 0..Len(jira')]
          /\ signature \in [Session -> 0..Len(jira')]
          /\ heard \in [Session -> SUBSET (0..Len(jira'))]
          /\ adrift \in [Session -> SUBSET (0..Len(jira'))]
          /\ Len(jira) + 1 \in 0..Len(jira')
      BY <1>12, <2>1, IdsStay, LogsGrow DEF AddUnheard
    <2>3. ServerTypeOK'
      BY <1>1, <1>12, <2>1, <2>2 DEF AddUnheard, clientVars, Fault, ServerTypeOK
    <2>4. ClientTypeOK'
      BY <1>1, <1>12, <2>1, <2>2 DEF AddUnheard, clientVars, Fault, ClientTypeOK
    <2>5. HistoryTypeOK'
      BY <1>1, <1>12, <2>1, <2>2 DEF AddUnheard, clientVars, Fault, HistoryTypeOK
    <2>6. Paired'
      BY <1>1, <1>12
         DEF AddUnheard, clientVars, Fault, Paired, ServerTypeOK, ClientTypeOK
    <2>7. QED
      BY <2>3, <2>4, <2>5, <2>6 DEF TypeOK
  <1>13. CASE InsertFails(r)
    <2>1. ServerTypeOK'
      BY <1>1, <1>13, ExcuseTyped DEF InsertFails, clientVars, Fault, ServerTypeOK
    <2>2. ClientTypeOK'
      BY <1>1, <1>13, ExcuseTyped DEF InsertFails, clientVars, Fault, ClientTypeOK
    <2>3. HistoryTypeOK'
      BY <1>1, <1>13, ExcuseTyped DEF InsertFails, clientVars, Fault, HistoryTypeOK
    <2>4. Paired'
      BY <1>1, <1>13
         DEF InsertFails, clientVars, Fault, Paired, ServerTypeOK, ClientTypeOK
    <2>5. QED
      BY <2>1, <2>2, <2>3, <2>4 DEF TypeOK
  <1>14. CASE RereadFails(r)
    <2>1. key[r] \in Session
      BY <1>14, HasKey DEF RereadFails
    <2>2. ServerTypeOK'
      BY <1>1, <1>14, <2>1 DEF RereadFails, clientVars, Fault, ServerTypeOK
    <2>3. ClientTypeOK'
      BY <1>1, <1>14, <2>1 DEF RereadFails, clientVars, Fault, ClientTypeOK
    <2>4. HistoryTypeOK'
      <3>1. id[r] \in 0..Len(jira) /\ adrift \in [Session -> SUBSET (0..Len(jira))]
        BY <1>1 DEF ServerTypeOK, HistoryTypeOK
      <3>2. [adrift EXCEPT ![key[r]] = @ \cup {id[r]}] \in [Session -> SUBSET (0..Len(jira))]
        BY <2>1, <3>1, AddTo
      <3>3. QED
        BY <1>1, <1>14, <3>2 DEF RereadFails, Fault, HistoryTypeOK
    <2>5. Paired'
      BY <1>1, <1>14
         DEF RereadFails, clientVars, Fault, Paired, ServerTypeOK, ClientTypeOK
    <2>6. QED
      BY <2>2, <2>3, <2>4, <2>5 DEF TypeOK
  <1>15. QED
    BY <1>2, <1>3, <1>4, <1>5, <1>6, <1>7, <1>8, <1>9, <1>10, <1>11, <1>12, <1>13, <1>14
       DEF Handle, Break

LEMMA CrashTyped == TypeOK /\ ServerDies => TypeOK'
  <1> SUFFICES ASSUME TypeOK, ServerDies PROVE TypeOK'
    OBVIOUS
  <1> USE WorklogsAssumption DEF NoId, ServerDies
  <1>1. ServerTypeOK /\ ClientTypeOK /\ HistoryTypeOK /\ Paired
    BY DEF TypeOK
  <1>2. ServerTypeOK'
    BY <1>1, <1>1 DEF ServerTypeOK
  <1>3. ClientTypeOK'
    BY <1>1, <1>1 DEF ClientTypeOK
  <1>4. HistoryTypeOK'
    BY <1>1, <1>1, ExcuseTyped DEF HistoryTypeOK, Fault
  <1>5. Paired'
    BY <1>1, <1>1 DEF Paired, ServerTypeOK, ClientTypeOK
  <1>6. QED
    BY <1>2, <1>3, <1>4, <1>5 DEF TypeOK

LEMMA InitTyped == Init => TypeOK
  BY WorklogsAssumption
     DEF Init, TypeOK, ServerTypeOK, ClientTypeOK, HistoryTypeOK, Paired, NoId

-----------------------------------------------------------------------------
(* Ids name work logs. *)

LEMMA ClientKeepsLogs ==
  ASSUME LogInv, NEW d \in Client, Turn(d) \/ Timeout(d) \/ ClientDies(d)
  PROVE  RequestsHold' /\ ClientsHold' /\ AnswersAgree'
  <1> USE DEF NoId, Rest
  <1>1. ServerTypeOK /\ ClientTypeOK /\ Paired /\ RequestsHold /\ ClientsHold /\ AnswersAgree
    BY DEF LogInv, TypeOK
  <1>2. CASE Scan(d)
    <2>1. RequestsHold'
      BY <1>1, <1>2
         DEF Scan, serverVars, obsVars, RequestsHold, Unsaved, Logs, ServerTypeOK
    <2>2. ClientsHold'
      BY <1>1, <1>2
         DEF Scan, serverVars, obsVars, ClientsHold, SignatureNamesWorklog, Logs,
             ClientTypeOK
    <2>3. AnswersAgree'
      BY <1>1, <1>2 DEF Scan, serverVars, obsVars, AnswersAgree
    <2>4. QED
      BY <2>1, <2>2, <2>3
  <1>3. ASSUME NEW s \in Session, Pick(d, s)
        PROVE  RequestsHold' /\ ClientsHold' /\ AnswersAgree'
    <2>1. RequestsHold'
      BY <1>1, <1>3
         DEF Pick, serverVars, obsVars, RequestsHold, Unsaved, Logs, ServerTypeOK
    <2>2. ClientsHold'
      BY <1>1, <1>3
         DEF Pick, serverVars, obsVars, ClientsHold, SignatureNamesWorklog, Logs,
             ClientTypeOK
    <2>3. AnswersAgree'
      BY <1>1, <1>3 DEF Pick, serverVars, obsVars, AnswersAgree
    <2>4. QED
      BY <2>1, <2>2, <2>3
  <1>4. CASE SendFails(d)
    <2>1. RequestsHold'
      BY <1>1, <1>4
         DEF SendFails, serverVars, obsVars, RequestsHold, Unsaved, Logs, ServerTypeOK
    <2>2. ClientsHold'
      BY <1>1, <1>4
         DEF SendFails, serverVars, obsVars, ClientsHold, SignatureNamesWorklog, Logs,
             ClientTypeOK
    <2>3. AnswersAgree'
      BY <1>1, <1>4 DEF SendFails, serverVars, obsVars, AnswersAgree
    <2>4. QED
      BY <2>1, <2>2, <2>3
  <1>5. ASSUME NEW r \in Request, Send(d, r)
        PROVE  RequestsHold' /\ ClientsHold' /\ AnswersAgree'
    <2>1. RequestsHold'
      BY <1>1, <1>5 DEF Send, obsVars, RequestsHold, Unsaved, Paired, Logs, ServerTypeOK
    <2>2. ClientsHold'
      BY <1>1, <1>5
         DEF Send, obsVars, ClientsHold, SignatureNamesWorklog, Logs, ClientTypeOK
    <2>3. AnswersAgree'
      BY <1>1, <1>5 DEF Send, obsVars, AnswersAgree
    <2>4. QED
      BY <2>1, <2>2, <2>3
  <1>6. CASE Record(d)
    <2>1. RequestsHold'
      BY <1>1, <1>6
         DEF Record, serverVars, obsVars, RequestsHold, Unsaved, Logs, ServerTypeOK
    <2>2. ClientsHold'
      BY <1>1, <1>6
         DEF Record, serverVars, obsVars, ClientsHold, SignatureNamesWorklog, Logs,
             ClientTypeOK
    <2>3. AnswersAgree'
      BY <1>1, <1>6 DEF Record, serverVars, obsVars, AnswersAgree
    <2>4. QED
      BY <2>1, <2>2, <2>3
  <1>7. CASE Timeout(d)
    <2>1. RequestsHold'
      BY <1>1, <1>7
         DEF Timeout, GiveUp, Fault, RequestsHold, Unsaved, Logs, ServerTypeOK
    <2>2. ClientsHold'
      BY <1>1, <1>7
         DEF Timeout, GiveUp, Fault, ClientsHold, SignatureNamesWorklog, Logs,
             ClientTypeOK
    <2>3. AnswersAgree'
      BY <1>1, <1>7 DEF Timeout, GiveUp, Fault, AnswersAgree
    <2>4. QED
      BY <2>1, <2>2, <2>3
  <1>8. CASE ClientDies(d)
    <2>1. RequestsHold'
      BY <1>1, <1>8
         DEF ClientDies, GiveUp, Fault, RequestsHold, Unsaved, Logs, ServerTypeOK
    <2>2. ClientsHold'
      BY <1>1, <1>8
         DEF ClientDies, GiveUp, Fault, ClientsHold, SignatureNamesWorklog, Logs,
             ClientTypeOK
    <2>3. AnswersAgree'
      BY <1>1, <1>8 DEF ClientDies, GiveUp, Fault, AnswersAgree
    <2>4. QED
      BY <2>1, <2>2, <2>3
  <1>9. QED
    BY <1>2, <1>3, <1>4, <1>5, <1>6, <1>7, <1>8 DEF Turn, PushTo

LEMMA ServerKeepsLogs ==
  ASSUME LogInv, NEW r \in Request, Handle(r) \/ Break(r)
  PROVE  RequestsHold' /\ ClientsHold' /\ AnswersAgree'
  <1> USE DEF NoId, Goto
  <1>1. /\ ServerTypeOK /\ ClientTypeOK /\ HistoryTypeOK /\ Paired
        /\ RequestsHold /\ ClientsHold /\ AnswersAgree
    BY DEF LogInv, TypeOK
  <1>2. CASE Lookup(r)
    <2>1. key[r] \in Session
      BY <1>2, HasKey DEF Lookup, LogInv
    <2>2. RequestsHold'
      BY <1>1, <1>2, <2>1
         DEF Lookup, clientVars, obsVars, RequestsHold, ClientsHold, Unsaved, Logs,
             ServerTypeOK
    <2>3. ClientsHold'
      BY <1>1, <1>2, <2>1
         DEF Lookup, clientVars, obsVars, ClientsHold, SignatureNamesWorklog, Logs,
             ClientTypeOK
    <2>4. AnswersAgree'
      BY <1>1, <1>2, <2>1 DEF Lookup, clientVars, obsVars, AnswersAgree
    <2>5. QED
      BY <2>2, <2>3, <2>4
  <1>3. CASE Add(r)
    <2>1. key[r] \in Session
      BY <1>3, HasKey DEF Add, LogInv
    <2>2. /\ Len(jira) \in Nat /\ Len(jira') = Len(jira) + 1
          /\ \A n \in 1..Len(jira) : n \in 1..Len(jira') /\ jira'[n] = jira[n]
          /\ Len(jira) + 1 \in 1..Len(jira') /\ jira'[Len(jira) + 1] = key[r]
          /\ Len(jira) + 1 \notin 0..Len(jira)
      BY <1>3, <2>1, JiraGrows DEF Add, LogInv
    <2>3. RequestsHold'
      BY <1>1, <1>3, <2>1, <2>2
         DEF Add, clientVars, RequestsHold, Unsaved, Logs, ServerTypeOK
    <2>4. ClientsHold'
      BY <1>1, <1>3, <2>1, <2>2
         DEF Add, clientVars, ClientsHold, SignatureNamesWorklog, Logs, ClientTypeOK
    <2>5. AnswersAgree'
      BY <1>1, <1>3, <2>1, <2>2 DEF Add, clientVars, AnswersAgree
    <2>6. QED
      BY <2>3, <2>4, <2>5
  <1>4. CASE AddFails(r)
    <2>1. key[r] \in Session
      BY <1>4, HasKey DEF AddFails, LogInv
    <2>2. RequestsHold'
      BY <1>1, <1>4, <2>1
         DEF AddFails, clientVars, obsVars, RequestsHold, Unsaved, Logs, ServerTypeOK
    <2>3. ClientsHold'
      BY <1>1, <1>4, <2>1
         DEF AddFails, clientVars, obsVars, ClientsHold, SignatureNamesWorklog, Logs,
             ClientTypeOK
    <2>4. AnswersAgree'
      BY <1>1, <1>4, <2>1 DEF AddFails, clientVars, obsVars, AnswersAgree
    <2>5. QED
      BY <2>2, <2>3, <2>4
  <1>5. CASE Insert(r)
    <2>1. key[r] \in Session
      BY <1>5, HasKey DEF Insert, LogInv
    <2>2. RequestsHold'
      BY <1>1, <1>5, <2>1
         DEF Insert, clientVars, obsVars, RequestsHold, Unsaved, Logs, ServerTypeOK
    <2>3. ClientsHold'
      BY <1>1, <1>5, <2>1
         DEF Insert, clientVars, obsVars, RequestsHold, Unsaved, ClientsHold,
         SignatureNamesWorklog, Logs, ServerTypeOK
    <2>4. AnswersAgree'
      BY <1>1, <1>5, <2>1
         DEF Insert, clientVars, obsVars, AnswersAgree, ClientsHold, Logs, ServerTypeOK
    <2>5. QED
      BY <2>2, <2>3, <2>4
  <1>6. CASE InsertDuplicate(r)
    <2>1. key[r] \in Session
      BY <1>6, HasKey DEF InsertDuplicate, LogInv
    <2>2. RequestsHold'
      BY <1>1, <1>6, <2>1
         DEF InsertDuplicate, clientVars, obsVars, RequestsHold, Unsaved, Logs,
             ServerTypeOK
    <2>3. ClientsHold'
      BY <1>1, <1>6, <2>1
         DEF InsertDuplicate, clientVars, obsVars, ClientsHold, SignatureNamesWorklog,
             Logs, ClientTypeOK
    <2>4. AnswersAgree'
      BY <1>1, <1>6, <2>1 DEF InsertDuplicate, clientVars, obsVars, AnswersAgree
    <2>5. QED
      BY <2>2, <2>3, <2>4
  <1>7. CASE Reread(r)
    <2>1. key[r] \in Session
      BY <1>7, HasKey DEF Reread, LogInv
    <2>2. RequestsHold'
      BY <1>1, <1>7, <2>1
         DEF Reread, clientVars, obsVars, RequestsHold, ClientsHold, Unsaved, Logs,
             ServerTypeOK
    <2>3. ClientsHold'
      BY <1>1, <1>7, <2>1
         DEF Reread, clientVars, obsVars, ClientsHold, SignatureNamesWorklog, Logs,
             ClientTypeOK
    <2>4. AnswersAgree'
      BY <1>1, <1>7, <2>1 DEF Reread, clientVars, obsVars, AnswersAgree
    <2>5. QED
      BY <2>2, <2>3, <2>4
  <1>8. CASE Answer(r)
    <2>1. key[r] \in Session
      BY <1>8, HasKey DEF Answer, LogInv
    <2>2. RequestsHold'
      BY <1>1, <1>8, <2>1 DEF Answer, Free, RequestsHold, Unsaved, Logs, ServerTypeOK
    <2>3. id[r] \in Logs(key[r]) /\ id[r] \in {ledger[key[r]]} \cup adrift[key[r]]
      BY <1>1, <1>8 DEF Answer, RequestsHold
    <2>4. \A s \in Session :
            heard'[s] = IF s = key[r] THEN heard[s] \cup {id[r]} ELSE heard[s]
      BY <1>1, <1>8 DEF Answer, HistoryTypeOK
    <2>5. ClientsHold'
      <3>1. /\ \A s \in Session : ledger'[s] # NoId => ledger'[s] \in Logs(s)'
            /\ SignatureNamesWorklog'
        BY <1>1, <1>8 DEF Answer, ClientsHold, SignatureNamesWorklog, Logs
      <3>2. \A s \in Session : heard'[s] \subseteq Logs(s)'
        BY <1>1, <1>8, <2>4, <2>3 DEF Answer, ClientsHold, Logs
      <3>3. ASSUME NEW d \in Client, client'[d] = "answered"
            PROVE  got'[d] \in 1..Len(jira') /\ jira'[got'[d]] = job'[d]
        <4>1. CASE d = from[r]
          BY <1>1, <1>8, <2>3, <4>1 DEF Answer, Paired, Logs, ClientTypeOK
        <4>2. CASE d # from[r]
          BY <1>1, <1>8, <3>3, <4>2 DEF Answer, ClientsHold, Logs, ClientTypeOK
        <4>3. QED
          BY <4>1, <4>2
      <3>4. QED
        BY <3>1, <3>2, <3>3 DEF ClientsHold, Logs
    <2>6. AnswersAgree'
      BY <1>1, <1>8, <2>4, <2>3 DEF Answer, AnswersAgree
    <2>7. QED
      BY <2>2, <2>5, <2>6
  <1>9. CASE Refuse(r)
    <2>1. key[r] \in Session
      BY <1>9, HasKey DEF Refuse, LogInv
    <2>2. RequestsHold'
      BY <1>1, <1>9, <2>1
         DEF Refuse, Free, Rest, RequestsHold, Unsaved, Logs, ServerTypeOK
    <2>3. ClientsHold'
      BY <1>1, <1>9, <2>1
         DEF Refuse, Free, Rest, ClientsHold, SignatureNamesWorklog, Logs, ClientTypeOK
    <2>4. AnswersAgree'
      BY <1>1, <1>9, <2>1 DEF Refuse, Free, Rest, AnswersAgree
    <2>5. QED
      BY <2>2, <2>3, <2>4
  <1>10. CASE Drop(r)
    <2>1. key[r] \in Session
      BY <1>10, HasKey DEF Drop, LogInv
    <2>2. RequestsHold'
      BY <1>1, <1>10, <2>1
         DEF Drop, Free, clientVars, RequestsHold, Unsaved, Logs, ServerTypeOK
    <2>3. ClientsHold'
      BY <1>1, <1>10, <2>1
         DEF Drop, Free, clientVars, ClientsHold, SignatureNamesWorklog, Logs,
             ClientTypeOK
    <2>4. AnswersAgree'
      BY <1>1, <1>10, <2>1 DEF Drop, Free, clientVars, AnswersAgree
    <2>5. QED
      BY <2>2, <2>3, <2>4
  <1>11. CASE LookupFails(r)
    <2>1. key[r] \in Session
      BY <1>11, HasKey DEF LookupFails, LogInv
    <2>2. RequestsHold'
      BY <1>1, <1>11, <2>1
         DEF LookupFails, clientVars, Fault, RequestsHold, Unsaved, Logs, ServerTypeOK
    <2>3. ClientsHold'
      BY <1>1, <1>11, <2>1
         DEF LookupFails, clientVars, Fault, ClientsHold, SignatureNamesWorklog, Logs,
             ClientTypeOK
    <2>4. AnswersAgree'
      BY <1>1, <1>11, <2>1 DEF LookupFails, clientVars, Fault, AnswersAgree
    <2>5. QED
      BY <2>2, <2>3, <2>4
  <1>12. CASE AddUnheard(r)
    <2>1. key[r] \in Session
      BY <1>12, HasKey DEF AddUnheard, LogInv
    <2>2. /\ Len(jira) \in Nat /\ Len(jira') = Len(jira) + 1
          /\ \A n \in 1..Len(jira) : n \in 1..Len(jira') /\ jira'[n] = jira[n]
          /\ Len(jira) + 1 \in 1..Len(jira') /\ jira'[Len(jira) + 1] = key[r]
          /\ Len(jira) + 1 \notin 0..Len(jira)
      BY <1>12, <2>1, JiraGrows DEF AddUnheard, LogInv
    <2>3. RequestsHold'
      BY <1>1, <1>12, <2>1, <2>2
         DEF AddUnheard, clientVars, Fault, RequestsHold, Unsaved, Logs, ServerTypeOK
    <2>4. ClientsHold'
      BY <1>1, <1>12, <2>1, <2>2
         DEF AddUnheard, clientVars, Fault, ClientsHold, SignatureNamesWorklog, Logs,
             ClientTypeOK
    <2>5. AnswersAgree'
      BY <1>1, <1>12, <2>1, <2>2 DEF AddUnheard, clientVars, Fault, AnswersAgree
    <2>6. QED
      BY <2>3, <2>4, <2>5
  <1>13. CASE InsertFails(r)
    <2>1. key[r] \in Session
      BY <1>13, HasKey DEF InsertFails, LogInv
    <2>2. RequestsHold'
      BY <1>1, <1>13, <2>1
         DEF InsertFails, clientVars, Fault, RequestsHold, Unsaved, Logs, ServerTypeOK
    <2>3. ClientsHold'
      BY <1>1, <1>13, <2>1
         DEF InsertFails, clientVars, Fault, ClientsHold, SignatureNamesWorklog, Logs,
             ClientTypeOK
    <2>4. AnswersAgree'
      BY <1>1, <1>13, <2>1 DEF InsertFails, clientVars, Fault, AnswersAgree
    <2>5. QED
      BY <2>2, <2>3, <2>4
  <1>14. CASE RereadFails(r)
    <2>1. key[r] \in Session
      BY <1>14, HasKey DEF RereadFails, LogInv
    <2>2. \A s \in Session :
            adrift'[s] = IF s = key[r] THEN adrift[s] \cup {id[r]} ELSE adrift[s]
      BY <1>1, <1>14 DEF RereadFails, HistoryTypeOK
    <2>3. RequestsHold'
      <3>1. at' = [at EXCEPT ![r] = "answer"] /\ UNCHANGED <<jira, ledger, key, id>>
        BY <1>14 DEF RereadFails
      <3>2. id[r] \in Logs(key[r])
        BY <1>1, <1>14 DEF RereadFails, RequestsHold, Unsaved
      <3>3. ASSUME NEW q \in Request, at'[q] = "answer"
            PROVE  id[q] \in Logs(key[q]) /\ id[q] \in {ledger[key[q]]} \cup adrift'[key[q]]
        <4>1. CASE q = r
          BY <2>1, <2>2, <3>2, <4>1
        <4>2. CASE q # r
          <5>1. at[q] = "answer"
            BY <1>1, <3>1, <3>3, <4>2 DEF ServerTypeOK
          <5>2. key[q] \in Session
            BY <5>1, HasKey DEF LogInv
          <5>3. QED
            BY <1>1, <2>2, <5>1, <5>2 DEF RequestsHold
        <4>3. QED
          BY <4>1, <4>2
      <3>4. QED
        BY <1>1, <3>1, <3>3 DEF RequestsHold, Unsaved, Logs, ServerTypeOK
    <2>4. ClientsHold'
      BY <1>1, <1>14, <2>1
         DEF RereadFails, clientVars, Fault, ClientsHold, SignatureNamesWorklog, Logs,
             ClientTypeOK
    <2>5. AnswersAgree'
      BY <1>1, <1>14, <2>2 DEF RereadFails, AnswersAgree
    <2>6. QED
      BY <2>3, <2>4, <2>5
  <1>15. QED
    BY <1>2, <1>3, <1>4, <1>5, <1>6, <1>7, <1>8, <1>9, <1>10, <1>11, <1>12, <1>13, <1>14
       DEF Handle, Break

LEMMA CrashKeepsLogs ==
  ASSUME LogInv, ServerDies
  PROVE  RequestsHold' /\ ClientsHold' /\ AnswersAgree'
  <1>1. /\ ServerTypeOK /\ ClientTypeOK /\ HistoryTypeOK /\ Paired
        /\ RequestsHold /\ ClientsHold /\ AnswersAgree
    BY DEF LogInv, TypeOK
  <1>2. RequestsHold'
    BY <1>1 DEF ServerDies, RequestsHold, Unsaved
  <1>3. ClientsHold'
    BY <1>1 DEF ServerDies, ClientsHold, SignatureNamesWorklog, Logs, ClientTypeOK
  <1>4. AnswersAgree'
    BY <1>1 DEF ServerDies, AnswersAgree
  <1>5. QED
    BY <1>2, <1>3, <1>4

LEMMA LogInvInit == Init => LogInv
  BY InitTyped
     DEF Init, LogInv, RequestsHold, ClientsHold, SignatureNamesWorklog, AnswersAgree, Unsaved

LEMMA LogInvStep == LogInv /\ [Next]_vars => LogInv'
  <1> SUFFICES ASSUME LogInv, [Next]_vars PROVE LogInv'
    OBVIOUS
  <1>1. ASSUME NEW d \in Client, Turn(d) \/ Timeout(d) \/ ClientDies(d)
        PROVE  LogInv'
    BY <1>1, ClientTyped, ClientKeepsLogs DEF LogInv
  <1>2. ASSUME NEW r \in Request, Handle(r) \/ Break(r)
        PROVE  LogInv'
    BY <1>2, ServerTyped, ServerKeepsLogs DEF LogInv
  <1>3. CASE ServerDies
    BY <1>3, CrashTyped, CrashKeepsLogs DEF LogInv
  <1>4. CASE UNCHANGED vars
    <2>1. UNCHANGED <<jira, ledger, at, key, id, from, todo, client, job, got, signature,
                      blind, heard, adrift, excused, faults>>
      BY <1>4 DEF vars, serverVars, clientVars, obsVars
    <2>2. ServerTypeOK' /\ ClientTypeOK' /\ HistoryTypeOK'
      BY <2>1 DEF LogInv, TypeOK, ServerTypeOK, ClientTypeOK, HistoryTypeOK, Logs
    <2>3. Paired'
      BY <2>1 DEF LogInv, TypeOK, Paired
    <2>4. RequestsHold'
      BY <2>1 DEF LogInv, RequestsHold, Logs
    <2>5. ClientsHold' /\ AnswersAgree'
      BY <2>1 DEF LogInv, ClientsHold, SignatureNamesWorklog, AnswersAgree, Logs
    <2>6. QED
      BY <2>2, <2>3, <2>4, <2>5 DEF LogInv, TypeOK
  <1>5. QED
    BY <1>1, <1>2, <1>3, <1>4 DEF Next

LEMMA LogInvariant == Spec => []LogInv
  BY LogInvInit, LogInvStep, PTL DEF Spec

\* Every request, client and row holds what belongs to it, and a client waits
\* for at most one request.
THEOREM WorklogsTypeCorrect == Spec => []TypeOK
  <1>1. LogInv => TypeOK
    BY DEF LogInv
  <1>2. QED
    BY <1>1, LogInvariant, PTL

\* A recorded id is that of a work log of the same session.
THEOREM SignatureNamesWorklogAlways == Spec => []SignatureNamesWorklog
  <1>1. LogInv => SignatureNamesWorklog
    BY DEF LogInv, ClientsHold
  <1>2. QED
    BY <1>1, LogInvariant, PTL

\* Whatever requests race, the answers for a session agree with the ledger.
THEOREM AnswersAgreeAlways == Spec => []AnswersAgree
  <1>1. LogInv => AnswersAgree
    BY DEF LogInv
  <1>2. QED
    BY <1>1, LogInvariant, PTL

-----------------------------------------------------------------------------
(* The ledger implements the write-once register. *)

LEMMA RegisterInit == Init => Register!Init
  BY DEF Init, Register!Init

LEMMA RegisterStep == LogInv /\ [Next]_vars => [Register!Next]_(Register!registerVars)
  <1> SUFFICES ASSUME LogInv, [Next]_vars
               PROVE  [Register!Next]_(Register!registerVars)
    OBVIOUS
  <1> DEFINE ans == [s \in Session |-> heard[s] \ adrift[s]]
  <1>1. ServerTypeOK /\ HistoryTypeOK /\ RequestsHold /\ ClientsHold /\ AnswersAgree
    BY DEF LogInv, TypeOK
  <1>2. CASE UNCHANGED <<ledger, heard, adrift>>
    BY <1>2 DEF Register!registerVars
  <1>3. ASSUME NEW r \in Request, Insert(r)
        PROVE  Register!Next
    <2>1. key[r] \in Session /\ ledger[key[r]] = NoId /\ UNCHANGED <<heard, adrift>>
      BY <1>3, HasKey DEF Insert, LogInv, obsVars
    <2>2. ledger' = [ledger EXCEPT ![key[r]] = id[r]]
      BY <1>3 DEF Insert
    <2>3. id[r] # NoId
      BY <1>1, <1>3 DEF Insert, RequestsHold, Unsaved, Logs, NoId
    <2>4. ledger'[key[r]] = id[r]
      BY <1>1, <2>1, <2>2 DEF ServerTypeOK
    <2>5. Register!Choose(key[r])
      BY <2>1, <2>2, <2>3, <2>4 DEF Register!Choose
    <2>6. QED
      BY <2>1, <2>5 DEF Register!Next
  <1>4. ASSUME NEW r \in Request, Answer(r)
        PROVE  Register!Next \/ UNCHANGED <<ledger, ans>>
    <2>1. /\ key[r] \in Session
          /\ id[r] \in Logs(key[r]) /\ id[r] \in {ledger[key[r]]} \cup adrift[key[r]]
      BY <1>1, <1>4, HasKey DEF Answer, RequestsHold, LogInv
    <2>2. \A s \in Session :
            heard'[s] = IF s = key[r] THEN heard[s] \cup {id[r]} ELSE heard[s]
      BY <1>1, <1>4 DEF Answer, HistoryTypeOK
    <2>3. UNCHANGED <<ledger, adrift>>
      BY <1>4 DEF Answer
    <2>4. CASE id[r] \in adrift[key[r]]
      BY <2>2, <2>3, <2>4
    <2>5. CASE id[r] \notin adrift[key[r]]
      <3>1. id[r] = ledger[key[r]] /\ ledger[key[r]] # NoId
        BY <2>1, <2>5 DEF Logs, NoId
      <3>2. ans' = [ans EXCEPT ![key[r]] = @ \cup {ledger[key[r]]}]
        <4>1. \A s \in Session : s # key[r] => heard'[s] \ adrift'[s] = heard[s] \ adrift[s]
          BY <2>2, <2>3
        <4>2. heard'[key[r]] = heard[key[r]] \cup {ledger[key[r]]} /\ adrift' = adrift
          BY <2>1, <2>2, <2>3, <3>1
        <4>3. ledger[key[r]] \notin adrift[key[r]]
          BY <2>5, <3>1
        <4>4. heard'[key[r]] \ adrift'[key[r]]
                = (heard[key[r]] \ adrift[key[r]]) \cup {ledger[key[r]]}
          BY <4>2, <4>3
        <4> QED BY <2>1, <4>1, <4>4
      <3>3. PICK k \in Session : k = key[r]
        BY <2>1
      <3>4. Register!Tell(k)
        BY <2>3, <3>1, <3>2, <3>3 DEF Register!Tell
      <3>5. Register!Next
        BY <3>4 DEF Register!Next
      <3>6. QED
        BY <3>5
    <2>6. QED
      BY <2>4, <2>5
  <1>5. ASSUME NEW r \in Request, RereadFails(r)
        PROVE  UNCHANGED <<ledger, ans>>
    <2>1. /\ key[r] \in Session /\ id[r] # ledger[key[r]]
          /\ UNCHANGED <<ledger, heard>>
      BY <1>1, <1>5, HasKey DEF RereadFails, RequestsHold, Unsaved, LogInv
    <2>2. \A s \in Session :
            adrift'[s] = IF s = key[r] THEN adrift[s] \cup {id[r]} ELSE adrift[s]
      BY <1>1, <1>5 DEF RereadFails, HistoryTypeOK
    <2>3. heard[key[r]] \ (adrift[key[r]] \cup {id[r]}) = heard[key[r]] \ adrift[key[r]]
      BY <1>1, <2>1 DEF AnswersAgree
    <2>4. \A s \in Session : heard'[s] \ adrift'[s] = heard[s] \ adrift[s]
      BY <2>1, <2>2, <2>3
    <2>5. QED
      BY <2>1, <2>4
  <1>6. \/ UNCHANGED <<ledger, heard, adrift>>
        \/ \E r \in Request : Insert(r) \/ Answer(r) \/ RereadFails(r)
    <2>1. ASSUME NEW d \in Client, Turn(d) \/ Timeout(d) \/ ClientDies(d)
          PROVE  UNCHANGED <<ledger, heard, adrift>>
      BY <2>1
         DEF Turn, PushTo, Scan, Pick, SendFails, Send, Record, Timeout, ClientDies,
                  serverVars, obsVars
    <2>2. ASSUME NEW r \in Request, Handle(r) \/ Break(r)
          PROVE  \/ UNCHANGED <<ledger, heard, adrift>>
                 \/ Insert(r) \/ Answer(r) \/ RereadFails(r)
      BY <2>2
         DEF Handle, Break, Lookup, Add, AddFails, InsertDuplicate, Reread, Refuse,
             Drop,
                  LookupFails, AddUnheard, InsertFails, obsVars
    <2>3. CASE ServerDies \/ UNCHANGED vars
      BY <2>3 DEF ServerDies, vars, serverVars, obsVars
    <2>4. QED
      BY <2>1, <2>2, <2>3 DEF Next
  <1>7. UNCHANGED <<ledger, ans>> => UNCHANGED Register!registerVars
    BY DEF Register!registerVars
  <1>8. QED
    BY <1>2, <1>3, <1>4, <1>5, <1>6, <1>7

\* The ledger and the answers are a write-once register for each session.
THEOREM ImplementsTheRegister == Spec => ImplementsRegister
  BY RegisterInit, RegisterStep, LogInvariant, PTL
     DEF ImplementsRegister, Spec, Register!Spec

-----------------------------------------------------------------------------
(* Every work log too many has a cause. *)

LEMMA ClientSubsets ==
  ASSUME NEW S \in SUBSET Client
  PROVE  IsFiniteSet(S) /\ Cardinality(S) \in Nat /\ Cardinality(S) <= Cardinality(Client)
         /\ Cardinality(Client) \in Nat
  BY FS_Subset, FS_CardinalityType, WorklogsAssumption

LEMMA RequestSubsets ==
  ASSUME NEW S \in SUBSET Request
  PROVE  IsFiniteSet(S) /\ Cardinality(S) \in Nat
  BY FS_Subset, FS_CardinalityType, WorklogsAssumption

LEMMA LogsFinite ==
  ASSUME TypeOK, NEW s
  PROVE  IsFiniteSet(Logs(s)) /\ Cardinality(Logs(s)) \in Nat
  <1>1. Logs(s) \in SUBSET (1..Len(jira)) /\ Len(jira) \in Nat
    BY DEF Logs, TypeOK, ServerTypeOK
  <1>2. IsFiniteSet(1..Len(jira))
    BY <1>1, FS_Interval
  <1>3. QED
    BY <1>1, <1>2, FS_Subset, FS_CardinalityType

\* A further work log counts one more.
LEMMA LogsCount ==
  ASSUME TypeOK, NEW s \in Session, jira' = Append(jira, s)
  PROVE  \A t \in Session :
           Cardinality(Logs(t))' = Cardinality(Logs(t)) + IF t = s THEN 1 ELSE 0
  <1> SUFFICES ASSUME NEW t \in Session
               PROVE  Cardinality(Logs(t))' = Cardinality(Logs(t)) + IF t = s THEN 1 ELSE 0
    OBVIOUS
  <1>1. /\ Logs(t)' = IF t = s THEN Logs(t) \cup {Len(jira) + 1} ELSE Logs(t)
        /\ Len(jira) + 1 \notin Logs(t)
    BY LogsGrow
  <1>2. IsFiniteSet(Logs(t)) /\ Cardinality(Logs(t)) \in Nat
    BY LogsFinite
  <1>3. CASE t = s
    BY <1>1, <1>2, <1>3, FS_AddElement
  <1>4. CASE t # s
    BY <1>1, <1>2, <1>4
  <1>5. QED
    BY <1>3, <1>4

\* The attribution survives a step that adds no work log, excuses none and leaves
\* every client settled that was.
LEMMA AttributionStays ==
  ASSUME CountInv, UNCHANGED <<jira, excused>>,
         \A d \in Client, s \in Session : Settled(d, s) => Settled(d, s)'
  PROVE  CountInv'
  <1>1. PICK f \in [Session -> SUBSET Client] : \A s \in Session : Attributed(f, s)
    BY DEF CountInv
  <1>2. ASSUME NEW s \in Session
        PROVE  /\ Cardinality(Logs(s))' <= Cardinality(f[s]) + excused'[s]
               /\ \A d \in f[s] : Settled(d, s)'
    BY <1>1, <1>2 DEF Attributed, Logs
  <1>3. QED
    BY <1>2 DEF CountInv, Attributed

\* So does it one that adds a work log and excuses it.
LEMMA AttributionExcused ==
  ASSUME TypeOK, CountInv, NEW s \in Session, jira' = Append(jira, s),
         excused' = [excused EXCEPT ![s] = @ + 1],
         \A d \in Client, u \in Session : Settled(d, u) => Settled(d, u)'
  PROVE  CountInv'
  <1>1. PICK f \in [Session -> SUBSET Client] : \A u \in Session : Attributed(f, u)
    BY DEF CountInv
  <1>2. ASSUME NEW u \in Session
        PROVE  /\ Cardinality(Logs(u))' <= Cardinality(f[u]) + excused'[u]
               /\ \A d \in f[u] : Settled(d, u)'
    <2>1. /\ Cardinality(Logs(u)) <= Cardinality(f[u]) + excused[u]
          /\ \A d \in f[u] : Settled(d, u)
      BY <1>1 DEF Attributed
    <2>2. /\ Cardinality(Logs(u)) \in Nat /\ Cardinality(f[u]) \in Nat
          /\ excused \in [Session -> Nat]
      BY LogsFinite, ClientSubsets DEF TypeOK, HistoryTypeOK
    <2>3. Cardinality(Logs(u))' = Cardinality(Logs(u)) + IF u = s THEN 1 ELSE 0
      BY LogsCount
    <2>4. excused'[u] = excused[u] + IF u = s THEN 1 ELSE 0
      BY <2>2
    <2>5. QED
      BY <2>1, <2>2, <2>3, <2>4
  <1>3. QED
    BY <1>2 DEF CountInv, Attributed

\* And one that adds a work log and settles the client that asked for it.
LEMMA AttributionGrows ==
  ASSUME TypeOK, CountInv, NEW s \in Session, jira' = Append(jira, s),
         excused' = excused,
         NEW c \in Client, ~Settled(c, s), Settled(c, s)',
         \A d \in Client, u \in Session : Settled(d, u) => Settled(d, u)'
  PROVE  CountInv'
  <1>1. PICK f \in [Session -> SUBSET Client] : \A u \in Session : Attributed(f, u)
    BY DEF CountInv
  <1> DEFINE g == [f EXCEPT ![s] = @ \cup {c}]
  <1>2. g \in [Session -> SUBSET Client]
    BY AddTo
  <1>3. ASSUME NEW u \in Session
        PROVE  /\ Cardinality(Logs(u))' <= Cardinality(g[u]) + excused'[u]
               /\ \A d \in g[u] : Settled(d, u)'
    <2>1. /\ Cardinality(Logs(u)) <= Cardinality(f[u]) + excused[u]
          /\ \A d \in f[u] : Settled(d, u)
      BY <1>1 DEF Attributed
    <2>2. /\ Cardinality(Logs(u)) \in Nat /\ Cardinality(f[u]) \in Nat
          /\ excused \in [Session -> Nat] /\ IsFiniteSet(f[u])
      BY LogsFinite, ClientSubsets DEF TypeOK, HistoryTypeOK
    <2>3. Cardinality(Logs(u))' = Cardinality(Logs(u)) + IF u = s THEN 1 ELSE 0
      BY LogsCount
    <2>4. CASE u = s
      <3>1. c \notin f[u]
        BY <2>1, <2>4
      <3>2. g[u] = f[u] \cup {c}
        BY <2>4
      <3>3. Cardinality(g[u]) = Cardinality(f[u]) + 1
        BY <2>2, <3>1, <3>2, FS_AddElement
      <3>4. \A d \in g[u] : Settled(d, u)'
        BY <2>1, <2>4, <3>2
      <3>5. QED
        BY <2>1, <2>2, <2>3, <2>4, <3>3, <3>4
    <2>5. CASE u # s
      BY <2>1, <2>2, <2>3, <2>5
    <2>6. QED
      BY <2>4, <2>5
  <1>4. QED
    BY <1>2, <1>3 DEF CountInv, Attributed

\* The clients of the requests that end are taken out of the attribution, and the
\* excuses make up for them.
LEMMA AttributionShrinks ==
  ASSUME TypeOK, CountInv, NEW R \in SUBSET Request, Excuse(R), UNCHANGED jira,
         \A d \in Client, s \in Session : Settled(d, s) =>
           \/ Settled(d, s)'
           \/ \E r \in R : Unrecorded(r) /\ from[r] = d /\ key[r] = s
  PROVE  CountInv'
  <1>1. PICK f \in [Session -> SUBSET Client] : \A s \in Session : Attributed(f, s)
    BY DEF CountInv
  <1> DEFINE ended(s) == {r \in R : Unrecorded(r) /\ key[r] = s}
             out(s) == {d \in f[s] : \E r \in ended(s) : from[r] = d}
             g == [s \in Session |-> f[s] \ out(s)]
  <1>2. g \in [Session -> SUBSET Client]
    OBVIOUS
  <1>3. ASSUME NEW s \in Session
        PROVE  Cardinality(f[s]) <= Cardinality(g[s]) + Cardinality(ended(s))
    <2>1. IsFiniteSet(ended(s)) /\ Cardinality(ended(s)) \in Nat
      <3>1. ended(s) \in SUBSET Request
        OBVIOUS
      <3>2. QED
        BY <3>1, RequestSubsets
    <2>2. /\ IsFiniteSet(g[s]) /\ IsFiniteSet(out(s))
          /\ Cardinality(g[s]) \in Nat /\ Cardinality(out(s)) \in Nat
      <3>1. g[s] \in SUBSET Client /\ out(s) \in SUBSET Client
        OBVIOUS
      <3>2. QED
        BY <3>1, ClientSubsets
    <2>3. Cardinality(out(s)) <= Cardinality(ended(s))
      <3> DEFINE w == [d \in out(s) |-> CHOOSE r \in ended(s) : from[r] = d]
      <3>1. \A d \in out(s) : w[d] \in ended(s) /\ from[w[d]] = d
        OBVIOUS
      <3>2. w \in Injection(out(s), ended(s))
        BY <3>1 DEF Injection, IsInjective
      <3>3. QED
        BY <2>1, <3>2, FS_Injection
    <2>4. f[s] = g[s] \cup out(s) /\ g[s] \cap out(s) = {}
      OBVIOUS
    <2>5. Cardinality(f[s]) = Cardinality(g[s]) + Cardinality(out(s))
      <3>1. Cardinality(g[s] \cap out(s)) = 0
        BY <2>4, FS_EmptySet
      <3>2. Cardinality(g[s] \cup out(s)) =
              Cardinality(g[s]) + Cardinality(out(s)) - Cardinality(g[s] \cap out(s))
        BY <2>2, FS_Union
      <3> HIDE DEF g, out
      <3>3. QED
        BY <2>2, <2>4, <3>1, <3>2
    <2>6. Cardinality(f[s]) \in Nat
      BY ClientSubsets
    <2>7. QED
      BY <2>1, <2>2, <2>3, <2>5, <2>6
  <1>4. ASSUME NEW s \in Session
        PROVE  Cardinality(Logs(s))' <= Cardinality(g[s]) + excused'[s]
    <2>1. Cardinality(Logs(s)) <= Cardinality(f[s]) + excused[s]
      BY <1>1 DEF Attributed
    <2>2. Cardinality(Logs(s))' = Cardinality(Logs(s))
      BY DEF Logs
    <2>3. excused'[s] = excused[s] + Cardinality(ended(s))
      BY DEF Excuse
    <2>4. /\ Cardinality(Logs(s)) \in Nat /\ excused[s] \in Nat
          /\ Cardinality(f[s]) \in Nat
      BY LogsFinite, ClientSubsets DEF TypeOK, HistoryTypeOK
    <2>5. Cardinality(g[s]) \in Nat
      <3>1. g[s] \in SUBSET Client
        OBVIOUS
      <3>2. QED
        BY <3>1, ClientSubsets
    <2>6. Cardinality(ended(s)) \in Nat
      <3>1. ended(s) \in SUBSET Request
        OBVIOUS
      <3>2. QED
        BY <3>1, RequestSubsets
    <2> HIDE DEF g, ended
    <2>7. QED
      BY <1>3, <2>1, <2>2, <2>3, <2>4, <2>5, <2>6
  <1>5. ASSUME NEW s \in Session, NEW d \in g[s]
        PROVE  Settled(d, s)'
    BY <1>1 DEF Attributed
  <1> HIDE DEF g
  <1>6. QED
    BY <1>2, <1>4, <1>5 DEF CountInv, Attributed

\* A step that only moves requests on keeps settled clients settled.
LEMMA ClientCounts ==
  ASSUME LogInv, CountInv, NEW d \in Client, Turn(d) \/ Timeout(d) \/ ClientDies(d)
  PROVE  CountInv'
  <1>1. TypeOK /\ ServerTypeOK /\ Paired
    BY DEF LogInv, TypeOK
  <1>2. CASE Turn(d)
    <2>1. /\ UNCHANGED <<jira, ledger, blind, excused>>
          /\ \A r \in Request : at[r] # "free" \/ at'[r] = "free"
                                => UNCHANGED <<at[r], key[r], from[r]>>
          /\ \A r \in Request : at'[r] = "add" \/ at[r] = "insert"
                                => UNCHANGED <<at[r], key[r], from[r]>>
      BY <1>1, <1>2
         DEF Turn, PushTo, Scan, Pick, SendFails, Send, Record, serverVars, obsVars,
                        ServerTypeOK
    <2>2. \A c \in Client, s \in Session : Settled(c, s) => Settled(c, s)'
      BY <2>1 DEF Settled, Unrecorded, Astray
    <2>3. QED
      BY <2>1, <2>2, AttributionStays
  <1>3. CASE Timeout(d) \/ ClientDies(d)
    <2>1. /\ UNCHANGED <<jira, ledger, at, key, blind>>
          /\ GiveUp(d)
      BY <1>3 DEF Timeout, ClientDies
    <2> DEFINE mine == {r \in Request : from[r] = d}
    <2>2. Excuse(mine) /\ from' = [r \in Request |-> IF r \in mine THEN Nobody ELSE from[r]]
      BY <2>1 DEF GiveUp
    <2>3. ASSUME NEW c \in Client, NEW s \in Session, Settled(c, s),
                 ~\E r \in mine : Unrecorded(r) /\ from[r] = c /\ key[r] = s
          PROVE  Settled(c, s)'
      <3>1. \A r \in Request : at'[r] = "add" /\ from'[r] = c /\ key'[r] = s => r \in blind'
        BY <2>1, <2>2, <2>3, WorklogsAssumption DEF Settled
      <3>2. CASE ledger[s] # NoId
        BY <2>1, <3>1, <3>2 DEF Settled, NoId
      <3>3. ASSUME NEW r \in Request, Unrecorded(r), from[r] = c, key[r] = s
            PROVE  Settled(c, s)'
        <4>1. from'[r] = c
          BY <2>2, <2>3, <3>3
        <4>2. Unrecorded(r)'
          BY <2>1, <3>3, <4>1 DEF Unrecorded, Astray, NoId
        <4>3. QED
          BY <2>1, <3>1, <3>3, <4>1, <4>2 DEF Settled
      <3>4. QED
        BY <2>3, <3>2, <3>3 DEF Settled
    <2>4. mine \in SUBSET Request
      OBVIOUS
    <2> HIDE DEF mine
    <2>5. QED
      BY <1>1, <2>1, <2>2, <2>3, <2>4, AttributionShrinks
  <1>4. QED
    BY <1>2, <1>3

\* A client whose unblind request is about to add a work log is not settled, and
\* once the work log is there it is.
LEMMA AddSettles ==
  ASSUME LogInv, NEW r \in Request, at[r] = "add", ~Astray(r),
         UNCHANGED <<ledger, key, from, blind>>,
         \/ at' = [at EXCEPT ![r] = "insert"]
         \/ at' = [at EXCEPT ![r] = "refuse"] /\ ledger[key[r]] # NoId
  PROVE  ~Settled(from[r], key[r]) /\ Settled(from[r], key[r])'
  <1>1. ServerTypeOK /\ Paired
    BY DEF LogInv, TypeOK
  <1>2. ~Settled(from[r], key[r])
    BY DEF Settled, Astray
  <1>3. \A q \in Request : at'[q] = "add" => from'[q] # from'[r]
    BY <1>1 DEF Astray, Paired, ServerTypeOK
  <1>4. at'[r] = "insert" /\ ledger[key[r]] = NoId => Unrecorded(r)'
    BY DEF Unrecorded, Astray, NoId
  <1>5. (at'[r] = "insert" /\ ledger'[key'[r]] = NoId) \/ ledger'[key'[r]] # NoId
    BY <1>1 DEF ServerTypeOK
  <1>6. QED
    BY <1>2, <1>3, <1>4, <1>5 DEF Settled, NoId

LEMMA ServerCounts ==
  ASSUME LogInv, CountInv, NEW r \in Request, Handle(r) \/ Break(r)
  PROVE  CountInv'
  <1> USE DEF NoId, Goto
  <1>1. TypeOK /\ ServerTypeOK /\ Paired
    BY DEF LogInv, TypeOK
  <1>2. CASE \/ AddFails(r) \/ InsertDuplicate(r) \/ Reread(r) \/ RereadFails(r)
             \/ Answer(r) \/ Refuse(r) \/ Drop(r)
    <2>1. /\ UNCHANGED <<jira, ledger, excused>>
          /\ at[r] # "insert" \/ ledger[key[r]] # NoId
          /\ at'[r] # "add"
          /\ \A q \in Request \ {r} :
               UNCHANGED <<at[q], key[q], from[q]>> /\ (q \in blind <=> q \in blind')
      BY <1>1, <1>2
         DEF AddFails, InsertDuplicate, Reread, RereadFails, Answer, Refuse, Drop,
                        Free, obsVars, ServerTypeOK
    <2>2. \A c \in Client, s \in Session : Settled(c, s) => Settled(c, s)'
      BY <2>1 DEF Settled, Unrecorded, Astray
    <2>3. QED
      BY <2>1, <2>2, AttributionStays
  <1>3. CASE Lookup(r)
    <2>1. /\ UNCHANGED <<jira, ledger, key, from, blind, excused>>
          /\ at[r] = "select"
          /\ at' = [at EXCEPT ![r] = IF ledger[key[r]] = NoId THEN "add" ELSE "answer"]
      BY <1>3 DEF Lookup, obsVars
    <2>2. ASSUME NEW c \in Client, NEW s \in Session, Settled(c, s)
          PROVE  Settled(c, s)'
      <3>1. ASSUME NEW q \in Request, at'[q] = "add", from[q] = c, key[q] = s
            PROVE  q \in blind
        <4>1. CASE q = r
          <5>1. ledger[s] = NoId
            BY <1>1, <2>1, <3>1, <4>1 DEF ServerTypeOK
          <5>2. PICK u \in Request : Unrecorded(u) /\ from[u] = c /\ key[u] = s
            BY <2>2, <5>1 DEF Settled
          <5>3. u = r
            BY <1>1, <3>1, <4>1, <5>2, WorklogsAssumption DEF Paired
          <5>4. QED
            BY <2>1, <5>2, <5>3 DEF Unrecorded
        <4>2. CASE q # r
          BY <1>1, <2>1, <2>2, <3>1, <4>2 DEF Settled, ServerTypeOK
        <4>3. QED
          BY <4>1, <4>2
      <3>2. \A q \in Request : Unrecorded(q) => Unrecorded(q)'
        BY <1>1, <2>1 DEF Unrecorded, Astray, ServerTypeOK
      <3>3. QED
        BY <2>1, <2>2, <3>1, <3>2 DEF Settled
    <2>3. QED
      BY <2>1, <2>2, AttributionStays
  <1>4. CASE LookupFails(r)
    <2>1. /\ UNCHANGED <<jira, ledger, key, from, excused>>
          /\ at[r] = "select"
          /\ at' = [at EXCEPT ![r] = "add"]
          /\ blind' = blind \cup {r}
      BY <1>4 DEF LookupFails
    <2>2. \A c \in Client, s \in Session : Settled(c, s) => Settled(c, s)'
      BY <1>1, <2>1 DEF Settled, Unrecorded, Astray, ServerTypeOK
    <2>3. QED
      BY <2>1, <2>2, AttributionStays
  <1>5. CASE Insert(r)
    <2>1. /\ UNCHANGED <<jira, key, from, blind, excused>>
          /\ at[r] = "insert" /\ at' = [at EXCEPT ![r] = "answer"]
          /\ ledger' = [ledger EXCEPT ![key[r]] = id[r]]
      BY <1>5 DEF Insert, obsVars
    <2>2. key[r] \in Session /\ id[r] # NoId
      BY <2>1, HasKey DEF LogInv, RequestsHold, Unsaved, Logs
    <2>3. \A s \in Session : ledger'[s] = NoId => ledger[s] = NoId /\ s # key[r]
      BY <1>1, <2>1, <2>2 DEF ServerTypeOK
    <2>4. \A c \in Client, s \in Session : Settled(c, s) => Settled(c, s)'
      BY <1>1, <2>1, <2>2, <2>3 DEF Settled, Unrecorded, Astray, ServerTypeOK
    <2>5. QED
      BY <2>1, <2>4, AttributionStays
  <1>6. CASE Add(r) \/ AddUnheard(r)
    <2>1. /\ UNCHANGED <<ledger, key, from, blind>>
          /\ at[r] = "add"
          /\ jira' = Append(jira, key[r])
          /\ at' = [at EXCEPT ![r] = "insert"] \/ at' = [at EXCEPT ![r] = "refuse"]
      BY <1>6 DEF Add, AddUnheard, obsVars
    <2>2. key[r] \in Session
      BY <2>1, HasKey DEF LogInv
    <2>3. \A c \in Client, s \in Session : Settled(c, s) => Settled(c, s)'
      BY <1>1, <2>1 DEF Settled, Unrecorded, Astray, ServerTypeOK
    <2>4. \/ excused' = [excused EXCEPT ![key[r]] = @ + 1]
          \/ /\ excused' = excused /\ ~Astray(r)
             /\ at' = [at EXCEPT ![r] = "insert"] \/ ledger[key[r]] # NoId
      <3>1. excused \in [Session -> Nat]
        BY <1>1 DEF TypeOK, HistoryTypeOK
      <3>2. excused = [excused EXCEPT ![key[r]] = @ + 0]
        BY <2>2, <3>1
      <3>3. QED
        BY <1>6, <3>2 DEF Add, AddUnheard
    <2>5. CASE excused' = [excused EXCEPT ![key[r]] = @ + 1]
      BY <1>1, <2>1, <2>2, <2>3, <2>5, AttributionExcused
    <2>6. CASE /\ excused' = excused /\ ~Astray(r)
               /\ at' = [at EXCEPT ![r] = "insert"] \/ ledger[key[r]] # NoId
      <3>1. ~Settled(from[r], key[r]) /\ Settled(from[r], key[r])'
        BY <2>1, <2>6, AddSettles
      <3>2. from[r] \in Client
        BY <1>1, <2>6 DEF Astray, ServerTypeOK
      <3>3. PICK c \in Client, s \in Session : c = from[r] /\ s = key[r]
        BY <2>2, <3>2
      <3>4. ~Settled(c, s) /\ Settled(c, s)'
        BY <2>1, <3>1, <3>3 DEF Settled
      <3>5. QED
        BY <1>1, <2>1, <2>3, <2>6, <3>3, <3>4, AttributionGrows
    <2>7. QED
      BY <2>4, <2>5, <2>6
  <1>7. CASE InsertFails(r)
    <2>1. /\ UNCHANGED <<jira, ledger, key, from, blind>>
          /\ at[r] = "insert" /\ at' = [at EXCEPT ![r] = "refuse"]
          /\ Excuse({r})
      BY <1>7 DEF InsertFails
    <2>2. \A c \in Client, s \in Session : Settled(c, s) =>
            \/ Settled(c, s)'
            \/ \E q \in {r} : Unrecorded(q) /\ from[q] = c /\ key[q] = s
      BY <1>1, <2>1 DEF Settled, Unrecorded, Astray, ServerTypeOK
    <2>3. QED
      BY <1>1, <2>1, <2>2, AttributionShrinks
  <1>8. QED
    BY <1>2, <1>3, <1>4, <1>5, <1>6, <1>7 DEF Handle, Break

LEMMA CrashCounts ==
  ASSUME LogInv, CountInv, ServerDies
  PROVE  CountInv'
  <1>1. TypeOK /\ ServerTypeOK
    BY DEF LogInv, TypeOK
  <1>2. UNCHANGED <<jira, ledger>> /\ Excuse(Request) /\ at' = [r \in Request |-> "free"]
    BY DEF ServerDies
  <1>3. \A c \in Client, s \in Session : Settled(c, s) =>
          \/ Settled(c, s)'
          \/ \E r \in Request : Unrecorded(r) /\ from[r] = c /\ key[r] = s
    BY <1>2 DEF Settled, NoId
  <1>4. QED
    BY <1>1, <1>2, <1>3, AttributionShrinks

LEMMA CountInit == Init => CountInv
  <1> SUFFICES ASSUME Init PROVE CountInv
    OBVIOUS
  <1> DEFINE f == [s \in Session |-> {}]
  <1>1. f \in [Session -> SUBSET Client]
    OBVIOUS
  <1>2. ASSUME NEW s \in Session
        PROVE  Attributed(f, s)
    <2>1. Logs(s) = {}
      BY DEF Init, Logs
    <2>2. Cardinality({}) = 0
      BY FS_EmptySet
    <2>3. QED
      BY <2>1, <2>2 DEF Init, Attributed
  <1> HIDE DEF f
  <1>3. QED
    BY <1>1, <1>2 DEF CountInv

LEMMA CountStep == LogInv /\ CountInv /\ [Next]_vars => CountInv'
  <1> SUFFICES ASSUME LogInv, CountInv, [Next]_vars PROVE CountInv'
    OBVIOUS
  <1>1. CASE UNCHANGED vars
    <2>1. UNCHANGED <<jira, ledger, at, key, from, blind, excused>>
      BY <1>1 DEF vars, serverVars, obsVars
    <2>2. \A c \in Client, s \in Session : Settled(c, s) => Settled(c, s)'
      BY <2>1 DEF Settled, Unrecorded, Astray
    <2>3. QED
      BY <2>1, <2>2, AttributionStays
  <1>2. QED
    BY <1>1, ClientCounts, ServerCounts, CrashCounts DEF Next

\* Jira holds a session at most once for each client, plus once for each request
\* that was given up, blind or cut short.
THEOREM DuplicatesAreExplainedAlways == Spec => []DuplicatesAreExplained
  <1>1. TypeOK /\ CountInv => DuplicatesAreExplained
    <2> SUFFICES ASSUME TypeOK, CountInv, NEW s \in Session
                 PROVE  Cardinality(Logs(s)) <= Cardinality(Client) + excused[s]
      BY DEF DuplicatesAreExplained
    <2>1. PICK f \in [Session -> SUBSET Client] : Attributed(f, s)
      BY DEF CountInv
    <2>2. Cardinality(Logs(s)) <= Cardinality(f[s]) + excused[s]
      BY <2>1 DEF Attributed
    <2>3. /\ Cardinality(Logs(s)) \in Nat /\ excused[s] \in Nat
          /\ Cardinality(f[s]) \in Nat /\ Cardinality(Client) \in Nat
          /\ Cardinality(f[s]) <= Cardinality(Client)
      BY LogsFinite, ClientSubsets DEF TypeOK, HistoryTypeOK
    <2>4. QED
      BY <2>2, <2>3
  <1>2. LogInv => TypeOK
    BY DEF LogInv
  <1>3. QED
    BY <1>1, <1>2, CountInit, CountStep, LogInvariant, PTL DEF Spec

-----------------------------------------------------------------------------
(* Nothing is excused while nothing breaks. *)

\* Until the first fault every request in hand is waited for and saw the ledger, so no
\* work log is excused and no answer is adrift.
Unbroken ==
    faults = 0 =>
        /\ blind = {}
        /\ \A r \in Request : at[r] # "free" => from[r] # Nobody
        /\ \A s \in Session : excused[s] = 0 /\ adrift[s] = {}

LEMMA UnbrokenStep == TypeOK /\ Unbroken /\ [Next]_vars => Unbroken'
  <1> SUFFICES ASSUME TypeOK, Unbroken, [Next]_vars, faults' = 0 PROVE Unbroken'
    BY DEF Unbroken
  <1>1. /\ faults \in Nat /\ Nobody \notin Client
        /\ at \in [Request -> {"free", "select", "add", "insert", "reread", "answer", "refuse"}]
        /\ key \in [Request -> Session \cup {NoSession}]
        /\ from \in [Request -> Client \cup {Nobody}]
        /\ excused \in [Session -> Nat]
    BY WorklogsAssumption DEF TypeOK, ServerTypeOK, HistoryTypeOK
  <1>2. ~Fault
    BY <1>1 DEF Fault
  <1>3. CASE UNCHANGED vars
    BY <1>3 DEF Unbroken, vars, serverVars, obsVars
  <1>4. ASSUME NEW d \in Client, Turn(d) PROVE Unbroken'
    <2>1. CASE \E r \in Request : Send(d, r)
      BY <1>1, <2>1 DEF Send, Unbroken, obsVars
    <2>2. CASE ~\E r \in Request : Send(d, r)
      BY <1>4, <2>2 DEF Turn, Scan, Pick, PushTo, SendFails, Record, Unbroken, serverVars, obsVars
    <2>3. QED
      BY <2>1, <2>2
  <1>5. ASSUME NEW r \in Request, Handle(r) PROVE Unbroken'
    <2>1. CASE Add(r)
      <3>1. faults = 0 /\ ~Astray(r) /\ key[r] \in Session
        BY <1>1, <2>1, HasKey DEF Add, Astray, Unbroken
      <3>2. \A s \in Session : excused'[s] = 0
        BY <1>1, <2>1, <3>1 DEF Add, Unbroken
      <3>3. QED
        BY <1>1, <2>1, <3>1, <3>2 DEF Add, Goto, Unbroken
    <2>2. CASE Answer(r) \/ Refuse(r) \/ Drop(r)
      BY <1>1, <2>2 DEF Answer, Refuse, Drop, Free, Goto, Unbroken
    <2>3. CASE \/ Lookup(r) \/ AddFails(r) \/ Insert(r) \/ InsertDuplicate(r) \/ Reread(r)
      BY <1>1, <2>3 DEF Lookup, AddFails, Insert, InsertDuplicate, Reread, Goto, Unbroken, obsVars
    <2>4. QED
      BY <1>5, <2>1, <2>2, <2>3 DEF Handle
  <1>6. QED
    BY <1>2, <1>3, <1>4, <1>5 DEF Next, Timeout, ClientDies, Break, LookupFails, AddUnheard,
       InsertFails, RereadFails, ServerDies

\* As long as nothing breaks Jira holds a session at most once a daemon, so once if only
\* one pushes, and every answer is the ledger's: what the duplicate rule excuses is
\* never the work of interleaved requests alone (pushWorklog).
NothingIsExcused ==
    faults = 0 => \A s \in Session :
        /\ Cardinality(Logs(s)) <= Cardinality(Client)
        /\ heard[s] \subseteq {ledger[s]}

THEOREM NothingIsExcusedAlways == Spec => []NothingIsExcused
  <1>1. Init => Unbroken
    BY DEF Init, Unbroken
  <1>2. Unbroken /\ DuplicatesAreExplained /\ AnswersAgree => NothingIsExcused
    <2> SUFFICES ASSUME Unbroken, DuplicatesAreExplained, AnswersAgree, faults = 0,
                        NEW s \in Session
                 PROVE  /\ Cardinality(Logs(s)) <= Cardinality(Client)
                        /\ heard[s] \subseteq {ledger[s]}
      BY DEF NothingIsExcused
    <2>1. excused[s] = 0 /\ adrift[s] = {}
      BY DEF Unbroken
    <2>2. Cardinality(Client) \in Nat
      BY WorklogsAssumption, FS_CardinalityType
    <2>3. QED
      BY <2>1, <2>2 DEF DuplicatesAreExplained, AnswersAgree
  <1>3. QED
    BY <1>1, <1>2, UnbrokenStep, WorklogsTypeCorrect, DuplicatesAreExplainedAlways,
       AnswersAgreeAlways, PTL DEF Spec

=============================================================================
