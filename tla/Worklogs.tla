------------------------------- MODULE Worklogs -------------------------------
(***************************************************************************)
(* One work log's way to Jira: the gateway provider's Push                 *)
(* (internal/reconcile/providers/gateway/gateway.go) and the server's      *)
(* pushWorklog (server/internal/api/server.go) with its ledger             *)
(* (server/internal/store/store.go).  It opens up the provider that Engine *)
(* leaves opaque.                                                          *)
(*                                                                         *)
(* A session is its idempotency key: the key is a hash of the row's own    *)
(* content.  Every request of one user runs on a goroutine of its own, and *)
(* each of its statements and Jira calls is a step.  A request outlives    *)
(* the client that gave up on it: the database calls do not look at the    *)
(* request's context, and the Jira call may have gone through before it    *)
(* does.  Authentication and the Jira grant only refuse a request earlier; *)
(* they are one with the failure of the Jira call here.                    *)
(***************************************************************************)
EXTENDS Naturals, FiniteSets, Sequences

CONSTANTS
    Session,     \* sessions to push, each with its idempotency key
    Client,      \* daemons pushing them
    Request,     \* requests the server handles at the same time
    NoSession,
    Nobody,      \* the client of a request that was given up
    Millis,      \* duration of each session
    Accepting,   \* sessions Jira takes if they are sent often enough
    MaxFaults    \* bound: crashes, timeouts and failed statements in a behaviour

ASSUME WorklogsAssumption ==
    /\ NoSession \notin Session
    /\ Nobody \notin Client
    /\ Millis \in [Session -> Nat]
    /\ MaxFaults \in Nat
    /\ IsFiniteSet(Client) /\ IsFiniteSet(Request)

VARIABLES
    jira,        \* work logs Jira holds, in order: the session of each
    ledger,      \* pushed_worklogs: the work-log id recorded for a session
    at,          \* where each request is in pushWorklog
    key,         \* its idempotency key
    id,          \* the work-log id it holds
    from,        \* the client waiting for it
    todo,        \* sessions the client read as unsigned and has not come to
    client,      \* what it is doing
    job,         \* the session it is pushing
    got,         \* the id it was answered
    signature    \* timer_sync_signature of each session

(* Observability variables. *)
VARIABLES
    blind,       \* requests whose look at the ledger failed
    heard,       \* ids clients were answered for each session
    adrift,      \* of these, ids answered because the ledger was not re-read
    excused,     \* work logs whose request was given up, blind or cut short
    faults

serverVars == <<jira, ledger, at, key, id, from>>
clientVars == <<todo, client, job, got, signature>>
obsVars == <<blind, heard, adrift, excused, faults>>
vars == <<serverVars, clientVars, obsVars>>

NoId == 0      \* the empty string; Jira's ids are positions in jira

\* int64(d.Round(time.Second) / time.Second): halves round up.
Seconds(ms) == (ms + 500) \div 1000

\* A request has a key, a client at work a session, and a client that waits at
\* most one request, which is about its session.
Paired ==
    /\ \A r \in Request : (at[r] = "free") = (key[r] = NoSession)
    /\ \A d \in Client : (client[d] = "idle") = (job[d] = NoSession)
    /\ \A r \in Request : from[r] # Nobody =>
         /\ client[from[r]] = "waiting" /\ job[from[r]] = key[r]
         /\ \A q \in Request : from[q] = from[r] => q = r

ServerTypeOK ==
    /\ jira \in Seq(Session)
    /\ ledger \in [Session -> 0..Len(jira)]
    /\ at \in [Request -> {"free", "select", "add", "insert", "reread", "answer", "refuse"}]
    /\ key \in [Request -> Session \cup {NoSession}]
    /\ id \in [Request -> 0..Len(jira)]
    /\ from \in [Request -> Client \cup {Nobody}]

ClientTypeOK ==
    /\ todo \in [Client -> SUBSET Session]
    /\ client \in [Client -> {"idle", "picked", "waiting", "answered"}]
    /\ job \in [Client -> Session \cup {NoSession}]
    /\ got \in [Client -> 0..Len(jira)]
    /\ signature \in [Session -> 0..Len(jira)]

HistoryTypeOK ==
    /\ blind \subseteq Request
    /\ heard \in [Session -> SUBSET (0..Len(jira))]
    /\ adrift \in [Session -> SUBSET (0..Len(jira))]
    /\ excused \in [Session -> Nat]
    /\ faults \in 0..MaxFaults

TypeOK == ServerTypeOK /\ ClientTypeOK /\ HistoryTypeOK /\ Paired

Init ==
    /\ jira = << >>
    /\ ledger = [s \in Session |-> NoId]
    /\ at = [r \in Request |-> "free"]
    /\ key = [r \in Request |-> NoSession]
    /\ id = [r \in Request |-> NoId]
    /\ from = [r \in Request |-> Nobody]
    /\ todo = [d \in Client |-> {}]
    /\ client = [d \in Client |-> "idle"]
    /\ job = [d \in Client |-> NoSession]
    /\ got = [d \in Client |-> NoId]
    /\ signature = [s \in Session |-> NoId]
    /\ blind = {}
    /\ heard = [s \in Session |-> {}]
    /\ adrift = [s \in Session |-> {}]
    /\ excused = [s \in Session |-> 0]
    /\ faults = 0

Fault == faults < MaxFaults /\ faults' = faults + 1

\* A request nobody waits for, or that did not see the ledger.
Astray(r) == from[r] = Nobody \/ r \in blind

\* A request that has added a work log the ledger does not know of.
Unrecorded(r) == at[r] = "insert" /\ ledger[key[r]] = NoId /\ ~Astray(r)

\* The unrecorded requests of R end here: the next attempt adds another.
Excuse(R) ==
    excused' = [s \in Session |->
        excused[s] + Cardinality({r \in R : Unrecorded(r) /\ key[r] = s})]

-----------------------------------------------------------------------------
(* The client. *)

Rest(d) ==
    /\ client' = [client EXCEPT ![d] = "idle"]
    /\ job' = [job EXCEPT ![d] = NoSession]
    /\ got' = [got EXCEPT ![d] = NoId]

\* PendingPush: read once, walked while others write.
Scan(d) ==
    /\ client[d] = "idle"
    /\ todo[d] = {}
    /\ todo' = [todo EXCEPT ![d] = {s \in Session : signature[s] = NoId}]
    /\ UNCHANGED <<serverVars, client, job, got, signature, obsVars>>

Pick(d, s) ==
    /\ client[d] = "idle"
    /\ s \in todo[d]
    /\ todo' = [todo EXCEPT ![d] = @ \ {s}]
    /\ client' = [client EXCEPT ![d] = "picked"]
    /\ job' = [job EXCEPT ![d] = s]
    /\ UNCHANGED <<serverVars, got, signature, obsVars>>

\* Push: the request reaches the server, which refuses one of no seconds.
Send(d, r) ==
    /\ client[d] = "picked"
    /\ at[r] = "free"
    /\ client' = [client EXCEPT ![d] = "waiting"]
    /\ at' = [at EXCEPT ![r] = IF Seconds(Millis[job[d]]) > 0 THEN "select" ELSE "refuse"]
    /\ key' = [key EXCEPT ![r] = job[d]]
    /\ from' = [from EXCEPT ![r] = d]
    /\ UNCHANGED <<jira, ledger, id, todo, job, got, signature, obsVars>>

\* The server cannot be reached.
SendFails(d) ==
    /\ client[d] = "picked"
    /\ Rest(d)
    /\ UNCHANGED <<serverVars, todo, signature, obsVars>>

\* MarkPushed with the answered id.
Record(d) ==
    /\ client[d] = "answered"
    /\ signature' = [signature EXCEPT ![job[d]] = got[d]]
    /\ Rest(d)
    /\ UNCHANGED <<serverVars, todo, obsVars>>

\* Seeded fault: the request is still waited for.
GiveUpWaiting(d) ==
    /\ from' = from
    /\ Excuse({r \in Request : from[r] = d})

\* Nobody waits for d's request any more.
GiveUp(d) ==
    LET mine == {r \in Request : from[r] = d}
    IN  /\ from' = [r \in Request |-> IF r \in mine THEN Nobody ELSE from[r]]
        /\ Excuse(mine)

\* The client's 30 seconds are over; the server works on.
Timeout(d) ==
    /\ client[d] = "waiting"
    /\ Fault
    /\ Rest(d)
    /\ GiveUp(d)
    /\ UNCHANGED <<jira, ledger, at, key, id, todo, signature, blind, heard, adrift>>

\* The daemon dies, or MarkPushed fails: the rest of the rows wait for the next scan.
ClientDies(d) ==
    /\ client[d] # "idle"
    /\ Fault
    /\ Rest(d)
    /\ todo' = [todo EXCEPT ![d] = {}]
    /\ GiveUp(d)
    /\ UNCHANGED <<jira, ledger, at, key, id, signature, blind, heard, adrift>>

-----------------------------------------------------------------------------
(* The server: pushWorklog. *)

Goto(r, l) == at' = [at EXCEPT ![r] = l]

\* Seeded faults: the ledger is not consulted; it is consulted without the key;
\* a repeat is refused.
LookupNothing(r) ==
    /\ at[r] = "select"
    /\ Goto(r, "add")
    /\ UNCHANGED <<jira, ledger, key, id, from, clientVars, obsVars>>

LookupAnyKey(r) ==
    /\ at[r] = "select"
    /\ Goto(r, IF \A s \in Session : ledger[s] = NoId THEN "add" ELSE "answer")
    /\ \/ \A s \in Session : ledger[s] = NoId /\ id' = id
       \/ \E s \in Session : ledger[s] # NoId /\ id' = [id EXCEPT ![r] = ledger[s]]
    /\ UNCHANGED <<jira, ledger, key, from, clientVars, obsVars>>

LookupRefusing(r) ==
    /\ at[r] = "select"
    /\ Goto(r, IF ledger[key[r]] = NoId THEN "add" ELSE "refuse")
    /\ UNCHANGED <<jira, ledger, key, id, from, clientVars, obsVars>>

\* A key the ledger knows is answered with the first push's id.
Lookup(r) ==
    /\ at[r] = "select"
    /\ Goto(r, IF ledger[key[r]] = NoId THEN "add" ELSE "answer")
    /\ id' = [id EXCEPT ![r] = ledger[key[r]]]
    /\ UNCHANGED <<jira, ledger, key, from, clientVars, obsVars>>

\* A failed SELECT counts as a key never seen.
LookupFails(r) ==
    /\ at[r] = "select"
    /\ Fault
    /\ Goto(r, "add")
    /\ blind' = blind \cup {r}
    /\ UNCHANGED <<jira, ledger, key, id, from, clientVars, heard, adrift, excused>>

\* AddWorklog: Jira takes it and answers.
Add(r) ==
    /\ at[r] = "add"
    /\ Goto(r, "insert")
    /\ jira' = Append(jira, key[r])
    /\ id' = [id EXCEPT ![r] = Len(jira) + 1]
    /\ excused' = [excused EXCEPT ![key[r]] = @ + IF Astray(r) THEN 1 ELSE 0]
    /\ UNCHANGED <<ledger, key, from, clientVars, blind, heard, adrift, faults>>

\* Jira takes it, but the call times out, is cancelled, or does not parse.
AddUnheard(r) ==
    /\ at[r] = "add"
    /\ Fault
    /\ Goto(r, "refuse")
    /\ jira' = Append(jira, key[r])
    /\ excused' = [excused EXCEPT ![key[r]] =
                     @ + IF Astray(r) \/ ledger[key[r]] = NoId THEN 1 ELSE 0]
    /\ UNCHANGED <<ledger, key, id, from, clientVars, blind, heard, adrift>>

\* No usable grant, or Jira refuses.
AddFails(r) ==
    /\ at[r] = "add"
    /\ Goto(r, "refuse")
    /\ UNCHANGED <<jira, ledger, key, id, from, clientVars, obsVars>>

\* Seeded fault: the row of an earlier push is replaced.
InsertOver(r) ==
    /\ at[r] = "insert"
    /\ Goto(r, "answer")
    /\ ledger' = [ledger EXCEPT ![key[r]] = id[r]]
    /\ UNCHANGED <<jira, key, id, from, clientVars, obsVars>>

Insert(r) ==
    /\ at[r] = "insert"
    /\ ledger[key[r]] = NoId
    /\ Goto(r, "answer")
    /\ ledger' = [ledger EXCEPT ![key[r]] = id[r]]
    /\ UNCHANGED <<jira, key, id, from, clientVars, obsVars>>

\* The unique constraint fires: another request of this key got there first.
InsertDuplicate(r) ==
    /\ at[r] = "insert"
    /\ ledger[key[r]] # NoId
    /\ Goto(r, "reread")
    /\ UNCHANGED <<jira, ledger, key, id, from, clientVars, obsVars>>

\* "The work log reached Jira but could not be recorded."
InsertFails(r) ==
    /\ at[r] = "insert"
    /\ Fault
    /\ Goto(r, "refuse")
    /\ id' = [id EXCEPT ![r] = NoId]
    /\ Excuse({r})
    /\ UNCHANGED <<jira, ledger, key, from, clientVars, blind, heard, adrift>>

Reread(r) ==
    /\ at[r] = "reread"
    /\ Goto(r, "answer")
    /\ id' = [id EXCEPT ![r] = ledger[key[r]]]
    /\ UNCHANGED <<jira, ledger, key, from, clientVars, obsVars>>

\* The second SELECT fails: the request falls through to its own id.
RereadFails(r) ==
    /\ at[r] = "reread"
    /\ Fault
    /\ Goto(r, "answer")
    /\ adrift' = [adrift EXCEPT ![key[r]] = @ \cup {id[r]}]
    /\ UNCHANGED <<jira, ledger, key, id, from, clientVars, blind, heard, excused>>

Free(r) ==
    /\ Goto(r, "free")
    /\ key' = [key EXCEPT ![r] = NoSession]
    /\ id' = [id EXCEPT ![r] = NoId]
    /\ from' = [from EXCEPT ![r] = Nobody]
    /\ blind' = blind \ {r}

\* 201 with the id, read by the client that still waits.
Answer(r) ==
    /\ at[r] = "answer"
    /\ from[r] # Nobody
    /\ client' = [client EXCEPT ![from[r]] = "answered"]
    /\ got' = [got EXCEPT ![from[r]] = id[r]]
    /\ heard' = [heard EXCEPT ![key[r]] = @ \cup {id[r]}]
    /\ Free(r)
    /\ UNCHANGED <<jira, ledger, todo, job, signature, adrift, excused, faults>>

\* Any other status is an error to the client: the engine rolls the row back.
Refuse(r) ==
    /\ at[r] = "refuse"
    /\ from[r] # Nobody
    /\ Rest(from[r])
    /\ Free(r)
    /\ UNCHANGED <<jira, ledger, todo, signature, heard, adrift, excused, faults>>

\* The answer of a request that was given up goes nowhere.
Drop(r) ==
    /\ at[r] \in {"answer", "refuse"}
    /\ from[r] = Nobody
    /\ Free(r)
    /\ UNCHANGED <<jira, ledger, clientVars, heard, adrift, excused, faults>>

\* The server dies with every request it handles; the clients get an error.
ServerDies ==
    /\ \E r \in Request : at[r] # "free"
    /\ Fault
    /\ at' = [r \in Request |-> "free"]
    /\ key' = [r \in Request |-> NoSession]
    /\ id' = [r \in Request |-> NoId]
    /\ from' = [r \in Request |-> Nobody]
    /\ blind' = {}
    /\ LET waiting == {d \in Client : client[d] = "waiting"}
       IN  /\ client' = [d \in Client |-> IF d \in waiting THEN "idle" ELSE client[d]]
           /\ job' = [d \in Client |-> IF d \in waiting THEN NoSession ELSE job[d]]
    /\ Excuse(Request)
    /\ UNCHANGED <<jira, ledger, todo, got, signature, heard, adrift>>

-----------------------------------------------------------------------------

Handle(r) ==
    \/ Lookup(r) \/ Add(r) \/ AddFails(r)
    \/ Insert(r) \/ InsertDuplicate(r) \/ Reread(r)
    \/ Answer(r) \/ Refuse(r) \/ Drop(r)

Break(r) == LookupFails(r) \/ AddUnheard(r) \/ InsertFails(r) \/ RereadFails(r)

PushTo(d) == SendFails(d) \/ \E r \in Request : Send(d, r)

Turn(d) == Scan(d) \/ (\E s \in Session : Pick(d, s)) \/ PushTo(d) \/ Record(d)

Next ==
    \/ \E d \in Client : Turn(d) \/ Timeout(d) \/ ClientDies(d)
    \/ \E r \in Request : Handle(r) \/ Break(r)
    \/ ServerDies

Spec == Init /\ [][Next]_vars

\* A handler ends, every call in it having a timeout; the daemon goes on, cycle
\* after cycle.  That the server is reached and that Jira takes the work log are
\* assumed of Accepting.
Fairness ==
    /\ \A r \in Request :
         /\ WF_vars(Handle(r))
         /\ \A s \in Accepting : SF_vars(Add(r) /\ key[r] = s)
    /\ \A d \in Client :
         /\ WF_vars(Turn(d))
         /\ \A s \in Accepting : SF_vars(job[d] = s /\ \E r \in Request : Send(d, r))

FairSpec == Spec /\ Fairness

-----------------------------------------------------------------------------

Logs(s) == {n \in 1..Len(jira) : jira[n] = s}

\* The id recorded against a session names a work log of that session, however
\* many requests and retries stood between the two.
SignatureNamesWorklog ==
    \A s \in Session : signature[s] # NoId => signature[s] \in Logs(s)

\* Whatever request is answered first or last, all name the one recorded work
\* log; only a failed second SELECT makes an answer differ.
AnswersAgree ==
    \A s \in Session : heard[s] \ adrift[s] \subseteq {ledger[s]}

\* Jira holds a session twice only if two daemons sent it at once, or a request
\* was given up, blind or cut short.  One daemon whose requests end logs once,
\* though it dies and sends again after the ledger knows.
DuplicatesAreExplained ==
    \A s \in Session : Cardinality(Logs(s)) <= Cardinality(Client) + excused[s]

\* The ledger and the answers are a write-once register for each key.
Register == INSTANCE WriteOnce WITH
    Key <- Session,
    None <- NoId,
    value <- ledger,
    answers <- [s \in Session |-> heard[s] \ adrift[s]]

ImplementsRegister == Register!Spec

\* A session Jira takes is in the end signed, also when the first attempts were
\* lost after they had reached Jira or the ledger.
SessionIsSigned ==
    \A s \in Accepting :
        Seconds(Millis[s]) > 0 => <>(signature[s] # NoId)

=============================================================================
