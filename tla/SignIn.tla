-------------------------------- MODULE SignIn --------------------------------
(***************************************************************************)
(* Signing a machine in: Connect in the gateway provider                   *)
(* (internal/reconcile/providers/gateway/connect.go) and login, callback   *)
(* and exchange on the server (server/internal/api/server.go).             *)
(*                                                                         *)
(* The user's browser stands between the two.  It may open the sign-in page *)
(* of an attempt more than once, consent late, reload the callback, and     *)
(* deliver a redirect after the attempt that waits for it is over, perhaps  *)
(* to another one that was given the same port.                             *)
(*                                                                         *)
(* Each callback and each exchange is a goroutine; every statement of it    *)
(* and every call to Atlassian is a step.  State, verifier, codes and keys  *)
(* are random and never repeat, so they are named by what they stand for.   *)
(***************************************************************************)
EXTENDS Naturals, FiniteSets, Sequences

CONSTANTS
    Attempt,     \* presses of Connect on one machine
    Login,       \* rows ever put into pending_auth
    Handler,     \* callbacks the server handles at the same time
    Account,     \* Atlassian accounts
    Allowed,     \* those whose domain may register
    Port,        \* ports the system may give to a listener
    None

ASSUME SignInAssumption ==
    /\ Allowed \subseteq Account
    /\ None \notin Attempt \cup Login \cup Account \cup Port

VARIABLES
    phase,       \* where Connect is, for each attempt
    port,        \* the port its redirect_uri names
    codes,       \* the code in its channel, or 0
    errs,        \* attempts with an error in their channel
    hand         \* the code it exchanges, then the key it is given

VARIABLES
    asked,       \* the attempt a login belongs to: challenge, state, redirect
    pending,     \* pending_auth
    at,          \* where each callback is
    login,       \* its state parameter
    who,         \* the account that consented
    users,       \* users, by account
    granted,     \* users with a row in jira_tokens
    issued,      \* every authorization code: of which login, for which account
    live,        \* auth_codes
    ex,          \* where the exchange of each attempt is on the server
    keys,        \* api_keys: of which login and account
    token        \* the key in credentials.env, or 0

\* Observability variable.
VARIABLE consent \* the account whose consent was accepted for a login

clientVars == <<phase, port, codes, errs, hand, token>>
callbackVars == <<asked, pending, at, login, who, users, granted, issued, consent>>
exchangeVars == <<live, ex, keys>>
vars == <<clientVars, callbackVars, exchangeVars>>

\* Connect closes the listener when it returns.
Listening(a) == phase[a] \in {"waiting", "exchange"}

Grant == [login : Login, account : Account]

ClientTypeOK ==
    /\ phase \in [Attempt -> {"off", "waiting", "exchange", "saving", "connected", "failed"}]
    /\ port \in [Attempt -> Port \cup {None}]
    /\ codes \in [Attempt -> 0..Len(issued)]
    /\ errs \subseteq Attempt
    /\ hand \in [Attempt -> Nat]
    /\ token \in 0..Len(keys)
    \* Two listeners never share a port.
    /\ \A a, b \in Attempt : Listening(a) /\ Listening(b) /\ port[a] = port[b] => a = b

CallbackTypeOK ==
    /\ asked \in [Login -> Attempt \cup {None}]
    /\ pending \subseteq {p \in Login : asked[p] # None}
    /\ at \in [Handler -> {"free", "take", "admit", "find", "create", "grant", "code"}]
    /\ login \in [Handler -> Login \cup {None}]
    /\ who \in [Handler -> Account \cup {None}]
    /\ users \subseteq Account
    /\ granted \subseteq users
    /\ issued \in Seq(Grant)
    /\ consent \in [Login -> Account \cup {None}]

ExchangeTypeOK ==
    /\ live \subseteq 1..Len(issued)
    /\ ex \in [Attempt -> {"none", "take", "key", "answer", "refuse", "done"}]
    /\ keys \in Seq(Grant)

TypeOK == ClientTypeOK /\ CallbackTypeOK /\ ExchangeTypeOK

Init ==
    /\ phase = [a \in Attempt |-> "off"]
    /\ port = [a \in Attempt |-> None]
    /\ codes = [a \in Attempt |-> 0]
    /\ errs = {}
    /\ hand = [a \in Attempt |-> 0]
    /\ asked = [p \in Login |-> None]
    /\ pending = {}
    /\ at = [h \in Handler |-> "free"]
    /\ login = [h \in Handler |-> None]
    /\ who = [h \in Handler |-> None]
    /\ users = {}
    /\ granted = {}
    /\ issued = << >>
    /\ live = {}
    /\ ex = [a \in Attempt |-> "none"]
    /\ keys = << >>
    /\ token = 0
    /\ consent = [p \in Login |-> None]

-----------------------------------------------------------------------------
(* The browser and the callback. *)

\* Connect opens a listener and sends the browser to the server.
Start(a) ==
    /\ phase[a] = "off"
    /\ phase' = [phase EXCEPT ![a] = "waiting"]
    /\ \E q \in Port :
         /\ \A b \in Attempt : Listening(b) => port[b] # q
         /\ port' = [port EXCEPT ![a] = q]
    /\ UNCHANGED <<codes, errs, hand, token, callbackVars, exchangeVars>>

\* /auth/login, from the tab of an attempt that may be over by then.
OpenPage(a, p) ==
    /\ phase[a] # "off"
    /\ asked[p] = None
    /\ asked' = [asked EXCEPT ![p] = a]
    /\ pending' = pending \cup {p}
    /\ UNCHANGED <<clientVars, at, login, who, users, granted, issued, consent, exchangeVars>>

\* Atlassian sends the browser back; a reload does so again.
Callback(h, p, u) ==
    /\ at[h] = "free"
    /\ asked[p] # None
    /\ at' = [at EXCEPT ![h] = "take"]
    /\ login' = [login EXCEPT ![h] = p]
    /\ who' = [who EXCEPT ![h] = u]
    /\ UNCHANGED <<clientVars, asked, pending, users, granted, issued, consent, exchangeVars>>

Goto(h, l) == at' = [at EXCEPT ![h] = l]

Leave(h) ==
    /\ Goto(h, "free")
    /\ login' = [login EXCEPT ![h] = None]
    /\ who' = [who EXCEPT ![h] = None]

\* Seeded fault: the row is read and stays.
TakePendingAuthKept(h) ==
    /\ at[h] = "take"
    /\ login[h] \in pending
    /\ Goto(h, "admit")
    /\ UNCHANGED <<clientVars, asked, pending, login, who, users, granted, issued, consent,
                   exchangeVars>>

\* One DELETE ... RETURNING: the row is gone also when it is older than pendingTTL.
TakePendingAuth(h) ==
    /\ at[h] = "take"
    /\ login[h] \in pending
    /\ pending' = pending \ {login[h]}
    /\ \/ Goto(h, "admit") /\ UNCHANGED <<login, who>>
       \/ Leave(h)
    /\ UNCHANGED <<clientVars, asked, users, granted, issued, consent, exchangeVars>>

\* ExchangeCode, WhoAmI, FirstJiraSite and DomainAllowed.
Admit(h) ==
    /\ at[h] = "admit"
    /\ who[h] \in Allowed
    /\ Goto(h, "find")
    /\ consent' = [consent EXCEPT ![login[h]] = who[h]]
    /\ UNCHANGED <<clientVars, asked, pending, login, who, users, granted, issued, exchangeVars>>

\* UserByAtlassianID; the profile of a known user is refreshed.
FindUser(h) ==
    /\ at[h] = "find"
    /\ Goto(h, IF who[h] \in users THEN "grant" ELSE "create")
    /\ UNCHANGED <<clientVars, asked, pending, login, who, users, granted, issued, consent,
                   exchangeVars>>

\* The account id is unique: of two first logins one fails here (Fail).
CreateUser(h) ==
    /\ at[h] = "create"
    /\ who[h] \notin users
    /\ Goto(h, "grant")
    /\ users' = users \cup {who[h]}
    /\ UNCHANGED <<clientVars, asked, pending, login, who, granted, issued, consent, exchangeVars>>

\* Seeded fault: the code is issued before the grant is stored.
StoreGrantLater(h) ==
    /\ at[h] = "grant"
    /\ Goto(h, "code")
    /\ UNCHANGED <<clientVars, asked, pending, login, who, users, granted, issued, consent,
                   exchangeVars>>

StoreGrant(h) ==
    /\ at[h] = "grant"
    /\ Goto(h, "code")
    /\ granted' = granted \cup {who[h]}
    /\ UNCHANGED <<clientVars, asked, pending, login, who, users, issued, consent, exchangeVars>>

\* CreateAuthCode, and the redirect to the listener.
IssueCode(h) ==
    /\ at[h] = "code"
    /\ issued' = Append(issued, [login |-> login[h], account |-> who[h]])
    /\ live' = live \cup {Len(issued) + 1}
    /\ Leave(h)
    /\ UNCHANGED <<clientVars, asked, pending, users, granted, consent, ex, keys>>

\* Any failing call, and a login that is gone, ends in a page: the client is
\* told nothing.
Fail(h) ==
    /\ at[h] # "free"
    /\ Leave(h)
    /\ UNCHANGED <<clientVars, asked, pending, users, granted, issued, consent, exchangeVars>>

-----------------------------------------------------------------------------
(* The client's listener and Connect. *)

\* The attempt the redirect of code c belongs to.
Owner(c) == asked[issued[c].login]

\* Seeded fault: the state is not compared.
DeliverUnchecked(a, c) ==
    /\ Listening(a)
    /\ port[a] = port[Owner(c)]
    /\ codes[a] = 0
    /\ codes' = [codes EXCEPT ![a] = c]
    /\ UNCHANGED <<phase, port, errs, hand, token, callbackVars, exchangeVars>>

\* callbackHandler.  A full channel blocks the handler.
Deliver(a, c) ==
    /\ Listening(a)
    /\ port[a] = port[Owner(c)]
    /\ IF a = Owner(c)
       THEN codes[a] = 0 /\ codes' = [codes EXCEPT ![a] = c] /\ errs' = errs
       ELSE a \notin errs /\ errs' = errs \cup {a} /\ codes' = codes
    /\ UNCHANGED <<phase, port, hand, token, callbackVars, exchangeVars>>

Receive(a) ==
    /\ phase[a] = "waiting"
    /\ codes[a] # 0
    /\ phase' = [phase EXCEPT ![a] = "exchange"]
    /\ hand' = [hand EXCEPT ![a] = codes[a]]
    /\ codes' = [codes EXCEPT ![a] = 0]
    /\ ex' = [ex EXCEPT ![a] = "take"]
    /\ UNCHANGED <<port, errs, token, callbackVars, live, keys>>

\* Serve returns.
ListenerFails(a) ==
    /\ Listening(a)
    /\ a \notin errs
    /\ errs' = errs \cup {a}
    /\ UNCHANGED <<phase, port, codes, hand, token, callbackVars, exchangeVars>>

\* A stray callback, or the listener's own error, ends the attempt.
ReceiveError(a) ==
    /\ phase[a] = "waiting"
    /\ a \in errs
    /\ phase' = [phase EXCEPT ![a] = "failed"]
    /\ errs' = errs \ {a}
    /\ UNCHANGED <<port, codes, hand, token, callbackVars, exchangeVars>>

\* Five minutes for all of it, thirty seconds for the exchange; the server goes on.
Timeout(a) ==
    /\ phase[a] \in {"waiting", "exchange"}
    /\ phase' = [phase EXCEPT ![a] = "failed"]
    /\ UNCHANGED <<port, codes, errs, hand, token, callbackVars, exchangeVars>>

\* SaveToken, which may fail.
SaveToken(a) ==
    /\ phase[a] = "saving"
    /\ \/ /\ phase' = [phase EXCEPT ![a] = "connected"]
          /\ token' = hand[a]
       \/ /\ phase' = [phase EXCEPT ![a] = "failed"]
          /\ token' = token
    /\ UNCHANGED <<port, codes, errs, hand, callbackVars, exchangeVars>>

-----------------------------------------------------------------------------
(* The exchange. *)

\* One DELETE ... RETURNING, then expiry and PKCE: the code is gone either way.
TakeAuthCode(a) ==
    /\ ex[a] = "take"
    /\ hand[a] \in live
    /\ live' = live \ {hand[a]}
    /\ \/ Owner(hand[a]) = a /\ ex' = [ex EXCEPT ![a] = "key"]
       \/ ex' = [ex EXCEPT ![a] = "refuse"]
    /\ UNCHANGED <<clientVars, callbackVars, keys>>

CreateAPIKey(a) ==
    /\ ex[a] = "key"
    /\ keys' = Append(keys, issued[hand[a]])
    /\ hand' = [hand EXCEPT ![a] = Len(keys) + 1]
    /\ ex' = [ex EXCEPT ![a] = "answer"]
    /\ UNCHANGED <<phase, port, codes, errs, token, callbackVars, live>>

\* The code is gone, a statement before or after CreateAPIKey fails, or the
\* server dies.
ExchangeFails(a) ==
    /\ ex[a] \in {"take", "key", "answer"}
    /\ ex' = [ex EXCEPT ![a] = "refuse"]
    /\ UNCHANGED <<clientVars, callbackVars, live, keys>>

\* The client reads the answer if it still waits.
Answer(a) ==
    /\ ex[a] \in {"answer", "refuse"}
    /\ ex' = [ex EXCEPT ![a] = "done"]
    /\ phase' = IF phase[a] # "exchange" THEN phase
                ELSE [phase EXCEPT ![a] = IF ex[a] = "answer" THEN "saving" ELSE "failed"]
    /\ UNCHANGED <<port, codes, errs, hand, token, callbackVars, live, keys>>

-----------------------------------------------------------------------------

Browse ==
    \/ \E a \in Attempt : Start(a) \/ \E p \in Login : OpenPage(a, p)
    \/ \E h \in Handler, p \in Login, u \in Account : Callback(h, p, u)
    \/ \E a \in Attempt : ListenerFails(a) \/ \E c \in 1..Len(issued) : Deliver(a, c)

Handle(h) ==
    \/ TakePendingAuth(h) \/ Admit(h) \/ FindUser(h) \/ CreateUser(h)
    \/ StoreGrant(h) \/ IssueCode(h) \/ Fail(h)

Connect(a) == Receive(a) \/ ReceiveError(a) \/ Timeout(a) \/ SaveToken(a)

Exchange(a) == TakeAuthCode(a) \/ CreateAPIKey(a) \/ ExchangeFails(a) \/ Answer(a)

Next ==
    \/ Browse
    \/ \E h \in Handler : Handle(h)
    \/ \E a \in Attempt : Connect(a) \/ Exchange(a)

Spec == Init /\ [][Next]_vars

-----------------------------------------------------------------------------

\* What an attempt exchanges was issued to it, also when a redirect comes to a
\* listener that has inherited its port: the verifier always matches.
ExchangeIsOwn ==
    \A a \in Attempt : ex[a] \in {"take", "key"} => Owner(hand[a]) = a

\* The key on this machine belongs to a registered account of an allowed domain
\* whose Jira grant is stored: the daemon that uses it is not sent back to Connect.
KeyIsReady ==
    token # 0 => keys[token].account \in users \cap granted \cap Allowed

\* Logins as tickets, made out by the consent that was accepted, buying keys.
Consents == INSTANCE Voucher WITH
    Ticket <- Login,
    Holder <- Account,
    bearer <- consent,
    bought <- [p \in Login |-> [u \in Account |->
                 Cardinality({k \in 1..Len(keys) : keys[k] = [login |-> p, account |-> u]})]]

\* A consent buys one key at most, and only for the account that gave it, however
\* callbacks are reloaded and exchanges are repeated (TakePendingAuth, TakeAuthCode).
ImplementsVoucher == Consents!Spec

=============================================================================
