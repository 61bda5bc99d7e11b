------------------------------ MODULE TokenGrant ------------------------------
(***************************************************************************)
(* One user's Jira grant: jiraFor, refresh and storeTokens of              *)
(* server/internal/api/server.go over the user's row of jira_tokens.       *)
(*                                                                         *)
(* Any number of requests need Jira at the same time, and a sign-in may    *)
(* store a new grant under them.  Refreshing is three steps with no lock:  *)
(* read the row, exchange the refresh token at Atlassian, write the row.   *)
(*                                                                         *)
(* Atlassian is modelled from how the code uses it: a refresh returns a new *)
(* token and kills the old one at once.  Tokens are numbered as they are   *)
(* issued; those that descend from one consent form its chain.             *)
(***************************************************************************)
EXTENDS Naturals

CONSTANTS
    Request,     \* requests the server handles at the same time
    Consent,     \* consents the user ever gives
    MaxAges,     \* how often an access token expires (bound)
    MaxFaults    \* crashes, failed writes and lost answers (bound)

ASSUME TokenGrantAssumption ==
    /\ MaxAges \in Nat
    /\ MaxFaults \in Nat

VARIABLES
    stored,      \* the refresh token in jira_tokens, 0 while there is no row
    fresh,       \* its access token outlives RefreshSkew
    at,          \* where each request is
    hand,        \* the token a request has read, then the one it was given
    given,       \* the token each consent was exchanged for, or 0
    open         \* callbacks that have a token and have not stored it

VARIABLES
    issued,      \* tokens Atlassian has issued
    alive,       \* those it still takes
    chain        \* the consent each token descends from

\* Observability variables.
VARIABLES
    spent,       \* tokens that were exchanged for a new one
    overtaken,   \* requests refreshing a grant whose consent has left the row since
    gone,        \* consents the user has withdrawn
    ages, faults

serverVars == <<stored, fresh, at, hand, given, open>>
atlassianVars == <<issued, alive, chain>>
vars == <<serverVars, atlassianVars, spent, overtaken, gone, ages, faults>>

Token == 1..issued

TypeOK ==
    /\ issued \in Nat
    /\ stored \in Token \cup {0}
    /\ fresh \in BOOLEAN
    /\ at \in [Request -> {"free", "refresh", "store", "use"}]
    /\ hand \in [Request -> Token \cup {0}]
    /\ \A r \in Request : hand[r] # 0 <=> at[r] \in {"refresh", "store"}
    /\ given \in [Consent -> Token \cup {0}]
    /\ open \subseteq {c \in Consent : given[c] # 0}
    /\ alive \subseteq Token
    /\ chain \in [Token -> Consent]
    /\ spent \subseteq Token
    /\ overtaken \subseteq {r \in Request : hand[r] # 0}
    /\ gone \subseteq Consent
    /\ ages \in 0..MaxAges
    /\ faults \in 0..MaxFaults

Init ==
    /\ stored = 0
    /\ fresh = FALSE
    /\ at = [r \in Request |-> "free"]
    /\ hand = [r \in Request |-> 0]
    /\ given = [c \in Consent |-> 0]
    /\ open = {}
    /\ issued = 0
    /\ alive = {}
    /\ chain \in [{} -> Consent]
    /\ spent = {}
    /\ overtaken = {}
    /\ gone = {}
    /\ ages = 0
    /\ faults = 0

-----------------------------------------------------------------------------
(* Atlassian and time. *)

\* A token of chain c, instead of the tokens in old.
Issue(c, old) ==
    /\ issued' = issued + 1
    /\ alive' = (alive \ old) \cup {issued + 1}
    /\ chain' = [t \in 1..issued + 1 |-> IF t = issued + 1 THEN c ELSE chain[t]]

\* The user withdraws the app's access, or an administrator does.
Revoke ==
    /\ alive # {}
    /\ alive' = {}
    /\ gone' = gone \cup {c \in Consent : given[c] # 0}
    /\ UNCHANGED <<serverVars, issued, chain, spent, overtaken, ages, faults>>

Age ==
    /\ fresh
    /\ ages < MaxAges
    /\ ages' = ages + 1
    /\ fresh' = FALSE
    /\ UNCHANGED <<stored, at, hand, given, open, atlassianVars, spent, overtaken, gone, faults>>

Fault ==
    /\ faults < MaxFaults
    /\ faults' = faults + 1

-----------------------------------------------------------------------------
(* The callback of a sign-in. *)

ExchangeCode(c) ==
    /\ given[c] = 0
    /\ Issue(c, {})
    /\ given' = [given EXCEPT ![c] = issued + 1]
    /\ open' = open \cup {c}
    /\ UNCHANGED <<stored, fresh, at, hand, spent, overtaken, gone, ages, faults>>

Refreshing == {r \in Request : at[r] \in {"refresh", "store"}}

\* upsertUser replaces the row, whatever it holds by now.
StoreConsent(c) ==
    /\ c \in open
    /\ open' = open \ {c}
    /\ stored' = given[c]
    /\ fresh' = TRUE
    /\ overtaken' = Refreshing
    /\ UNCHANGED <<at, hand, given, atlassianVars, spent, gone, ages, faults>>

\* WhoAmI, FirstJiraSite, DomainAllowed or a statement says no.
Abandon(c) ==
    /\ c \in open
    /\ open' = open \ {c}
    /\ UNCHANGED <<stored, fresh, at, hand, given, atlassianVars, spent, overtaken, gone,
                   ages, faults>>

-----------------------------------------------------------------------------
(* A request. *)

Goto(r, l, t) ==
    /\ at' = [at EXCEPT ![r] = l]
    /\ hand' = [hand EXCEPT ![r] = t]
    /\ overtaken' = IF t = 0 THEN overtaken \ {r} ELSE overtaken

\* Seeded fault: the row of another consent is read, for the first was not replaced.
ReadGrantOfAny(r) ==
    /\ at[r] = "free"
    /\ stored # 0
    /\ IF fresh THEN Goto(r, "use", 0)
       ELSE \E c \in Consent : given[c] # 0 /\ Goto(r, "refresh", given[c])
    /\ UNCHANGED <<stored, fresh, given, open, atlassianVars, spent, gone, ages, faults>>

\* Seeded fault: an expired access token is taken for a dead grant.
ReadGrantOnlyFresh(r) ==
    /\ at[r] = "free"
    /\ stored # 0
    /\ fresh
    /\ Goto(r, "use", 0)
    /\ UNCHANGED <<stored, fresh, given, open, atlassianVars, spent, gone, ages, faults>>

\* jiraFor.  Without a row the answer is 409 and nothing changes.
ReadGrant(r) ==
    /\ at[r] = "free"
    /\ stored # 0
    /\ IF fresh THEN Goto(r, "use", 0) ELSE Goto(r, "refresh", stored)
    /\ UNCHANGED <<stored, fresh, given, open, atlassianVars, spent, gone, ages, faults>>

\* Seeded fault: the refresh token that was sent is the one kept.
RefreshKeeping(r) ==
    /\ at[r] = "refresh"
    /\ hand[r] \in alive
    /\ Issue(chain[hand[r]], {hand[r]})
    /\ spent' = spent \cup {hand[r]}
    /\ Goto(r, "store", hand[r])
    /\ UNCHANGED <<stored, fresh, given, open, gone, ages, faults>>

\* Atlassian rotates the token.
Refresh(r) ==
    /\ at[r] = "refresh"
    /\ hand[r] \in alive
    /\ Issue(chain[hand[r]], {hand[r]})
    /\ spent' = spent \cup {hand[r]}
    /\ Goto(r, "store", issued + 1)
    /\ UNCHANGED <<stored, fresh, given, open, gone, ages, faults>>

\* invalid_grant: the answer is 409.
Refuse(r) ==
    /\ at[r] = "refresh"
    /\ hand[r] \notin alive
    /\ Goto(r, "free", 0)
    /\ UNCHANGED <<stored, fresh, given, open, atlassianVars, spent, gone, ages, faults>>

\* The answer is lost, or the client hangs up and cancels the request's context.
RefreshUnheard(r) ==
    /\ at[r] = "refresh"
    /\ hand[r] \in alive
    /\ Fault
    /\ Issue(chain[hand[r]], {hand[r]})
    /\ spent' = spent \cup {hand[r]}
    /\ Goto(r, "free", 0)
    /\ UNCHANGED <<stored, fresh, given, open, gone, ages>>

\* Atlassian is not reached: doOAuth makes it an AuthError, and the answer is 409.
RefreshFails(r) ==
    /\ at[r] = "refresh"
    /\ Fault
    /\ Goto(r, "free", 0)
    /\ UNCHANGED <<stored, fresh, given, open, atlassianVars, spent, gone, ages>>

\* Seeded fault: the new access token is used, the new refresh token dropped.
StoreTokensSkipped(r) ==
    /\ at[r] = "store"
    /\ Goto(r, "use", 0)
    /\ UNCHANGED <<stored, fresh, given, open, atlassianVars, spent, gone, ages, faults>>

\* storeTokens replaces the row, whatever it holds by now.
StoreTokens(r) ==
    /\ at[r] = "store"
    /\ stored' = hand[r]
    /\ fresh' = TRUE
    /\ at' = [at EXCEPT ![r] = "use"]
    /\ hand' = [hand EXCEPT ![r] = 0]
    /\ overtaken' = (IF chain[hand[r]] = chain[stored] THEN overtaken ELSE Refreshing) \ {r}
    /\ UNCHANGED <<given, open, atlassianVars, spent, gone, ages, faults>>

StoreFails(r) ==
    /\ at[r] = "store"
    /\ Fault
    /\ Goto(r, "free", 0)
    /\ UNCHANGED <<stored, fresh, given, open, atlassianVars, spent, gone, ages>>

\* Jira is called with the access token and the request is answered.
Use(r) ==
    /\ at[r] = "use"
    /\ Goto(r, "free", 0)
    /\ UNCHANGED <<stored, fresh, given, open, atlassianVars, spent, gone, ages, faults>>

ServerDies ==
    /\ Fault
    /\ at' = [r \in Request |-> "free"]
    /\ hand' = [r \in Request |-> 0]
    /\ open' = {}
    /\ overtaken' = {}
    /\ UNCHANGED <<stored, fresh, given, atlassianVars, spent, gone, ages>>

-----------------------------------------------------------------------------

SignIn(c) == ExchangeCode(c) \/ StoreConsent(c) \/ Abandon(c)

Serve(r) == ReadGrant(r) \/ Refresh(r) \/ Refuse(r) \/ StoreTokens(r) \/ Use(r)

Break(r) == RefreshUnheard(r) \/ RefreshFails(r) \/ StoreFails(r)

Next ==
    \/ Revoke \/ Age \/ ServerDies
    \/ \E c \in Consent : SignIn(c)
    \/ \E r \in Request : Serve(r) \/ Break(r)

Spec == Init /\ [][Next]_vars

\* The daemon asks again on every cycle, and the server finishes what it has begun.
FairSpec == Spec /\ \A r \in Request : WF_vars(Serve(r))

-----------------------------------------------------------------------------

\* However requests and sign-ins race, the stored grant is dead only while a
\* request carries its successor, after a fault, or because the user withdrew it:
\* concurrent refreshes alone never lock the account out (storeTokens).
LockoutIsExplained ==
    stored # 0 /\ stored \notin alive =>
        \/ \E r \in Request : at[r] = "store" /\ chain[hand[r]] = chain[stored]
        \/ faults > 0
        \/ chain[stored] \in gone

\* A slow request never writes back a token that a faster one has exchanged.
SpentIsNeverStored == [][stored' # stored => stored' \notin spent]_vars

\* The grant of a consent, and the Jira site that goes with it, gives way to that of
\* another only when a callback stores it, or to a request that had read the row before
\* it was last replaced so (storeTokens writes back what refresh was handed).
ConsentStays ==
    [][stored # 0 /\ stored' # stored /\ chain'[stored'] # chain[stored] =>
        \/ \E c \in open : stored' = given[c]
        \/ \E r \in overtaken : stored' = hand[r]]_vars

\* Either the grant is dead for good, or Jira is reached again and again
\* (jiraFor refreshes an expired access token; losing the race costs one answer).
LockedOutOrServed ==
    \/ <>[](stored = 0 \/ stored \notin alive)
    \/ []<>(\E r \in Request : at[r] = "use")

=============================================================================
