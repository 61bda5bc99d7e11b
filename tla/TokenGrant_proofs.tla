--------------------------- MODULE TokenGrant_proofs ---------------------------
(***************************************************************************)
(* Proofs about the Jira grant, for any number of requests, consents,      *)
(* expiries and faults.                                                    *)
(*                                                                         *)
(* The argument: a token that is on its way to the row (Carried) is in one  *)
(* hand only and was never exchanged.  So a write never puts a spent token  *)
(* into the row, and the row holds a spent token only while the request     *)
(* that spent it carries the successor.                                    *)
(***************************************************************************)
EXTENDS TokenGrant, TLAPS

\* A token on its way to the row is in one hand, not spent and not stored.
Carried ==
    /\ \A r \in Request : at[r] = "store" => hand[r] \notin spent /\ hand[r] # stored
    /\ \A c \in open : given[c] \notin spent /\ given[c] # stored
    /\ \A r, s \in Request : at[r] = "store" /\ hand[r] = hand[s] => r = s
    /\ \A c \in open, r \in Request : given[c] # hand[r]
    /\ \A c, d \in Consent : given[c] = given[d] /\ given[c] # 0 => c = d

\* A dead token was exchanged, or its chain was withdrawn.
DeadHasCause ==
    /\ \A t \in Token : given[chain[t]] # 0
    /\ \A t \in Token : t \notin alive => t \in spent \/ chain[t] \in gone

\* Who spends the stored token carries its successor.
SpentIsFollowed ==
    stored \in spent =>
        \/ \E r \in Request : at[r] = "store" /\ chain[hand[r]] = chain[stored]
        \/ faults > 0

\* A request that is not overtaken refreshes the grant of the consent in the row.
Follows ==
    \A r \in Refreshing \ overtaken : stored # 0 /\ chain[hand[r]] = chain[stored]

IInv == TypeOK /\ Carried /\ DeadHasCause /\ SpentIsFollowed /\ Follows

LEMMA InitIInv == Init => IInv
  <1> SUFFICES ASSUME Init PROVE IInv
    OBVIOUS
  <1>1. Token = {}
    BY DEF Init, Token
  <1>2. TypeOK
    <2>1. fresh \in BOOLEAN
      BY DEF Init
    <2>2. chain \in [Token -> Consent]
      BY <1>1 DEF Init
    <2>3. ages \in 0..MaxAges /\ faults \in 0..MaxFaults /\ issued \in Nat
      BY TokenGrantAssumption DEF Init
    <2> QED BY <1>1, <2>1, <2>2, <2>3 DEF Init, TypeOK
  <1>3. Carried /\ DeadHasCause /\ SpentIsFollowed /\ Follows
    BY <1>1 DEF Init, Carried, DeadHasCause, SpentIsFollowed, Follows, Refreshing
  <1> QED BY <1>2, <1>3 DEF IInv

\* What Issue does to the tokens there were and to the one there is now.
LEMMA IssueFacts ==
    ASSUME TypeOK, NEW c \in Consent, NEW old, Issue(c, old)
    PROVE  /\ issued' = issued + 1
           /\ Token \subseteq Token'
           /\ issued + 1 \in Token'
           /\ issued + 1 \notin Token
           /\ issued + 1 # 0
           /\ Token' = Token \cup {issued + 1}
           /\ alive' = (alive \ old) \cup {issued + 1}
           /\ chain' \in [Token' -> Consent]
           /\ chain'[issued + 1] = c
           /\ \A t \in Token : chain'[t] = chain[t]
  <1>1. issued \in Nat /\ chain \in [1..issued -> Consent]
    BY DEF TypeOK, Token
  <1>2. issued' = issued + 1
    BY DEF Issue
  <1>3. chain' = [t \in 1..issued + 1 |-> IF t = issued + 1 THEN c ELSE chain[t]]
    BY DEF Issue
  <1>4. Token = 1..issued /\ Token' = 1..(issued + 1)
    BY <1>2 DEF Token
  <1>5. Token' = Token \cup {issued + 1} /\ issued + 1 \notin Token /\ issued + 1 # 0
    BY <1>1, <1>4
  <1>6. chain' \in [Token' -> Consent] /\ chain'[issued + 1] = c
        /\ \A t \in Token : chain'[t] = chain[t]
    BY <1>1, <1>3, <1>4, <1>5
  <1> QED BY <1>2, <1>5, <1>6 DEF Issue

LEMMA ExchangeCodeStep ==
    ASSUME IInv, NEW c \in Consent, ExchangeCode(c)
    PROVE  IInv'
  <1>1. TypeOK BY DEF IInv
  <1>2. /\ issued' = issued + 1
        /\ Token \subseteq Token'
        /\ issued + 1 \in Token'
        /\ issued + 1 \notin Token
        /\ issued + 1 # 0
        /\ Token' = Token \cup {issued + 1}
        /\ alive' = alive \cup {issued + 1}
        /\ chain' \in [Token' -> Consent]
        /\ chain'[issued + 1] = c
        /\ \A t \in Token : chain'[t] = chain[t]
    BY <1>1, IssueFacts DEF ExchangeCode
  <1>3. TypeOK' BY <1>1, <1>2 DEF ExchangeCode, TypeOK
  <1>4. Carried' BY <1>1, <1>2 DEF IInv, ExchangeCode, TypeOK, Carried
  <1>5. DeadHasCause' BY <1>1, <1>2 DEF IInv, ExchangeCode, TypeOK, DeadHasCause
  <1>6. SpentIsFollowed' BY <1>1, <1>2 DEF IInv, ExchangeCode, TypeOK, SpentIsFollowed
  <1>7. Follows' BY <1>1, <1>2 DEF IInv, ExchangeCode, TypeOK, Follows, Refreshing
  <1> QED BY <1>3, <1>4, <1>5, <1>6, <1>7 DEF IInv

LEMMA RotateStep ==
    ASSUME IInv, NEW r \in Request, Refresh(r) \/ RefreshUnheard(r)
    PROVE  IInv'
  <1>1. TypeOK BY DEF IInv
  <1>2. at[r] = "refresh" /\ hand[r] \in alive /\ hand[r] \in Token /\ chain[hand[r]] \in Consent
    BY <1>1 DEF TypeOK, Refresh, RefreshUnheard
  <1>3. /\ issued' = issued + 1
        /\ Token \subseteq Token'
        /\ issued + 1 \in Token'
        /\ issued + 1 \notin Token
        /\ issued + 1 # 0
        /\ Token' = Token \cup {issued + 1}
        /\ alive' = (alive \ {hand[r]}) \cup {issued + 1}
        /\ chain' \in [Token' -> Consent]
        /\ chain'[issued + 1] = chain[hand[r]]
        /\ \A t \in Token : chain'[t] = chain[t]
    BY <1>1, <1>2, IssueFacts DEF Refresh, RefreshUnheard
  <1>4. spent' = spent \cup {hand[r]} /\ UNCHANGED <<stored, fresh, given, open, gone, ages>>
    BY DEF Refresh, RefreshUnheard
  <1>5. CASE Refresh(r)
    <2>1. at' = [at EXCEPT ![r] = "store"] /\ hand' = [hand EXCEPT ![r] = issued + 1]
          /\ UNCHANGED <<faults, overtaken>>
      BY <1>3, <1>5 DEF Refresh, Goto
    <2>2. TypeOK' BY <1>1, <1>2, <1>3, <1>4, <2>1 DEF TypeOK
    <2>3. Carried' BY <1>1, <1>2, <1>3, <1>4, <2>1 DEF IInv, TypeOK, Carried
    <2>4. DeadHasCause' BY <1>1, <1>2, <1>3, <1>4, <2>1 DEF IInv, TypeOK, DeadHasCause
    <2>5. SpentIsFollowed'
      BY <1>1, <1>2, <1>3, <1>4, <2>1 DEF IInv, TypeOK, SpentIsFollowed
    <2>6. Follows'
      BY <1>1, <1>2, <1>3, <1>4, <2>1 DEF IInv, TypeOK, Follows, Refreshing
    <2> QED BY <2>2, <2>3, <2>4, <2>5, <2>6 DEF IInv
  <1>6. CASE RefreshUnheard(r)
    <2>1. at' = [at EXCEPT ![r] = "free"] /\ hand' = [hand EXCEPT ![r] = 0]
          /\ faults < MaxFaults /\ faults' = faults + 1
          /\ overtaken' = overtaken \ {r}
      BY <1>6 DEF RefreshUnheard, Goto, Fault
    <2>2. TypeOK' BY <1>1, <1>2, <1>3, <1>4, <2>1, TokenGrantAssumption DEF TypeOK
    <2>3. Carried' BY <1>1, <1>2, <1>3, <1>4, <2>1 DEF IInv, TypeOK, Carried
    <2>4. DeadHasCause' BY <1>1, <1>2, <1>3, <1>4, <2>1 DEF IInv, TypeOK, DeadHasCause
    <2>5. SpentIsFollowed'
      BY <1>1, <2>1 DEF TypeOK, SpentIsFollowed
    <2>6. Follows'
      BY <1>1, <1>2, <1>3, <1>4, <2>1 DEF IInv, TypeOK, Follows, Refreshing
    <2> QED BY <2>2, <2>3, <2>4, <2>5, <2>6 DEF IInv
  <1> QED BY <1>5, <1>6

LEMMA NextIInv == IInv /\ [Next]_vars => IInv'
  <1> SUFFICES ASSUME IInv, [Next]_vars PROVE IInv'
    OBVIOUS
  <1> USE TokenGrantAssumption DEF IInv
  <1>1. CASE Revoke
    <2>1. TypeOK' /\ Carried' /\ SpentIsFollowed' /\ Follows'
      BY <1>1 DEF Revoke, serverVars, TypeOK, Carried, SpentIsFollowed, Follows, Refreshing, Token
    <2>2. DeadHasCause'
      BY <1>1 DEF Revoke, serverVars, TypeOK, DeadHasCause, Token
    <2> QED BY <2>1, <2>2
  <1>2. CASE Age
    <2>1. TypeOK'
      <3>1. fresh' \in BOOLEAN
        BY <1>2 DEF Age
      <3>2. ages' \in 0..MaxAges
        BY <1>2 DEF Age, TypeOK
      <3>3. UNCHANGED <<stored, at, hand, given,
                        open, issued, alive, chain, spent, overtaken, gone, faults>>
        BY <1>2 DEF Age, atlassianVars
      <3> QED BY <3>1, <3>2, <3>3 DEF TypeOK, Token
    <2>2. Carried' /\ DeadHasCause' /\ SpentIsFollowed' /\ Follows'
      BY <1>2 DEF Age, atlassianVars, Carried, DeadHasCause,
                  SpentIsFollowed, Follows, Refreshing, Token
    <2> QED BY <2>1, <2>2
  <1>3. CASE ServerDies
    BY <1>3 DEF ServerDies, Fault, atlassianVars, TypeOK, Carried, DeadHasCause,
                SpentIsFollowed, Follows, Refreshing, Token
  <1>4. ASSUME NEW c \in Consent, SignIn(c) PROVE IInv'
    <2>1. CASE ExchangeCode(c) BY <2>1, ExchangeCodeStep
    <2>2. CASE StoreConsent(c)
      BY <2>2 DEF StoreConsent, atlassianVars, TypeOK, Carried, DeadHasCause,
                  SpentIsFollowed, Follows, Refreshing, Token
    <2>3. CASE Abandon(c)
      BY <2>3 DEF Abandon, atlassianVars, TypeOK, Carried, DeadHasCause,
                  SpentIsFollowed, Follows, Refreshing, Token
    <2> QED BY <1>4, <2>1, <2>2, <2>3 DEF SignIn
  <1>5. ASSUME NEW r \in Request, Serve(r) \/ Break(r) PROVE IInv'
    <2>1. CASE Refresh(r) \/ RefreshUnheard(r) BY <2>1, RotateStep
    <2>2. CASE ReadGrant(r)
      <3>1. /\ at[r] = "free" /\ stored # 0
            /\ UNCHANGED <<stored, fresh, given, open, issued, alive, chain, spent, gone,
                          ages, faults>>
        BY <2>2 DEF ReadGrant, atlassianVars
      <3>2. DeadHasCause'
        BY <3>1 DEF DeadHasCause, Token
      <3>3. CASE fresh
        <4>1. /\ at' = [at EXCEPT ![r] = "use"] /\ hand' = [hand EXCEPT ![r] = 0]
              /\ overtaken' = overtaken \ {r}
          BY <2>2, <3>3 DEF ReadGrant, Goto
        <4>2. TypeOK'
          BY <3>1, <4>1 DEF TypeOK, Token
        <4>3. Carried' /\ SpentIsFollowed'
          BY <3>1, <4>1 DEF TypeOK, Carried, SpentIsFollowed, Token
        <4>4. Follows'
          BY <3>1, <4>1 DEF TypeOK, Follows, Refreshing
        <4> QED BY <3>2, <4>2, <4>3, <4>4
      <3>4. CASE ~fresh
        <4>1. /\ at' = [at EXCEPT ![r] = "refresh"] /\ hand' = [hand EXCEPT ![r] = stored]
              /\ overtaken' = overtaken
          BY <2>2, <3>1, <3>4 DEF ReadGrant, Goto
        <4>2. TypeOK'
          BY <3>1, <4>1 DEF TypeOK, Token
        <4>3. Carried'
          BY <3>1, <4>1 DEF TypeOK, Carried, Token
        <4>4. SpentIsFollowed'
          BY <3>1, <4>1 DEF TypeOK, SpentIsFollowed
        <4>5. Follows'
          BY <3>1, <4>1 DEF TypeOK, Follows, Refreshing
        <4> QED BY <3>2, <4>2, <4>3, <4>4, <4>5
      <3> QED BY <3>3, <3>4
    <2>3. CASE Refuse(r) \/ Use(r)
      <3>1. /\ at[r] \in {"refresh", "use"}
            /\ at' = [at EXCEPT ![r] = "free"] /\ hand' = [hand EXCEPT ![r] = 0]
            /\ overtaken' = overtaken \ {r}
            /\ UNCHANGED <<stored, fresh, given, open, issued, alive, chain, spent, gone,
                          ages, faults>>
        BY <2>3 DEF Refuse, Use, Goto, atlassianVars
      <3>2. TypeOK'
        BY <3>1 DEF TypeOK, Token
      <3>3. Carried' /\ DeadHasCause'
        BY <3>1 DEF TypeOK, Carried, DeadHasCause, Token
      <3>4. SpentIsFollowed' /\ Follows'
        BY <3>1 DEF TypeOK, SpentIsFollowed, Follows, Refreshing
      <3> QED BY <3>2, <3>3, <3>4
    <2>4. CASE RefreshFails(r) \/ StoreFails(r)
      <3>1. /\ at' = [at EXCEPT ![r] = "free"] /\ hand' = [hand EXCEPT ![r] = 0]
            /\ faults < MaxFaults /\ faults' = faults + 1
            /\ overtaken' = overtaken \ {r}
            /\ UNCHANGED <<stored, fresh, given, open, issued, alive, chain, spent, gone, ages>>
        BY <2>4 DEF RefreshFails, StoreFails, Fault, Goto, atlassianVars
      <3>2. TypeOK'
        BY <3>1 DEF TypeOK, Token
      <3>3. Carried' /\ DeadHasCause'
        BY <3>1 DEF TypeOK, Carried, DeadHasCause, Token
      <3>4. SpentIsFollowed' /\ Follows'
        BY <3>1 DEF TypeOK, SpentIsFollowed, Follows, Refreshing
      <3> QED BY <3>2, <3>3, <3>4
    <2>5. CASE StoreTokens(r)
      <3>0. /\ at[r] = "store" /\ hand[r] \in Token
            /\ stored' = hand[r] /\ fresh' = TRUE
            /\ at' = [at EXCEPT ![r] = "use"] /\ hand' = [hand EXCEPT ![r] = 0]
            /\ overtaken' = (IF chain[hand[r]] = chain[stored] THEN overtaken ELSE Refreshing) \ {r}
            /\ UNCHANGED <<given, open, issued, alive, chain, spent, gone, ages, faults>>
        BY <2>5 DEF StoreTokens, atlassianVars, TypeOK
      <3>1. TypeOK'
        <4>1. overtaken \subseteq Refreshing
          BY DEF TypeOK, Refreshing
        <4>2. \A q \in overtaken' : q \in Request /\ q # r /\ at[q] \in {"refresh", "store"}
          BY <3>0, <4>1 DEF Refreshing
        <4>3. overtaken' \subseteq {q \in Request : hand'[q] # 0}
          BY <3>0, <4>2 DEF TypeOK
        <4> QED BY <3>0, <4>3 DEF TypeOK, Token
      <3>2. Carried' /\ SpentIsFollowed' /\ DeadHasCause'
        <4>1. Carried'
          BY <3>0 DEF TypeOK, Carried, Token
        <4>2. SpentIsFollowed'
          BY <3>0 DEF TypeOK, Carried, SpentIsFollowed, Token
        <4>3. DeadHasCause'
          BY <3>0 DEF TypeOK, Carried, SpentIsFollowed, DeadHasCause, Token
        <4> QED BY <4>1, <4>2, <4>3
      <3>3. Follows'
        BY <3>0 DEF TypeOK, Carried, Follows, Refreshing, Token
      <3> QED BY <3>1, <3>2, <3>3
    <2> QED BY <1>5, <2>1, <2>2, <2>3, <2>4, <2>5 DEF Serve, Break
  <1>6. CASE UNCHANGED vars
    BY <1>6 DEF vars, serverVars, atlassianVars, TypeOK, Carried, DeadHasCause,
                SpentIsFollowed, Follows, Refreshing, Token
  <1> QED BY <1>1, <1>2, <1>3, <1>4, <1>5, <1>6 DEF Next

LEMMA IInvAlways == Spec => []IInv
  BY InitIInv, NextIInv, PTL DEF Spec

\* Every reachable state is typed (jira_tokens, the requests and the callbacks).
THEOREM TokenGrantTypeCorrect == Spec => []TypeOK
  <1>1. IInv => TypeOK BY DEF IInv
  <1> QED BY <1>1, IInvAlways, PTL

\* Concurrent refreshes and sign-ins alone never lock the account out
\* (jiraFor, refresh, storeTokens).
THEOREM LockoutIsExplainedAlways == Spec => []LockoutIsExplained
  <1>1. IInv => LockoutIsExplained
    BY DEF IInv, TypeOK, DeadHasCause, SpentIsFollowed, LockoutIsExplained
  <1> QED BY <1>1, IInvAlways, PTL

\* storeTokens and upsertUser never put an exchanged token back into the row.
THEOREM SpentIsNeverStoredEver == Spec => SpentIsNeverStored
  <1>1. IInv /\ [Next]_vars => [stored' # stored => stored' \notin spent]_vars
    <2> SUFFICES ASSUME IInv, Next, stored' # stored PROVE stored' \notin spent
      OBVIOUS
    <2>1. CASE \E c \in Consent : StoreConsent(c)
      BY <2>1 DEF IInv, Carried, StoreConsent
    <2>2. CASE \E r \in Request : StoreTokens(r)
      BY <2>2 DEF IInv, Carried, StoreTokens
    <2> QED
      BY <2>1, <2>2 DEF Next, SignIn, Serve, Break, Revoke, Age, ServerDies, ExchangeCode, Abandon,
         ReadGrant, Refresh, Refuse, Use, RefreshUnheard, RefreshFails, StoreFails, serverVars
  <1> QED BY <1>1, IInvAlways, PTL DEF Spec, SpentIsNeverStored

\* A request writes back the grant of an older consent only when it had read the row
\* before a newer one was stored.
THEOREM ConsentStaysAlways == Spec => ConsentStays
  <1>1. IInv /\ [Next]_vars =>
          [stored # 0 /\ stored' # stored /\ chain'[stored'] # chain[stored] =>
              \/ \E c \in open : stored' = given[c]
              \/ \E r \in overtaken : stored' = hand[r]]_vars
    <2> SUFFICES ASSUME IInv, Next, stored # 0, stored' # stored,
                        chain'[stored'] # chain[stored]
                 PROVE  \/ \E c \in open : stored' = given[c]
                        \/ \E r \in overtaken : stored' = hand[r]
      OBVIOUS
    <2>1. CASE \E c \in Consent : StoreConsent(c)
      BY <2>1 DEF StoreConsent
    <2>2. ASSUME NEW r \in Request, StoreTokens(r)
          PROVE  \E q \in overtaken : stored' = hand[q]
      <3>1. stored' = hand[r] /\ chain' = chain /\ r \in Refreshing
        BY <2>2 DEF StoreTokens, atlassianVars, Refreshing
      <3>2. r \in overtaken
        BY <3>1 DEF IInv, Follows
      <3> QED BY <3>1, <3>2
    <2> QED
      BY <2>1, <2>2 DEF Next, SignIn, Serve, Break, Revoke, Age, ServerDies, ExchangeCode, Abandon,
         ReadGrant, Refresh, Refuse, Use, RefreshUnheard, RefreshFails, StoreFails, serverVars
  <1> QED BY <1>1, IInvAlways, PTL DEF Spec, ConsentStays

=============================================================================
