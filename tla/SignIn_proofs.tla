----------------------------- MODULE SignIn_proofs -----------------------------
(***************************************************************************)
(* Proofs about SignIn, for any attempts, logins, handlers, accounts and   *)
(* ports.                                                                  *)
(*                                                                         *)
(* The argument follows a sign-in from hand to hand: what a callback has    *)
(* established by each label (CallbackInv) makes every code good (CodeInv), *)
(* the state comparison makes every code in a client's hands its own        *)
(* (ClientInv), and so every key is good and each attempt has one at most   *)
(* (KeyInv).  A consent stays the one it was because its login is no longer *)
(* pending (ConsentInv).                                                   *)
(***************************************************************************)
EXTENDS SignIn, FiniteSetTheorems, TLAPS

\* What a callback has established by each label.
CallbackInv ==
    /\ \A h \in Handler : at[h] # "free" =>
         login[h] \in Login /\ who[h] \in Account /\ asked[login[h]] # None
    /\ \A h \in Handler : at[h] \in {"find", "create", "grant", "code"} =>
         who[h] \in Allowed /\ consent[login[h]] = who[h]
    /\ \A h \in Handler : at[h] \in {"grant", "code"} => who[h] \in users
    /\ \A h \in Handler : at[h] = "code" => who[h] \in granted

\* A login that was taken is with one callback, or has its consent.
ConsentInv ==
    /\ \A p \in Login : consent[p] # None => asked[p] # None /\ p \notin pending
    /\ \A h \in Handler : at[h] = "admit" => login[h] \notin pending /\ consent[login[h]] = None
    /\ \A h, g \in Handler : at[h] = "admit" /\ at[g] = "admit" /\ login[h] = login[g] => h = g

\* What makes a code and a key good: a consent, an account that may use it, its grant.
Ready(g) ==
    /\ g.account \in users \cap granted \cap Allowed
    /\ consent[g.login] = g.account
    /\ asked[g.login] # None

\* Every code is good.
CodeInv == \A c \in 1..Len(issued) : Ready(issued[c])

\* A client holds codes of its own only, exchanges once, and saves a key that exists.
ClientInv ==
    /\ \A a \in Attempt : codes[a] # 0 => Owner(codes[a]) = a
    /\ \A a \in Attempt : ex[a] \in {"take", "key"} =>
         hand[a] \in 1..Len(issued) /\ Owner(hand[a]) = a
    /\ \A a \in Attempt : ex[a] = "answer" \/ phase[a] = "saving" => hand[a] \in 1..Len(keys)
    /\ \A a \in Attempt : phase[a] \in {"off", "waiting"} => ex[a] = "none"
    /\ \A a \in Attempt : phase[a] = "saving" => ex[a] = "done"

\* Every key is good, and no attempt has two.
KeyInv ==
    /\ \A k \in 1..Len(keys) :
         Ready(keys[k]) /\ ex[asked[keys[k].login]] \in {"answer", "refuse", "done"}
    /\ \A j, k \in 1..Len(keys) : asked[keys[j].login] = asked[keys[k].login] => j = k

\* The inductive invariant.
IInv == TypeOK /\ CallbackInv /\ ConsentInv /\ CodeInv /\ ClientInv /\ KeyInv

LEMMA InitIInv == Init => IInv
  <1> SUFFICES ASSUME Init PROVE IInv
    OBVIOUS
  <1>1. Len(issued) = 0 /\ Len(keys) = 0 /\ issued \in Seq(Grant) /\ keys \in Seq(Grant)
    BY DEF Init
  <1>2. TypeOK
    BY DEF Init, TypeOK, ClientTypeOK, CallbackTypeOK, ExchangeTypeOK, Listening
  <1>3. CallbackInv /\ ConsentInv /\ CodeInv /\ ClientInv /\ KeyInv
    BY DEF Init, CallbackInv, ConsentInv, CodeInv, ClientInv, KeyInv
  <1> QED BY <1>2, <1>3 DEF IInv

\* Lengths are numbers.
LEMMA Lengths ==
    ASSUME TypeOK
    PROVE  Len(issued) \in Nat /\ Len(keys) \in Nat
  OBVIOUS

LEMMA StartStep ==
    ASSUME IInv, NEW a \in Attempt, Start(a)
    PROVE  IInv'
  <1>1. ClientTypeOK'
    BY DEF IInv, Start, callbackVars, exchangeVars, TypeOK, ClientTypeOK, Listening
  <1>2. CallbackTypeOK'
    BY DEF IInv, Start, callbackVars, TypeOK, CallbackTypeOK
  <1>3. ExchangeTypeOK'
    BY DEF IInv, Start, callbackVars, exchangeVars, TypeOK, ExchangeTypeOK
  <1>4. CallbackInv'
    BY DEF IInv, Start, callbackVars, CallbackInv
  <1>5. ConsentInv'
    BY DEF IInv, Start, callbackVars, ConsentInv
  <1>6. CodeInv'
    BY DEF IInv, Start, callbackVars, CodeInv, Ready
  <1>7. ClientInv'
    BY DEF IInv, Start, callbackVars, exchangeVars, ClientInv, Owner
  <1>8. KeyInv'
    BY DEF IInv, Start, callbackVars, exchangeVars, KeyInv, Ready
  <1> QED BY <1>1, <1>2, <1>3, <1>4, <1>5, <1>6, <1>7, <1>8 DEF IInv, TypeOK

LEMMA OpenPageStep ==
    ASSUME IInv, NEW a \in Attempt, NEW p \in Login, OpenPage(a, p)
    PROVE  IInv'
  <1>1. ClientTypeOK'
    BY DEF IInv, OpenPage, clientVars, exchangeVars, TypeOK, ClientTypeOK, Listening
  <1>2. CallbackTypeOK'
    BY SignInAssumption DEF IInv, OpenPage, TypeOK, CallbackTypeOK
  <1>3. ExchangeTypeOK'
    BY DEF IInv, OpenPage, exchangeVars, TypeOK, ExchangeTypeOK
  <1>4. CallbackInv'
    BY DEF IInv, OpenPage, CallbackInv
  <1>5. ConsentInv'
    BY DEF IInv, OpenPage, CallbackInv, ConsentInv
  <1>6. CodeInv'
    BY DEF IInv, OpenPage, CodeInv, Ready
  <1>7. ClientInv'
    BY SignInAssumption DEF IInv, OpenPage, clientVars, exchangeVars, ClientInv, Owner
  <1>8. KeyInv'
    BY DEF IInv, OpenPage, clientVars, exchangeVars, KeyInv, Ready
  <1> QED BY <1>1, <1>2, <1>3, <1>4, <1>5, <1>6, <1>7, <1>8 DEF IInv, TypeOK

LEMMA CallbackStep ==
    ASSUME IInv, NEW h \in Handler, NEW p \in Login, NEW u \in Account, Callback(h, p, u)
    PROVE  IInv'
  <1>1. ClientTypeOK'
    BY DEF IInv, Callback, clientVars, exchangeVars, TypeOK, ClientTypeOK, Listening
  <1>2. CallbackTypeOK'
    BY DEF IInv, Callback, TypeOK, CallbackTypeOK
  <1>3. ExchangeTypeOK'
    BY DEF IInv, Callback, exchangeVars, TypeOK, ExchangeTypeOK
  <1>4. CallbackInv'
    BY DEF IInv, Callback, TypeOK, CallbackTypeOK, CallbackInv
  <1>5. ConsentInv'
    BY DEF IInv, Callback, ConsentInv
  <1>6. CodeInv'
    BY DEF IInv, Callback, CodeInv, Ready
  <1>7. ClientInv'
    BY DEF IInv, Callback, clientVars, exchangeVars, ClientInv, Owner
  <1>8. KeyInv'
    BY DEF IInv, Callback, exchangeVars, KeyInv, Ready
  <1> QED BY <1>1, <1>2, <1>3, <1>4, <1>5, <1>6, <1>7, <1>8 DEF IInv, TypeOK

LEMMA ListenerFailsStep ==
    ASSUME IInv, NEW a \in Attempt, ListenerFails(a)
    PROVE  IInv'
  <1>1. ClientTypeOK'
    BY DEF IInv, ListenerFails, callbackVars, exchangeVars, TypeOK, ClientTypeOK, Listening
  <1>2. CallbackTypeOK'
    BY DEF IInv, ListenerFails, callbackVars, TypeOK, CallbackTypeOK
  <1>3. ExchangeTypeOK'
    BY DEF IInv, ListenerFails, callbackVars, exchangeVars, TypeOK, ExchangeTypeOK
  <1>4. CallbackInv'
    BY DEF IInv, ListenerFails, callbackVars, CallbackInv
  <1>5. ConsentInv'
    BY DEF IInv, ListenerFails, callbackVars, ConsentInv
  <1>6. CodeInv'
    BY DEF IInv, ListenerFails, callbackVars, CodeInv, Ready
  <1>7. ClientInv'
    BY DEF IInv, ListenerFails, callbackVars, exchangeVars, ClientInv, Owner
  <1>8. KeyInv'
    BY DEF IInv, ListenerFails, callbackVars, exchangeVars, KeyInv, Ready
  <1> QED BY <1>1, <1>2, <1>3, <1>4, <1>5, <1>6, <1>7, <1>8 DEF IInv, TypeOK

LEMMA DeliverStep ==
    ASSUME IInv, NEW a \in Attempt, NEW c \in 1..Len(issued), Deliver(a, c)
    PROVE  IInv'
  <1>1. ClientTypeOK'
    <2>1. Len(issued) \in Nat /\ codes \in [Attempt -> 0..Len(issued)]
      BY DEF IInv, TypeOK, ClientTypeOK
    <2>2. codes' \in [Attempt -> 0..Len(issued)]
      BY <2>1 DEF Deliver
    <2>3. errs' \subseteq Attempt
      BY DEF IInv, TypeOK, ClientTypeOK, Deliver
    <2>4. UNCHANGED <<phase, port, hand, token, issued, keys>>
      BY DEF Deliver, callbackVars, exchangeVars
    <2> QED BY <2>2, <2>3, <2>4 DEF IInv, TypeOK, ClientTypeOK, Listening
  <1>2. CallbackTypeOK'
    BY DEF IInv, Deliver, callbackVars, TypeOK, CallbackTypeOK
  <1>3. ExchangeTypeOK'
    BY DEF IInv, Deliver, callbackVars, exchangeVars, TypeOK, ExchangeTypeOK
  <1>4. CallbackInv'
    BY DEF IInv, Deliver, callbackVars, CallbackInv
  <1>5. ConsentInv'
    BY DEF IInv, Deliver, callbackVars, ConsentInv
  <1>6. CodeInv'
    BY DEF IInv, Deliver, callbackVars, CodeInv, Ready
  <1>7. ClientInv'
    BY DEF IInv, Deliver, callbackVars, exchangeVars, TypeOK, ClientTypeOK, ClientInv, Owner
  <1>8. KeyInv'
    BY DEF IInv, Deliver, callbackVars, exchangeVars, KeyInv, Ready
  <1> QED BY <1>1, <1>2, <1>3, <1>4, <1>5, <1>6, <1>7, <1>8 DEF IInv, TypeOK

LEMMA TakePendingAuthStep ==
    ASSUME IInv, NEW h \in Handler, TakePendingAuth(h)
    PROVE  IInv'
  <1>1. ClientTypeOK'
    BY DEF IInv, TakePendingAuth, clientVars, exchangeVars, TypeOK, ClientTypeOK, Listening
  <1>2. CallbackTypeOK'
    BY SignInAssumption DEF IInv, TakePendingAuth, Goto, Leave, clientVars, exchangeVars, Grant,
       TypeOK, ClientTypeOK, CallbackTypeOK, ExchangeTypeOK, CallbackInv
  <1>3. ExchangeTypeOK'
    BY DEF IInv, TakePendingAuth, exchangeVars, TypeOK, ExchangeTypeOK
  <1>4. CallbackInv'
    <2>1. CASE at' = [at EXCEPT ![h] = "admit"] /\ UNCHANGED <<login, who>>
      BY <2>1 DEF IInv, TakePendingAuth, CallbackInv
    <2>2. CASE Leave(h)
      BY DEF IInv, TakePendingAuth, Goto, Leave, TypeOK, CallbackTypeOK, CallbackInv
    <2> QED BY <2>1, <2>2 DEF TakePendingAuth, Goto
  <1>5. ConsentInv'
    <2>1. CASE at' = [at EXCEPT ![h] = "admit"] /\ UNCHANGED <<login, who>>
      BY <2>1 DEF IInv, TakePendingAuth, CallbackInv, ConsentInv
    <2>2. CASE Leave(h)
      BY <2>2 DEF IInv, TakePendingAuth, Goto, Leave, ConsentInv
    <2> QED BY <2>1, <2>2 DEF TakePendingAuth, Goto
  <1>6. CodeInv'
    BY DEF IInv, TakePendingAuth, CodeInv, Ready
  <1>7. ClientInv'
    BY DEF IInv, TakePendingAuth, clientVars, exchangeVars, ClientInv, Owner
  <1>8. KeyInv'
    BY DEF IInv, TakePendingAuth, exchangeVars, KeyInv, Ready
  <1> QED BY <1>1, <1>2, <1>3, <1>4, <1>5, <1>6, <1>7, <1>8 DEF IInv, TypeOK

LEMMA AdmitStep ==
    ASSUME IInv, NEW h \in Handler, Admit(h)
    PROVE  IInv'
  <1>1. ClientTypeOK'
    BY DEF IInv, Admit, clientVars, exchangeVars, TypeOK, ClientTypeOK, Listening
  <1>2. CallbackTypeOK'
    BY DEF IInv, Admit, Goto, TypeOK, CallbackTypeOK, CallbackInv
  <1>3. ExchangeTypeOK'
    BY DEF IInv, Admit, exchangeVars, TypeOK, ExchangeTypeOK
  <1>4. CallbackInv'
    BY SignInAssumption DEF IInv, Admit, Goto, TypeOK, CallbackTypeOK, CallbackInv, ConsentInv
  <1>5. ConsentInv'
    BY DEF IInv, Admit, Goto, TypeOK, CallbackTypeOK, CallbackInv, ConsentInv
  <1>6. CodeInv'
    BY SignInAssumption DEF IInv, Admit, ConsentInv, CodeInv, Ready
  <1>7. ClientInv'
    BY DEF IInv, Admit, clientVars, exchangeVars, ClientInv, Owner
  <1>8. KeyInv'
    BY SignInAssumption DEF IInv, Admit, exchangeVars, ConsentInv, KeyInv, Ready
  <1> QED BY <1>1, <1>2, <1>3, <1>4, <1>5, <1>6, <1>7, <1>8 DEF IInv, TypeOK

LEMMA FindUserStep ==
    ASSUME IInv, NEW h \in Handler, FindUser(h)
    PROVE  IInv'
  <1>1. ClientTypeOK'
    BY DEF IInv, FindUser, clientVars, exchangeVars, TypeOK, ClientTypeOK, Listening
  <1>2. CallbackTypeOK'
    BY DEF IInv, FindUser, Goto, TypeOK, CallbackTypeOK
  <1>3. ExchangeTypeOK'
    BY DEF IInv, FindUser, exchangeVars, TypeOK, ExchangeTypeOK
  <1>4. CallbackInv'
    BY DEF IInv, FindUser, Goto, CallbackInv
  <1>5. ConsentInv'
    BY DEF IInv, FindUser, Goto, ConsentInv
  <1>6. CodeInv'
    BY DEF IInv, FindUser, CodeInv, Ready
  <1>7. ClientInv'
    BY DEF IInv, FindUser, clientVars, exchangeVars, ClientInv, Owner
  <1>8. KeyInv'
    BY DEF IInv, FindUser, exchangeVars, KeyInv, Ready
  <1> QED BY <1>1, <1>2, <1>3, <1>4, <1>5, <1>6, <1>7, <1>8 DEF IInv, TypeOK

LEMMA CreateUserStep ==
    ASSUME IInv, NEW h \in Handler, CreateUser(h)
    PROVE  IInv'
  <1>1. ClientTypeOK'
    BY DEF IInv, CreateUser, clientVars, exchangeVars, TypeOK, ClientTypeOK, Listening
  <1>2. CallbackTypeOK'
    BY DEF IInv, CreateUser, Goto, TypeOK, CallbackTypeOK, CallbackInv
  <1>3. ExchangeTypeOK'
    BY DEF IInv, CreateUser, exchangeVars, TypeOK, ExchangeTypeOK
  <1>4. CallbackInv'
    BY DEF IInv, CreateUser, Goto, CallbackInv
  <1>5. ConsentInv'
    BY DEF IInv, CreateUser, Goto, ConsentInv
  <1>6. CodeInv'
    BY DEF IInv, CreateUser, CodeInv, Ready
  <1>7. ClientInv'
    BY DEF IInv, CreateUser, clientVars, exchangeVars, ClientInv, Owner
  <1>8. KeyInv'
    BY DEF IInv, CreateUser, exchangeVars, KeyInv, Ready
  <1> QED BY <1>1, <1>2, <1>3, <1>4, <1>5, <1>6, <1>7, <1>8 DEF IInv, TypeOK

LEMMA StoreGrantStep ==
    ASSUME IInv, NEW h \in Handler, StoreGrant(h)
    PROVE  IInv'
  <1>1. ClientTypeOK'
    BY DEF IInv, StoreGrant, clientVars, exchangeVars, TypeOK, ClientTypeOK, Listening
  <1>2. CallbackTypeOK'
    BY DEF IInv, StoreGrant, Goto, TypeOK, CallbackTypeOK, CallbackInv
  <1>3. ExchangeTypeOK'
    BY DEF IInv, StoreGrant, exchangeVars, TypeOK, ExchangeTypeOK
  <1>4. CallbackInv'
    BY DEF IInv, StoreGrant, Goto, CallbackInv
  <1>5. ConsentInv'
    BY DEF IInv, StoreGrant, Goto, ConsentInv
  <1>6. CodeInv'
    BY DEF IInv, StoreGrant, CodeInv, Ready
  <1>7. ClientInv'
    BY DEF IInv, StoreGrant, clientVars, exchangeVars, ClientInv, Owner
  <1>8. KeyInv'
    BY DEF IInv, StoreGrant, exchangeVars, KeyInv, Ready
  <1> QED BY <1>1, <1>2, <1>3, <1>4, <1>5, <1>6, <1>7, <1>8 DEF IInv, TypeOK

LEMMA IssueCodeStep ==
    ASSUME IInv, NEW h \in Handler, IssueCode(h)
    PROVE  IInv'
  <1>1. ClientTypeOK'
    BY DEF IInv, IssueCode, clientVars, TypeOK, ClientTypeOK, Listening
  <1>2. CallbackTypeOK'
    BY DEF IInv, IssueCode, Goto, Leave, Grant, TypeOK, CallbackTypeOK, CallbackInv
  <1>3. ExchangeTypeOK'
    <2>1. issued \in Seq(Grant) /\ Len(issued) \in Nat
      BY DEF IInv, TypeOK, CallbackTypeOK
    <2>2. Len(issued') = Len(issued) + 1
      BY DEF IssueCode
    <2>3. live' = live \cup {Len(issued) + 1} /\ live \subseteq 1..Len(issued)
      BY DEF IInv, TypeOK, ExchangeTypeOK, IssueCode
    <2>4. live' \subseteq 1..(Len(issued) + 1)
      <3>1. \A n \in Nat : 1..n \cup {n + 1} \subseteq 1..(n + 1)
        OBVIOUS
      <3> QED BY <2>1, <2>3, <3>1, Zenon
    <2> QED BY <2>4 DEF IInv, TypeOK, ExchangeTypeOK, IssueCode
  <1>4. CallbackInv'
    BY DEF IInv, IssueCode, Goto, Leave, TypeOK, CallbackTypeOK, CallbackInv
  <1>5. ConsentInv'
    BY DEF IInv, IssueCode, Goto, Leave, ConsentInv
  <1>6. CodeInv'
    BY DEF IInv, IssueCode, Grant, CallbackInv, CodeInv, Ready
  <1>7. ClientInv'
    BY DEF IInv, IssueCode, clientVars, TypeOK, ClientTypeOK, ClientInv, Owner
  <1>8. KeyInv'
    BY DEF IInv, IssueCode, KeyInv, Ready
  <1> QED BY <1>1, <1>2, <1>3, <1>4, <1>5, <1>6, <1>7, <1>8 DEF IInv, TypeOK

LEMMA FailStep ==
    ASSUME IInv, NEW h \in Handler, Fail(h)
    PROVE  IInv'
  <1>1. ClientTypeOK'
    BY DEF IInv, Fail, clientVars, exchangeVars, TypeOK, ClientTypeOK, Listening
  <1>2. CallbackTypeOK'
    BY DEF IInv, Fail, Goto, Leave, TypeOK, CallbackTypeOK
  <1>3. ExchangeTypeOK'
    BY DEF IInv, Fail, exchangeVars, TypeOK, ExchangeTypeOK
  <1>4. CallbackInv'
    BY DEF IInv, Fail, Goto, Leave, TypeOK, CallbackTypeOK, CallbackInv
  <1>5. ConsentInv'
    BY DEF IInv, Fail, Goto, Leave, TypeOK, CallbackTypeOK, ConsentInv
  <1>6. CodeInv'
    BY DEF IInv, Fail, CodeInv, Ready
  <1>7. ClientInv'
    BY DEF IInv, Fail, clientVars, exchangeVars, ClientInv, Owner
  <1>8. KeyInv'
    BY DEF IInv, Fail, exchangeVars, KeyInv, Ready
  <1> QED BY <1>1, <1>2, <1>3, <1>4, <1>5, <1>6, <1>7, <1>8 DEF IInv, TypeOK

LEMMA ReceiveStep ==
    ASSUME IInv, NEW a \in Attempt, Receive(a)
    PROVE  IInv'
  <1>1. ClientTypeOK'
    BY DEF IInv, Receive, callbackVars, TypeOK, ClientTypeOK, Listening
  <1>2. CallbackTypeOK'
    BY DEF IInv, Receive, callbackVars, TypeOK, CallbackTypeOK
  <1>3. ExchangeTypeOK'
    BY DEF IInv, Receive, callbackVars, TypeOK, ExchangeTypeOK
  <1>4. CallbackInv'
    BY DEF IInv, Receive, callbackVars, CallbackInv
  <1>5. ConsentInv'
    BY DEF IInv, Receive, callbackVars, ConsentInv
  <1>6. CodeInv'
    BY DEF IInv, Receive, callbackVars, CodeInv, Ready
  <1>7. ClientInv'
    BY DEF IInv, Receive, callbackVars, TypeOK, ClientTypeOK, ClientInv, Owner
  <1>8. KeyInv'
    BY DEF IInv, Receive, callbackVars, Grant, KeyInv, ClientInv, Ready
  <1> QED BY <1>1, <1>2, <1>3, <1>4, <1>5, <1>6, <1>7, <1>8 DEF IInv, TypeOK

LEMMA ReceiveErrorStep ==
    ASSUME IInv, NEW a \in Attempt, ReceiveError(a)
    PROVE  IInv'
  <1>1. ClientTypeOK'
    BY DEF IInv, ReceiveError, callbackVars, exchangeVars, TypeOK, ClientTypeOK, Listening
  <1>2. CallbackTypeOK'
    BY DEF IInv, ReceiveError, callbackVars, TypeOK, CallbackTypeOK
  <1>3. ExchangeTypeOK'
    BY DEF IInv, ReceiveError, callbackVars, exchangeVars, TypeOK, ExchangeTypeOK
  <1>4. CallbackInv'
    BY DEF IInv, ReceiveError, callbackVars, CallbackInv
  <1>5. ConsentInv'
    BY DEF IInv, ReceiveError, callbackVars, ConsentInv
  <1>6. CodeInv'
    BY DEF IInv, ReceiveError, callbackVars, CodeInv, Ready
  <1>7. ClientInv'
    BY DEF IInv, ReceiveError, callbackVars, exchangeVars, ClientInv, Owner
  <1>8. KeyInv'
    BY DEF IInv, ReceiveError, callbackVars, exchangeVars, KeyInv, Ready
  <1> QED BY <1>1, <1>2, <1>3, <1>4, <1>5, <1>6, <1>7, <1>8 DEF IInv, TypeOK

LEMMA TimeoutStep ==
    ASSUME IInv, NEW a \in Attempt, Timeout(a)
    PROVE  IInv'
  <1>1. ClientTypeOK'
    BY DEF IInv, Timeout, callbackVars, exchangeVars, TypeOK, ClientTypeOK, Listening
  <1>2. CallbackTypeOK'
    BY DEF IInv, Timeout, callbackVars, TypeOK, CallbackTypeOK
  <1>3. ExchangeTypeOK'
    BY DEF IInv, Timeout, callbackVars, exchangeVars, TypeOK, ExchangeTypeOK
  <1>4. CallbackInv'
    BY DEF IInv, Timeout, callbackVars, CallbackInv
  <1>5. ConsentInv'
    BY DEF IInv, Timeout, callbackVars, ConsentInv
  <1>6. CodeInv'
    BY DEF IInv, Timeout, callbackVars, CodeInv, Ready
  <1>7. ClientInv'
    BY DEF IInv, Timeout, callbackVars, exchangeVars, ClientInv, Owner
  <1>8. KeyInv'
    BY DEF IInv, Timeout, callbackVars, exchangeVars, KeyInv, Ready
  <1> QED BY <1>1, <1>2, <1>3, <1>4, <1>5, <1>6, <1>7, <1>8 DEF IInv, TypeOK

LEMMA SaveTokenStep ==
    ASSUME IInv, NEW a \in Attempt, SaveToken(a)
    PROVE  IInv'
  <1>1. ClientTypeOK'
    <2>1. Len(keys) \in Nat /\ hand[a] \in 1..Len(keys) /\ token \in 0..Len(keys)
      BY DEF IInv, TypeOK, ClientTypeOK, ClientInv, SaveToken
    <2>2. token' \in 0..Len(keys)
      BY <2>1 DEF SaveToken
    <2>3. /\ phase' \in {[phase EXCEPT ![a] = "connected"], [phase EXCEPT ![a] = "failed"]}
          /\ UNCHANGED <<port, codes, errs, hand, issued, keys>>
      BY DEF SaveToken, callbackVars, exchangeVars
    <2> QED BY <2>2, <2>3 DEF IInv, TypeOK, ClientTypeOK, Listening
  <1>2. CallbackTypeOK'
    BY DEF IInv, SaveToken, callbackVars, TypeOK, CallbackTypeOK
  <1>3. ExchangeTypeOK'
    BY DEF IInv, SaveToken, callbackVars, exchangeVars, TypeOK, ExchangeTypeOK
  <1>4. CallbackInv'
    BY DEF IInv, SaveToken, callbackVars, CallbackInv
  <1>5. ConsentInv'
    BY DEF IInv, SaveToken, callbackVars, ConsentInv
  <1>6. CodeInv'
    BY DEF IInv, SaveToken, callbackVars, CodeInv, Ready
  <1>7. ClientInv'
    BY DEF IInv, SaveToken, callbackVars, exchangeVars, TypeOK, ClientTypeOK, ClientInv, Owner
  <1>8. KeyInv'
    BY DEF IInv, SaveToken, callbackVars, exchangeVars, KeyInv, Ready
  <1> QED BY <1>1, <1>2, <1>3, <1>4, <1>5, <1>6, <1>7, <1>8 DEF IInv, TypeOK

LEMMA TakeAuthCodeStep ==
    ASSUME IInv, NEW a \in Attempt, TakeAuthCode(a)
    PROVE  IInv'
  <1>1. ClientTypeOK'
    BY DEF IInv, TakeAuthCode, clientVars, callbackVars, TypeOK, ClientTypeOK, Listening
  <1>2. CallbackTypeOK'
    BY DEF IInv, TakeAuthCode, callbackVars, TypeOK, CallbackTypeOK
  <1>3. ExchangeTypeOK'
    <2>1. CASE ex' = [ex EXCEPT ![a] = "key"]
      BY <2>1, SignInAssumption DEF IInv, TakeAuthCode, callbackVars, clientVars, TypeOK,
         ClientTypeOK, CallbackTypeOK, ExchangeTypeOK
    <2>2. CASE ex' = [ex EXCEPT ![a] = "refuse"]
      BY <2>2, SignInAssumption DEF IInv, TakeAuthCode, callbackVars, clientVars, TypeOK,
         ClientTypeOK, CallbackTypeOK, ExchangeTypeOK
    <2> QED BY <2>1, <2>2 DEF TakeAuthCode
  <1>4. CallbackInv'
    BY DEF IInv, TakeAuthCode, callbackVars, CallbackInv
  <1>5. ConsentInv'
    BY DEF IInv, TakeAuthCode, callbackVars, ConsentInv
  <1>6. CodeInv'
    BY DEF IInv, TakeAuthCode, callbackVars, CodeInv, Ready
  <1>7. ClientInv'
    BY DEF IInv, TakeAuthCode, clientVars, callbackVars, TypeOK, ExchangeTypeOK, ClientInv,
       Owner
  <1>8. KeyInv'
    <2>1. CASE ex' = [ex EXCEPT ![a] = "key"]
      BY <2>1 DEF IInv, TakeAuthCode, callbackVars, KeyInv, Ready
    <2>2. CASE ex' = [ex EXCEPT ![a] = "refuse"]
      BY <2>2 DEF IInv, TakeAuthCode, callbackVars, KeyInv, Ready
    <2> QED BY <2>1, <2>2 DEF TakeAuthCode
  <1> QED BY <1>1, <1>2, <1>3, <1>4, <1>5, <1>6, <1>7, <1>8 DEF IInv, TypeOK

LEMMA CreateAPIKeyStep ==
    ASSUME IInv, NEW a \in Attempt, CreateAPIKey(a)
    PROVE  IInv'
  <1>1. ClientTypeOK'
    BY DEF IInv, CreateAPIKey, callbackVars, TypeOK, ClientTypeOK, Listening
  <1>2. CallbackTypeOK'
    BY DEF IInv, CreateAPIKey, callbackVars, TypeOK, CallbackTypeOK
  <1>3. ExchangeTypeOK'
    <2>1. issued[hand[a]] \in Grant
      BY DEF IInv, TypeOK, CallbackTypeOK, ClientInv, CreateAPIKey
    <2>2. keys' \in Seq(Grant)
      BY <2>1 DEF IInv, TypeOK, ExchangeTypeOK, CreateAPIKey
    <2>3. ex' \in [Attempt -> {"none", "take", "key", "answer", "refuse", "done"}]
      BY DEF IInv, TypeOK, ExchangeTypeOK, CreateAPIKey
    <2> QED BY <2>2 DEF IInv, TypeOK, ExchangeTypeOK, CreateAPIKey, callbackVars
  <1>4. CallbackInv'
    BY DEF IInv, CreateAPIKey, callbackVars, CallbackInv
  <1>5. ConsentInv'
    BY DEF IInv, CreateAPIKey, callbackVars, ConsentInv
  <1>6. CodeInv'
    BY DEF IInv, CreateAPIKey, callbackVars, CodeInv, Ready
  <1>7. ClientInv'
    BY DEF IInv, CreateAPIKey, callbackVars, TypeOK, ClientTypeOK, ExchangeTypeOK, ClientInv,
       Owner
  <1>8. KeyInv'
    <2>1. /\ keys \in Seq(Grant) /\ Len(keys) \in Nat
          /\ hand[a] \in 1..Len(issued) /\ asked[issued[hand[a]].login] = a
          /\ Ready(issued[hand[a]]) /\ ex[a] = "key"
      BY DEF IInv, TypeOK, ExchangeTypeOK, ClientInv, CodeInv, Owner, CreateAPIKey
    <2>2. /\ Len(keys') = Len(keys) + 1
          /\ \A k \in 1..Len(keys) : keys'[k] = keys[k]
          /\ keys'[Len(keys) + 1] = issued[hand[a]]
      BY DEF CreateAPIKey
    <2>3. /\ ex' = [ex EXCEPT ![a] = "answer"]
          /\ UNCHANGED <<users, granted, consent, asked>>
      BY DEF CreateAPIKey, callbackVars
    <2>4. ASSUME NEW k \in 1..Len(keys)
          PROVE  /\ Ready(keys[k]) /\ asked[keys[k].login] \in Attempt \ {a}
                 /\ ex[asked[keys[k].login]] \in {"answer", "refuse", "done"}
      <3>1. keys[k] \in Grant
        BY <2>1
      <3>4. keys[k].login \in Login
        BY <3>1 DEF Grant
      <3>2. Ready(keys[k]) /\ ex[asked[keys[k].login]] \in {"answer", "refuse", "done"}
        BY DEF IInv, KeyInv
      <3>3. asked[keys[k].login] \in Attempt
        BY <3>2, <3>4 DEF IInv, TypeOK, CallbackTypeOK, Ready
      <3> QED BY <2>1, <3>2, <3>3
    <2>5. \A k \in 1..Len(keys') : k \in 1..Len(keys) \/ k = Len(keys) + 1
      BY <2>2
    <2>6. \A k \in 1..Len(keys') :
            Ready(keys'[k]) /\ ex'[asked[keys'[k].login]] \in {"answer", "refuse", "done"}
      BY <2>1, <2>2, <2>3, <2>4 DEF IInv, TypeOK, ExchangeTypeOK
    <2>7. \A j, k \in 1..Len(keys') : asked[keys'[j].login] = asked[keys'[k].login] => j = k
      BY <2>1, <2>2, <2>5 DEF IInv, KeyInv
    <2> QED BY <2>3, <2>6, <2>7 DEF KeyInv, Ready
  <1> QED BY <1>1, <1>2, <1>3, <1>4, <1>5, <1>6, <1>7, <1>8 DEF IInv, TypeOK

LEMMA ExchangeFailsStep ==
    ASSUME IInv, NEW a \in Attempt, ExchangeFails(a)
    PROVE  IInv'
  <1>1. ClientTypeOK'
    BY DEF IInv, ExchangeFails, clientVars, callbackVars, TypeOK, ClientTypeOK, Listening
  <1>2. CallbackTypeOK'
    BY DEF IInv, ExchangeFails, callbackVars, TypeOK, CallbackTypeOK
  <1>3. ExchangeTypeOK'
    BY DEF IInv, ExchangeFails, callbackVars, TypeOK, ExchangeTypeOK
  <1>4. CallbackInv'
    BY DEF IInv, ExchangeFails, callbackVars, CallbackInv
  <1>5. ConsentInv'
    BY DEF IInv, ExchangeFails, callbackVars, ConsentInv
  <1>6. CodeInv'
    BY DEF IInv, ExchangeFails, callbackVars, CodeInv, Ready
  <1>7. ClientInv'
    BY DEF IInv, ExchangeFails, clientVars, callbackVars, ClientInv, Owner
  <1>8. KeyInv'
    BY DEF IInv, ExchangeFails, callbackVars, KeyInv, Ready
  <1> QED BY <1>1, <1>2, <1>3, <1>4, <1>5, <1>6, <1>7, <1>8 DEF IInv, TypeOK

LEMMA AnswerStep ==
    ASSUME IInv, NEW a \in Attempt, Answer(a)
    PROVE  IInv'
  <1>1. ClientTypeOK'
    BY DEF IInv, Answer, callbackVars, TypeOK, ClientTypeOK, Listening
  <1>2. CallbackTypeOK'
    BY DEF IInv, Answer, callbackVars, TypeOK, CallbackTypeOK
  <1>3. ExchangeTypeOK'
    BY DEF IInv, Answer, callbackVars, TypeOK, ExchangeTypeOK
  <1>4. CallbackInv'
    BY DEF IInv, Answer, callbackVars, CallbackInv
  <1>5. ConsentInv'
    BY DEF IInv, Answer, callbackVars, ConsentInv
  <1>6. CodeInv'
    BY DEF IInv, Answer, callbackVars, CodeInv, Ready
  <1>7. ClientInv'
    BY DEF IInv, Answer, callbackVars, TypeOK, ExchangeTypeOK, ClientInv, Owner
  <1>8. KeyInv'
    BY DEF IInv, Answer, callbackVars, KeyInv, Ready
  <1> QED BY <1>1, <1>2, <1>3, <1>4, <1>5, <1>6, <1>7, <1>8 DEF IInv, TypeOK

LEMMA NextIInv == IInv /\ [Next]_vars => IInv'
  <1> SUFFICES ASSUME IInv, [Next]_vars PROVE IInv'
    OBVIOUS
  <1>1. CASE Browse
    BY <1>1, StartStep, OpenPageStep, CallbackStep, ListenerFailsStep, DeliverStep DEF Browse
  <1>2. ASSUME NEW h \in Handler, Handle(h) PROVE IInv'
    BY <1>2, TakePendingAuthStep, AdmitStep, FindUserStep, CreateUserStep, StoreGrantStep,
       IssueCodeStep, FailStep DEF Handle
  <1>3. ASSUME NEW a \in Attempt, Connect(a) PROVE IInv'
    BY <1>3, ReceiveStep, ReceiveErrorStep, TimeoutStep, SaveTokenStep DEF Connect
  <1>4. ASSUME NEW a \in Attempt, Exchange(a) PROVE IInv'
    BY <1>4, TakeAuthCodeStep, CreateAPIKeyStep, ExchangeFailsStep, AnswerStep DEF Exchange
  <1>5. CASE UNCHANGED vars
    BY <1>5 DEF vars, clientVars, callbackVars, exchangeVars, IInv, TypeOK, ClientTypeOK,
       CallbackTypeOK, ExchangeTypeOK, CallbackInv, ConsentInv, CodeInv, ClientInv, KeyInv,
       Ready, Owner, Listening
  <1> QED BY <1>1, <1>2, <1>3, <1>4, <1>5 DEF Next

LEMMA IInvAlways == Spec => []IInv
  BY InitIInv, NextIInv, PTL DEF Spec

-----------------------------------------------------------------------------

\* Every reachable state is typed, and no two listeners share a port.
THEOREM SignInTypeCorrect == Spec => []TypeOK
  <1>1. IInv => TypeOK BY DEF IInv
  <1> QED BY <1>1, IInvAlways, PTL

\* Whatever the browser delivers and to whom, an attempt exchanges a code of its own
\* (callbackHandler compares the state).
THEOREM ExchangeIsOwnAlways == Spec => []ExchangeIsOwn
  <1>1. IInv => ExchangeIsOwn BY DEF IInv, ClientInv, ExchangeIsOwn
  <1> QED BY <1>1, IInvAlways, PTL

\* The key that is saved is that of a registered, admitted account with a grant
\* (the order of callback and exchange).
THEOREM KeyIsReadyAlways == Spec => []KeyIsReady
  <1>1. IInv => KeyIsReady
    <2> SUFFICES ASSUME IInv, token # 0
                 PROVE keys[token].account \in users \cap granted \cap Allowed
      BY DEF KeyIsReady
    <2>1. token \in 1..Len(keys)
      BY DEF IInv, TypeOK, ClientTypeOK
    <2> QED BY <2>1 DEF IInv, KeyInv, Ready
  <1> QED BY <1>1, IInvAlways, PTL

-----------------------------------------------------------------------------
(* Sign-in implements Voucher. *)

\* The keys a login bought for an account, and how many, as Voucher counts them.
KeysOf(p, u) == {k \in 1..Len(keys) : keys[k] = [login |-> p, account |-> u]}

Sold == [p \in Login |-> [u \in Account |-> Cardinality(KeysOf(p, u))]]

LEMMA InitVoucher == Init => Consents!Init
  <1> SUFFICES ASSUME Init PROVE Consents!Init
    OBVIOUS
  <1>1. ASSUME NEW p \in Login, NEW u \in Account PROVE Cardinality(KeysOf(p, u)) = 0
    <2>1. KeysOf(p, u) = {}
      BY DEF Init, KeysOf
    <2> QED BY <2>1, FS_EmptySet
  <1> QED BY <1>1 DEF Init, Consents!Init, KeysOf

LEMMA BuyVoucher ==
    ASSUME IInv, NEW a \in Attempt, CreateAPIKey(a)
    PROVE  \E p \in Login : Consents!Buy(p)
  <1>1. PICK p \in Login, u \in Account : issued[hand[a]] = [login |-> p, account |-> u]
    <2>1. issued[hand[a]] \in Grant
      BY DEF IInv, TypeOK, CallbackTypeOK, ClientInv, CreateAPIKey
    <2> QED BY <2>1 DEF Grant
  <1>2. /\ keys \in Seq(Grant) /\ Len(keys) \in Nat
        /\ asked[p] = a /\ ex[a] = "key" /\ consent[p] = u
    BY <1>1 DEF IInv, TypeOK, ExchangeTypeOK, ClientInv, CodeInv, Ready, Owner, CreateAPIKey
  <1>3. /\ Len(keys') = Len(keys) + 1
        /\ \A k \in 1..Len(keys) : keys'[k] = keys[k]
        /\ keys'[Len(keys) + 1] = [login |-> p, account |-> u]
    BY <1>1 DEF CreateAPIKey
  <1>4. consent' = consent
    BY DEF CreateAPIKey, callbackVars
  <1>5. \A k \in 1..Len(keys) : keys[k].login # p
    BY <1>2 DEF IInv, KeyInv
  <1>6. ASSUME NEW q \in Login, NEW v \in Account
        PROVE  KeysOf(q, v)' = KeysOf(q, v) \cup (IF q = p /\ v = u THEN {Len(keys) + 1} ELSE {})
    <2>1. \A k \in 1..Len(keys') : k \in 1..Len(keys) \/ k = Len(keys) + 1
      BY <1>3
    <2>2. 1..Len(keys) \cup {Len(keys) + 1} \subseteq 1..Len(keys')
      BY <1>3
    <2>3. [login |-> p, account |-> u] = [login |-> q, account |-> v] <=> q = p /\ v = u
      OBVIOUS
    <2> QED BY <1>3 DEF KeysOf
  <1>7. KeysOf(p, u) = {}
    BY <1>5 DEF KeysOf
  <1>8. Cardinality(KeysOf(p, u)) = 0 /\ Cardinality(KeysOf(p, u)') = 1
    <2>1. KeysOf(p, u)' = {Len(keys) + 1}
      BY <1>6, <1>7
    <2> QED BY <1>7, <2>1, FS_EmptySet, FS_Singleton
  <1>9. Sold' = [Sold EXCEPT ![p][u] = 1]
    <2> DEFINE n(q, v) == Cardinality(KeysOf(q, v))
               m(q, v) == Cardinality(KeysOf(q, v)')
    <2>1. /\ Sold = [q \in Login |-> [v \in Account |-> n(q, v)]]
          /\ Sold' = [q \in Login |-> [v \in Account |-> m(q, v)]]
      BY DEF Sold
    <2>2. \A q \in Login, v \in Account : ~(q = p /\ v = u) => m(q, v) = n(q, v)
      BY <1>6
    <2>3. m(p, u) = 1
      BY <1>8
    <2> HIDE DEF n, m
    <2> QED BY <2>1, <2>2, <2>3
  <1>10. consent[p] # None /\ Sold[p][consent[p]] = 0
    BY <1>2, <1>8, SignInAssumption DEF Sold
  <1>11. Consents!Buy(p)
    BY <1>2, <1>4, <1>9, <1>10 DEF Consents!Buy, Sold, KeysOf
  <1> QED BY <1>11

LEMMA StepVoucher == IInv /\ [Next]_vars => [Consents!Next]_Consents!voucherVars
  <1> SUFFICES ASSUME IInv, [Next]_vars PROVE [Consents!Next]_Consents!voucherVars
    OBVIOUS
  <1>1. CASE \E a \in Attempt : CreateAPIKey(a)
    BY <1>1, BuyVoucher DEF Consents!Next
  <1>2. ASSUME NEW h \in Handler, Admit(h) PROVE Consents!Next
    <2>1. login[h] \in Login /\ who[h] \in Account /\ consent[login[h]] = None
      BY <1>2 DEF IInv, CallbackInv, ConsentInv, Admit
    <2>2. consent' = [consent EXCEPT ![login[h]] = who[h]] /\ UNCHANGED keys
      BY <1>2 DEF Admit, exchangeVars
    <2>3. Consents!MakeOut(login[h], who[h])
      BY <2>1, <2>2 DEF Consents!MakeOut
    <2> QED BY <2>1, <2>3 DEF Consents!Next
  <1>3. CASE UNCHANGED <<consent, keys>>
    BY <1>3 DEF Consents!voucherVars
  <1> QED
    BY <1>1, <1>2, <1>3 DEF vars, Next, Browse, Handle, Connect, Exchange, Start, OpenPage,
       Callback, ListenerFails, Deliver, TakePendingAuth, FindUser, CreateUser, StoreGrant,
       IssueCode, Fail, Receive, ReceiveError, Timeout, SaveToken, TakeAuthCode, ExchangeFails,
       Answer, clientVars, callbackVars, exchangeVars

\* However callbacks are reloaded and raced, a consent buys one key, and only for
\* the account that gave it (TakePendingAuth, TakeAuthCode).
THEOREM ImplementsTheVoucher == Spec => ImplementsVoucher
  BY InitVoucher, StepVoucher, IInvAlways, PTL DEF Spec, ImplementsVoucher, Consents!Spec

=============================================================================
