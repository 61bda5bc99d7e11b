----------------------------- MODULE Local_proofs -----------------------------
(***************************************************************************)
(* Proofs about what a machine does with its files alone: how programs     *)
(* open and upgrade tasks.db and daemons write documents (Offline), for any *)
(* number of them, and what is reported of the rows (Reports), for any     *)
(* clocks and any number of sessions.                                      *)
(*                                                                         *)
(* Three invariants carry them.  Upgraded says how far the columns are at   *)
(* each step of OpenAt, whoever else upgrades.  Written follows a file from  *)
(* the call that opens it to the record: a daemon that no other one has      *)
(* disturbed finds its own document, and a settled document has no writer.   *)
(* AsFormatted says that a row keeps the text of the instant it began.      *)
(* From there the reports need two kinds of facts: that midnights, as the   *)
(* program computes them, divide texts as they divide instants, and that    *)
(* sums over a finite set do not depend on how it is divided.               *)
(***************************************************************************)
EXTENDS Offline, Reports, FiniteSetTheorems, TLAPS

-----------------------------------------------------------------------------
(* Sums. *)

\* Induction on the subsets of a finite set: what holds of a set whenever it holds of all
\* its proper subsets holds of every subset.  Good is the set of those of which it holds,
\* so no operator has to be instantiated.
LEMMA SubsetsByInduction ==
    ASSUME NEW D, IsFiniteSet(D), NEW Good,
           \A U \in SUBSET D : (\A V \in SUBSET U : V # U => V \in Good) => U \in Good
    PROVE  \A U \in SUBSET D : U \in Good
  <1> DEFINE Bad == {U \in SUBSET D : U \notin Good}
             R == StrictSubsetOrdering(D)
  <1> SUFFICES ASSUME Bad # {} PROVE FALSE
    OBVIOUS
  <1>1. IsWellFoundedOn(R, SUBSET D)
    <2>1. FiniteSubsetsOf(D) = SUBSET D
      BY FS_FiniteSubsetsOfFinite
    <2>2. IsWellFoundedOn(StrictSubsetOrdering(D), FiniteSubsetsOf(D))
      BY FS_StrictSubsetOrderingWellFounded
    <2> QED BY <2>1, <2>2
  <1>2. Bad \subseteq SUBSET D
    OBVIOUS
  <1>3. PICK U \in Bad : \A V \in Bad : ~ (<<V, U>> \in R)
    <2> HIDE DEF Bad, R
    <2> QED BY <1>1, <1>2, WFMin
  <1>4. \A V \in SUBSET U : V # U => V \in Good
    BY <1>3 DEF StrictSubsetOrdering
  <1> QED BY <1>4

\* The recursive function that SumFunctionOnSet chooses, for the subsets of D.
OneOf(s) == CHOOSE x \in s : TRUE
Sums(g, f, D) == g = [s \in SUBSET D |-> IF s = {} THEN 0 ELSE f[OneOf(s)] + g[s \ {OneOf(s)}]]

\* What SumFunctionOnSet(f, D) stands for.
LEMMA SumIs ==
    ASSUME NEW f, NEW D
    PROVE  SumFunctionOnSet(f, D) = (CHOOSE g : Sums(g, f, D))[D]
  BY DEF SumFunctionOnSet, FoldFunctionOnSet, MapThenFoldSet, Sums, OneOf

\* Two such functions agree where both are defined.
LEMMA SumsAreOne ==
    ASSUME NEW D, IsFiniteSet(D), NEW f, NEW g, NEW h, NEW E \in SUBSET D,
           Sums(g, f, D), Sums(h, f, E)
    PROVE  \A U \in SUBSET E : g[U] = h[U]
  <1> DEFINE Good == {U \in SUBSET E : g[U] = h[U]}
  <1>1. IsFiniteSet(E)
    BY FS_Subset
  <1>2. ASSUME NEW U \in SUBSET E, \A V \in SUBSET U : V # U => V \in Good
        PROVE  U \in Good
    <2>1. CASE U = {}
      BY <2>1 DEF Sums
    <2>2. CASE U # {}
      <3>1. OneOf(U) \in U
        BY <2>2 DEF OneOf
      <3>2. U \ {OneOf(U)} \in Good
        BY <1>2, <3>1
      <3>3. /\ g[U] = f[OneOf(U)] + g[U \ {OneOf(U)}]
            /\ h[U] = f[OneOf(U)] + h[U \ {OneOf(U)}]
        BY <2>2 DEF Sums
      <3> QED BY <3>2, <3>3
    <2> QED BY <2>1, <2>2
  <1>3. \A U \in SUBSET E : U \in Good
    <2> HIDE DEF Good
    <2> QED BY <1>1, <1>2, SubsetsByInduction
  <1> QED BY <1>3

\* And there is one, made of those of the proper subsets.
LEMMA SumsExist ==
    ASSUME NEW D, IsFiniteSet(D), NEW f
    PROVE  \E g : Sums(g, f, D)
  <1> DEFINE Good == {U \in SUBSET D : \E g : Sums(g, f, U)}
  <1>1. ASSUME NEW U \in SUBSET D, \A V \in SUBSET U : V # U => V \in Good
        PROVE  U \in Good
    <2> DEFINE s(V) == CHOOSE g : Sums(g, f, V)
               x == OneOf(U)
               G == [V \in SUBSET U |-> IF V = {} THEN 0
                        ELSE IF V # U THEN s(V)[V] ELSE f[x] + s(U \ {x})[U \ {x}]]
    <2>1. \A V \in SUBSET U : V # U => Sums(s(V), f, V)
      BY <1>1
    <2>2. IsFiniteSet(U)
      BY FS_Subset
    <2>3. \A V \in SUBSET U : V # U => \A W \in SUBSET V : s(V)[W] = s(W)[W]
      <3> SUFFICES ASSUME NEW V \in SUBSET U, NEW W \in SUBSET V, V # U
                   PROVE  s(V)[W] = s(W)[W]
        OBVIOUS
      <3>1. Sums(s(V), f, V) /\ Sums(s(W), f, W) /\ IsFiniteSet(V)
        BY <2>1, <2>2, FS_Subset
      <3> HIDE DEF s
      <3> QED BY <3>1, SumsAreOne
    <2>4. ASSUME NEW V \in SUBSET U, V # {}
          PROVE  G[V] = f[OneOf(V)] + G[V \ {OneOf(V)}]
      <3> DEFINE y == OneOf(V)
                 W == V \ {y}
      <3>1. y \in V /\ W \in SUBSET V /\ W # U
        BY <2>4 DEF OneOf
      <3>2. G[W] = s(W)[W]
        <4>1. Sums(s(W), f, W)
          BY <2>1, <3>1
        <4>2. W = {} => s(W)[W] = 0
          BY <4>1 DEF Sums
        <4> HIDE DEF s, W
        <4> QED BY <4>2, <3>1
      <3>3. CASE V = U
        BY <3>2, <3>3, <2>4
      <3>4. CASE V # U
        <4>1. Sums(s(V), f, V)
          BY <2>1, <3>4
        <4>2. s(V)[V] = f[y] + s(V)[W]
          BY <4>1, <2>4, <3>1 DEF Sums
        <4>3. s(V)[W] = s(W)[W]
          BY <2>3, <3>1, <3>4
        <4>4. G[V] = s(V)[V]
          BY <2>4, <3>4
        <4> HIDE DEF s, G, W, y
        <4> QED BY <3>2, <4>2, <4>3, <4>4 DEF y, W
      <3> QED BY <3>3, <3>4
    <2>5. Sums(G, f, U)
      <3>1. G[{}] = 0
        OBVIOUS
      <3>2. G = [V \in SUBSET U |-> G[V]]
        OBVIOUS
      <3> HIDE DEF G
      <3> QED BY <2>4, <3>1, <3>2 DEF Sums
    <2> QED BY <2>5
  <1>2. D \in Good
    <2> HIDE DEF Good
    <2> QED BY <1>1, SubsetsByInduction
  <1> QED BY <1>2

\* One function gives the sums over all parts of a finite set.
LEMMA SumOfPart ==
    ASSUME NEW D, IsFiniteSet(D), NEW f
    PROVE  \E g : Sums(g, f, D) /\ \A U \in SUBSET D : SumFunctionOnSet(f, U) = g[U]
  <1>1. PICK g : Sums(g, f, D)
    BY SumsExist
  <1>2. ASSUME NEW U \in SUBSET D
        PROVE  SumFunctionOnSet(f, U) = g[U]
    <2> DEFINE h == CHOOSE h : Sums(h, f, U)
    <2>1. IsFiniteSet(U)
      BY FS_Subset
    <2>2. Sums(h, f, U)
      BY <2>1, SumsExist
    <2>3. g[U] = h[U]
      <3> HIDE DEF h
      <3> QED BY <1>1, <2>2, SumsAreOne
    <2> QED BY <2>3, SumIs
  <1> QED BY <1>1, <1>2

\* f gives every element of D an integer.
Numbers(f, D) == \A x \in D : f[x] \in Int

\* There is nothing in the empty sum.
LEMMA SumOfEmpty == \A f : SumFunctionOnSet(f, {}) = 0
  <1> TAKE f
  <1>1. IsFiniteSet({})
    BY FS_EmptySet
  <1>2. PICK g : Sums(g, f, {}) /\ \A U \in SUBSET {} : SumFunctionOnSet(f, U) = g[U]
    BY <1>1, SumOfPart
  <1> QED BY <1>2 DEF Sums

\* Any element may be taken out of a sum first, not only the one CHOOSE takes.
LEMMA SumLess ==
    ASSUME NEW D, IsFiniteSet(D), NEW f, Numbers(f, D)
    PROVE  /\ SumFunctionOnSet(f, D) \in Int
           /\ \A x \in D : SumFunctionOnSet(f, D) = f[x] + SumFunctionOnSet(f, D \ {x})
  <1>1. PICK g : Sums(g, f, D) /\ \A U \in SUBSET D : SumFunctionOnSet(f, U) = g[U]
    BY SumOfPart
  <1> DEFINE Good == {U \in SUBSET D : g[U] \in Int /\ \A x \in U : g[U] = f[x] + g[U \ {x}]}
  <1>2. ASSUME NEW U \in SUBSET D, \A V \in SUBSET U : V # U => V \in Good
        PROVE  U \in Good
    <2>1. CASE U = {}
      BY <1>1, <2>1 DEF Sums
    <2>2. CASE U # {}
      <3> DEFINE y == OneOf(U)
      <3>1. y \in U
        BY <2>2 DEF OneOf
      <3>2. g[U] = f[y] + g[U \ {y}] /\ U \ {y} \in Good /\ f[y] \in Int
        BY <1>1, <1>2, <2>2, <3>1 DEF Sums, Numbers
      <3> HIDE DEF y
      <3>3. ASSUME NEW x \in U, x # y
            PROVE  g[U] = f[x] + g[U \ {x}]
        <4> DEFINE W == U \ {x, y}
        <4>1. U \ {x} \in Good /\ W \in Good
          BY <1>2, <3>1
        <4>2. W = (U \ {y}) \ {x} /\ W = (U \ {x}) \ {y}
          OBVIOUS
        <4> HIDE DEF W
        <4>3. g[U \ {y}] = f[x] + g[W] /\ g[U \ {x}] = f[y] + g[W]
          BY <3>1, <3>2, <3>3, <4>1, <4>2
        <4>4. g[W] \in Int /\ f[x] \in Int
          BY <4>1 DEF Numbers
        <4> QED BY <3>2, <4>3, <4>4
      <3>4. g[U] \in Int
        BY <3>2
      <3> QED BY <3>2, <3>3, <3>4
    <2> QED BY <2>1, <2>2
  <1>3. D \in Good
    <2> HIDE DEF Good
    <2> QED BY <1>2, SubsetsByInduction
  <1> QED BY <1>1, <1>3

\* A sum depends on its terms only.
LEMMA SumAgrees ==
    ASSUME NEW D, IsFiniteSet(D), NEW f, NEW h, Numbers(f, D), \A x \in D : f[x] = h[x]
    PROVE  SumFunctionOnSet(f, D) = SumFunctionOnSet(h, D)
  <1> DEFINE F(U) == SumFunctionOnSet(f, U)
             H(U) == SumFunctionOnSet(h, U)
             Good == {U \in SUBSET D : F(U) = H(U)}
  <1>1. ASSUME NEW U \in SUBSET D, \A V \in SUBSET U : V # U => V \in Good
        PROVE  U \in Good
    <2>1. CASE U = {}
      BY <2>1, SumOfEmpty
    <2>2. CASE U # {}
      <3>1. PICK x \in U : TRUE
        BY <2>2
      <3>2. IsFiniteSet(U) /\ Numbers(f, U) /\ Numbers(h, U)
        BY FS_Subset DEF Numbers
      <3>3. F(U) = f[x] + F(U \ {x}) /\ H(U) = h[x] + H(U \ {x})
        BY <3>2, SumLess
      <3>4. F(U \ {x}) = H(U \ {x})
        BY <1>1, <3>1
      <3> QED BY <3>3, <3>4
    <2> QED BY <2>1, <2>2
  <1>2. D \in Good
    <2> HIDE DEF Good
    <2> QED BY <1>1, SubsetsByInduction
  <1> QED BY <1>2

\* The sum over two disjoint sets is that of the two sums.
LEMMA SumOfUnion ==
    ASSUME NEW A, NEW B, IsFiniteSet(A), IsFiniteSet(B), A \cap B = {}, NEW f, Numbers(f, A \cup B)
    PROVE  SumFunctionOnSet(f, A \cup B) = SumFunctionOnSet(f, A) + SumFunctionOnSet(f, B)
  <1> DEFINE F(U) == SumFunctionOnSet(f, U)
             Good == {U \in SUBSET A : F(U \cup B) = F(U) + F(B)}
  <1>1. F(B) \in Int
    BY SumLess DEF Numbers
  <1>2. ASSUME NEW U \in SUBSET A, \A V \in SUBSET U : V # U => V \in Good
        PROVE  U \in Good
    <2>1. CASE U = {}
      <3>1. {} \cup B = B
        OBVIOUS
      <3> QED BY <1>1, <2>1, <3>1, SumOfEmpty
    <2>2. CASE U # {}
      <3>1. PICK x \in U : TRUE
        BY <2>2
      <3>2. IsFiniteSet(U) /\ Numbers(f, U) /\ IsFiniteSet(U \cup B) /\ Numbers(f, U \cup B)
        BY FS_Subset, FS_Union DEF Numbers
      <3>3. F(U) = f[x] + F(U \ {x}) /\ F(U \cup B) = f[x] + F((U \cup B) \ {x})
        BY <3>2, SumLess
      <3>4. (U \cup B) \ {x} = (U \ {x}) \cup B
        BY <3>1
      <3>5. F((U \ {x}) \cup B) = F(U \ {x}) + F(B)
        BY <1>2, <3>1
      <3>6. IsFiniteSet(U \ {x}) /\ Numbers(f, U \ {x})
        BY <3>2, FS_Subset DEF Numbers
      <3>7. F(U \ {x}) \in Int /\ f[x] \in Int
        BY <3>2, <3>6, SumLess DEF Numbers
      <3>8. F(U \cup B) = f[x] + F((U \ {x}) \cup B)
        BY <3>3, <3>4
      <3>9. F(U \cup B) = F(U) + F(B)
        BY <1>1, <3>3, <3>5, <3>7, <3>8
      <3> QED BY <3>9
    <2> QED BY <2>1, <2>2
  <1>3. A \in Good
    <2> HIDE DEF Good
    <2> QED BY <1>2, SubsetsByInduction
  <1> QED BY <1>3

\* Sorting the terms by a key and adding up class by class gives the same sum.
LEMMA SumOfClasses ==
    ASSUME NEW S, IsFiniteSet(S), NEW f, Numbers(f, S),
           NEW I, IsFiniteSet(I), NEW k, \A x \in S : k[x] \in I,
           NEW b, \A i \in I : b[i] = SumFunctionOnSet(f, {x \in S : k[x] = i})
    PROVE  SumFunctionOnSet(b, I) = SumFunctionOnSet(f, S)
  <1> DEFINE F(U) == SumFunctionOnSet(f, U)
             class(U, i) == {x \in U : k[x] = i}
             c(U) == [i \in I |-> F(class(U, i))]
             C(U) == SumFunctionOnSet(c(U), I)
             Good == {U \in SUBSET S : C(U) = F(U)}
  <1>0. ASSUME NEW U \in SUBSET S
        PROVE  IsFiniteSet(U) /\ Numbers(f, U) /\ F(U) \in Int
    <2>1. IsFiniteSet(U) /\ Numbers(f, U)
      BY FS_Subset DEF Numbers
    <2> QED BY <2>1, SumLess
  <1>1. ASSUME NEW U \in SUBSET S
        PROVE  Numbers(c(U), I)
    BY <1>0 DEF Numbers
  <1>2. ASSUME NEW U \in SUBSET S, \A V \in SUBSET U : V # U => V \in Good
        PROVE  U \in Good
    <2>1. CASE U = {}
      <3> DEFINE Zero == {J \in SUBSET I : SumFunctionOnSet(c({}), J) = 0}
      <3>1. \A i \in I : c({})[i] = 0
        BY SumOfEmpty
      <3>2. ASSUME NEW J \in SUBSET I, \A K \in SUBSET J : K # J => K \in Zero
            PROVE  J \in Zero
        <4>1. CASE J = {}
          BY <4>1, SumOfEmpty
        <4>2. CASE J # {}
          <5>1. PICK i \in J : TRUE
            BY <4>2
          <5>2. IsFiniteSet(J) /\ Numbers(c({}), J)
            BY <3>1, FS_Subset DEF Numbers
          <5>3. SumFunctionOnSet(c({}), J) = c({})[i] + SumFunctionOnSet(c({}), J \ {i})
            BY <5>2, SumLess
          <5>4. SumFunctionOnSet(c({}), J \ {i}) = 0
            BY <3>2, <5>1
          <5> QED BY <3>1, <5>3, <5>4
        <4> QED BY <4>1, <4>2
      <3>3. I \in Zero
        <4> HIDE DEF Zero
        <4> QED BY <3>2, SubsetsByInduction
      <3> QED BY <2>1, <3>3, SumOfEmpty
    <2>2. CASE U # {}
      <3>1. PICK x \in U : TRUE
        BY <2>2
      <3> DEFINE W == U \ {x}
                 i == k[x]
                 J == I \ {i}
      <3>2. W \in SUBSET S /\ i \in I /\ C(W) = F(W)
        BY <1>2, <3>1
      <3>3. F(U) = f[x] + F(W)
        BY <1>0, SumLess
      <3>4. c(U)[i] = f[x] + c(W)[i]
        <4>1. class(U, i) \ {x} = class(W, i) /\ x \in class(U, i)
          BY <3>1
        <4>2. class(U, i) \in SUBSET S
          OBVIOUS
        <4>3. F(class(U, i)) = f[x] + F(class(U, i) \ {x})
          BY <1>0, <4>1, <4>2, SumLess
        <4> QED BY <3>2, <4>1, <4>3
      <3>5. \A j \in J : c(U)[j] = c(W)[j]
        <4>1. \A j \in J : class(U, j) = class(W, j)
          OBVIOUS
        <4> QED BY <4>1
      <3>6. SumFunctionOnSet(c(U), J) = SumFunctionOnSet(c(W), J)
        <4>1. IsFiniteSet(J) /\ Numbers(c(U), J)
          BY <1>1, FS_Subset DEF Numbers
        <4> HIDE DEF c, J
        <4> QED BY <3>5, <4>1, SumAgrees
      <3>7. C(U) = c(U)[i] + SumFunctionOnSet(c(U), J) /\ C(W) = c(W)[i] + SumFunctionOnSet(c(W), J)
        <4>1. Numbers(c(U), I) /\ Numbers(c(W), I)
          BY <1>1, <3>2
        <4> HIDE DEF c, i
        <4> QED BY <3>2, <4>1, SumLess
      <3>8. f[x] \in Int /\ c(W)[i] \in Int /\ SumFunctionOnSet(c(W), J) \in Int
        <4>1. IsFiniteSet(J) /\ Numbers(c(W), J) /\ Numbers(c(W), I)
          BY <1>1, <3>2, FS_Subset DEF Numbers
        <4> QED BY <3>2, <4>1, SumLess DEF Numbers
      <3>9. C(U) = F(U)
        <4> HIDE DEF c, J, i, W, F, C
        <4> QED BY <3>2, <3>3, <3>4, <3>6, <3>7, <3>8
      <3> QED BY <3>9
    <2> QED BY <2>1, <2>2
  <1>3. S \in Good
    <2> HIDE DEF Good
    <2> QED BY <1>2, SubsetsByInduction
  <1>4. SumFunctionOnSet(c(S), I) = SumFunctionOnSet(b, I)
    <2>1. \A j \in I : c(S)[j] = b[j]
      OBVIOUS
    <2>2. Numbers(c(S), I)
      BY <1>1
    <2> HIDE DEF c
    <2> QED BY <2>1, <2>2, SumAgrees
  <1> QED BY <1>3, <1>4

-----------------------------------------------------------------------------
(* Reports: the table. *)

USE ReportsAssumption

\* A row began no later than now, nor before the one row of the older version, and reads as
\* the clock of its home showed it.
AsFormatted ==
    \A r \in rows : Start(r) \in -1..now /\ r.text = Format(Start(r), r.home)

\* The inductive invariant of the table.
ReportsInv == ReportsTypeOK /\ IsFiniteSet(rows) /\ AsFormatted

\* The instants of the table are among those the clocks are assumed to be right about.
LEMMA InstantIs ==
    /\ Days * DayLength \in Nat \ {0}
    /\ Instant \subseteq Int
    /\ -1..MaxNow \subseteq Instant
  <1>1. Days * DayLength \in Nat \ {0}
    OBVIOUS
  <1> DEFINE P == Days * DayLength
  <1>2. P \in Nat \ {0}
    BY <1>1
  <1>3. -(2 * Span + P) .. MaxNow + 2 * Span + DayLength \subseteq Int
    BY <1>2
  <1>4. -1..MaxNow \subseteq -(2 * Span + P) .. MaxNow + 2 * Span + DayLength
    <2> HIDE DEF P
    <2> QED BY <1>2
  <1> QED BY <1>2, <1>3, <1>4 DEF Instant

\* A clock is at most Span from UTC.
LEMMA Clock ==
    ASSUME NEW l \in Location, NEW t \in Instant
    PROVE  /\ t \in Int /\ Offset(l, t) \in Int /\ Wall(t, l) \in Int
           /\ -Span <= Offset(l, t) /\ Offset(l, t) <= Span
  BY OffsetAssumption, InstantIs DEF Wall

\* parseTime undoes Format.
LEMMA FormatIs ==
    ASSUME NEW l \in Location, NEW t \in Instant, NEW r, r.text = Format(t, l)
    PROVE  r.text \in [wall : Int, off : Int] /\ Start(r) = t
  BY Clock DEF Format, Start, Wall

\* The table begins empty, or with a row of an older version.
LEMMA ReportsInitially == ReportsInit => ReportsInv
  <1> SUFFICES ASSUME ReportsInit PROVE ReportsInv
    OBVIOUS
  <1>1. now = 0 /\ here \in Location /\ launched = 0 /\ launches = 1
    BY DEF ReportsInit
  <1>2. CASE rows = {}
    BY <1>1, <1>2, FS_EmptySet DEF ReportsInv, ReportsTypeOK, AsFormatted
  <1>3. ASSUME NEW d \in BOOLEAN,
               rows = {[id |-> 1, name |-> NoName, text |-> Format(-1, here), hours |-> 1,
                        done |-> d, home |-> here]}
        PROVE  ReportsInv
    <2> DEFINE r == [id |-> 1, name |-> NoName, text |-> Format(-1, here), hours |-> 1,
                     done |-> d, home |-> here]
    <2>1. -1 \in Instant
      BY InstantIs
    <2>2. r.text \in [wall : Int, off : Int] /\ Start(r) = -1
      BY <1>1, <2>1, FormatIs
    <2>3. r \in Row
      BY <1>1, <2>2 DEF Row
    <2>4. ReportsTypeOK
      BY <1>1, <1>3, <2>3 DEF ReportsTypeOK
    <2>5. IsFiniteSet(rows)
      BY <1>3, FS_Singleton
    <2>6. AsFormatted
      BY <1>1, <1>3, <2>2 DEF AsFormatted
    <2> QED BY <2>4, <2>5, <2>6 DEF ReportsInv
  <1> QED BY <1>2, <1>3 DEF ReportsInit

\* No statement changes when a row began.
LEMMA ReportsStep == ReportsInv /\ [ReportsNext]_reportsVars => ReportsInv'
  <1> SUFFICES ASSUME ReportsInv, [ReportsNext]_reportsVars PROVE ReportsInv'
    OBVIOUS
  <1> USE DEF ReportsInv
  <1>1. CASE Tick
    BY <1>1 DEF Tick, ReportsTypeOK, AsFormatted, Row
  <1>2. ASSUME NEW n \in Name, NEW h \in 0..MaxHours, Save(n, h)
        PROVE  ReportsInv'
    <2> DEFINE r == [id |-> Cardinality(rows) + 1, name |-> n,
                     text |-> Format(now - h, here), hours |-> h,
                     done |-> FALSE, home |-> here]
    <2>1. /\ Cardinality(rows) < MaxRows /\ rows' = rows \cup {r}
          /\ now - h >= launched
          /\ UNCHANGED <<now, here, launched, launches>>
      BY <1>2 DEF Save
    <2>2. Cardinality(rows) \in Nat
      BY FS_CardinalityType
    <2>3. now - h \in -1..now /\ now - h \in Instant
      BY <2>1, InstantIs DEF ReportsTypeOK
    <2>4. r.text \in [wall : Int, off : Int] /\ Start(r) = now - h
      BY <2>3, FormatIs DEF ReportsTypeOK
    <2>5. r \in Row
      BY <2>1, <2>2, <2>4 DEF Row, ReportsTypeOK
    <2>6. IsFiniteSet(rows')
      BY <2>1, FS_AddElement
    <2>7. ReportsTypeOK'
      BY <2>1, <2>5 DEF ReportsTypeOK, Row
    <2>8. AsFormatted'
      BY <2>1, <2>3, <2>4 DEF AsFormatted, Start
    <2> QED BY <2>6, <2>7, <2>8
  <1>3. ASSUME NEW c \in rows, Complete(c)
        PROVE  ReportsInv'
    <2> DEFINE f == [r \in rows |-> IF r.id <= c.id /\ r.name = c.name
                                    THEN [r EXCEPT !.done = TRUE] ELSE r]
    <2>1. /\ rows' = {f[r] : r \in rows}
          /\ UNCHANGED <<now, here, launched, launches>>
      BY <1>3 DEF Complete
    <2>2. \A r \in rows : /\ f[r] \in Row /\ f[r].text = r.text /\ f[r].home = r.home
                          /\ Start(f[r]) = Start(r)
      <3> SUFFICES ASSUME NEW r \in rows
                   PROVE  /\ f[r] \in Row /\ f[r].text = r.text /\ f[r].home = r.home
                          /\ Start(f[r]) = Start(r)
        OBVIOUS
      <3>1. r \in Row
        BY DEF ReportsTypeOK
      <3>2. f[r] \in {r, [r EXCEPT !.done = TRUE]}
        OBVIOUS
      <3> HIDE DEF f
      <3> QED BY <3>1, <3>2 DEF Row, Start
    <2> HIDE DEF f
    <2>3. f \in Surjection(rows, rows')
      BY <2>1 DEF Surjection, f
    <2>4. IsFiniteSet(rows')
      BY <2>3, FS_Surjection
    <2>5. ReportsTypeOK'
      BY <2>1, <2>2 DEF ReportsTypeOK, Row
    <2>6. AsFormatted'
      BY <2>1, <2>2 DEF AsFormatted, Start
    <2> QED BY <2>4, <2>5, <2>6
  <1>4. ASSUME NEW c \in rows, Reopen(c)
        PROVE  ReportsInv'
    <2> DEFINE r == [c EXCEPT !.done = FALSE]
    <2>1. /\ rows' = (rows \ {c}) \cup {r}
          /\ UNCHANGED <<now, here, launched, launches>>
      BY <1>4 DEF Reopen
    <2>2. r \in Row /\ r.text = c.text /\ r.home = c.home /\ Start(r) = Start(c)
      BY DEF ReportsTypeOK, Row, Start
    <2>3. IsFiniteSet(rows')
      BY <2>1, FS_AddElement, FS_RemoveElement
    <2>4. ReportsTypeOK'
      BY <2>1, <2>2 DEF ReportsTypeOK, Row
    <2>5. AsFormatted'
      BY <2>1, <2>2 DEF AsFormatted, Start
    <2> QED BY <2>3, <2>4, <2>5
  <1>5. ASSUME NEW l \in Location, Launch(l)
        PROVE  ReportsInv'
    BY <1>5 DEF Launch, ReportsTypeOK, AsFormatted, Row, Start
  <1>6. CASE UNCHANGED reportsVars
    BY <1>6 DEF reportsVars, ReportsTypeOK, AsFormatted, Row, Start
  <1> QED BY <1>1, <1>2, <1>3, <1>4, <1>5, <1>6 DEF ReportsNext

\* So the invariant holds in every reachable state.
LEMMA ReportsInvAlways == ReportsSpec => []ReportsInv
  BY ReportsInitially, ReportsStep, PTL DEF ReportsSpec

-----------------------------------------------------------------------------
(* Reports: midnights. *)

\* The date of a wall clock reading, by the midnights around it.
LEMMA Division ==
    ASSUME NEW w \in Int
    PROVE  /\ w \div DayLength \in Int
           /\ \A d \in Int : w \div DayLength < d <=> w < d * DayLength
  <1> DEFINE q == w \div DayLength
  <1>1. q \in Int /\ q * DayLength <= w /\ w < q * DayLength + DayLength
    OBVIOUS
  <1> HIDE DEF q
  <1>2. ASSUME NEW d \in Int, q < d
        PROVE  w < d * DayLength
    <2>1. (d - q - 1) * DayLength >= 0
      BY <1>1, <1>2
    <2>2. (d - q - 1) * DayLength = d * DayLength - q * DayLength - DayLength
      BY <1>1
    <2> QED BY <1>1, <2>1, <2>2
  <1>3. ASSUME NEW d \in Int, ~(q < d)
        PROVE  ~(w < d * DayLength)
    <2>1. (q - d) * DayLength >= 0
      BY <1>1, <1>3
    <2>2. (q - d) * DayLength = q * DayLength - d * DayLength
      BY <1>1
    <2> QED BY <1>1, <2>1, <2>2
  <1>4. \A d \in Int : q < d <=> w < d * DayLength
    BY <1>2, <1>3
  <1> QED BY <1>1, <1>4 DEF q

\* The days whose midnights the page asks for: those of the window, and tomorrow.
Today == DateOf(now, here)
Window == Today - Days + 1 .. Today + 1

\* They are within the instants of OffsetAssumption.
LEMMA WindowIs ==
    ASSUME ReportsInv, NEW d \in Window
    PROVE  /\ Today \in Int /\ d \in Int /\ d * DayLength \in Int
           /\ d * DayLength - Span .. d * DayLength + Span \subseteq Instant
           /\ d * DayLength \in Instant
  <1> DEFINE P == Days * DayLength
             M == Today * DayLength
             W == Wall(now, here)
  <1>1. now \in Instant /\ now \in 0..MaxNow /\ here \in Location
    BY InstantIs DEF ReportsInv, ReportsTypeOK
  <1>2. W \in Int /\ now - Span <= W /\ W <= now + Span
    BY <1>1, Clock DEF Wall
  <1>3. Today \in Int /\ M <= W /\ W < M + DayLength
    BY <1>2 DEF Today, DateOf
  <1>4. d \in Int /\ Today - Days + 1 <= d /\ d <= Today + 1
    BY <1>3 DEF Window
  <1>5. (d - (Today - Days + 1)) * DayLength >= 0 /\ (Today + 1 - d) * DayLength >= 0
    BY <1>3, <1>4
  <1>6. /\ d * DayLength \in Int
        /\ d * DayLength >= M - P + DayLength /\ d * DayLength <= M + DayLength
    BY <1>3, <1>4, <1>5
  <1>7. P \in Nat /\ M \in Int
    BY <1>3
  <1>8. Instant = -(2 * Span + P) .. MaxNow + 2 * Span + DayLength
    BY DEF Instant
  <1> DEFINE D == d * DayLength
  <1>9. D - Span .. D + Span \subseteq Instant /\ D \in Instant
    <2> HIDE DEF P, M, W
    <2>1. D \in Int /\ D >= M - P + DayLength /\ D <= M + DayLength
      BY <1>6
    <2> HIDE DEF D
    <2> QED BY <1>1, <1>2, <1>3, <1>7, <1>8, <2>1
  <1> QED BY <1>3, <1>4, <1>6, <1>9

\* A midnight that the clocks show once is found by time.Date, and it divides the instants
\* of the days before from those of the day.
LEMMA MidnightIs ==
    ASSUME ReportsInv, NEW d \in Window, CleanMidnight(d)
    PROVE  LET t == Date(d * DayLength, here)
           IN  /\ t \in Instant /\ Wall(t, here) = d * DayLength
               /\ \A u \in Instant : /\ u < t <=> DateOf(u, here) < d
                                     /\ Wall(u, here) = d * DayLength => u = t
  <1> DEFINE m == d * DayLength
             t == Date(m, here)
  <1>1. here \in Location /\ m \in Int /\ m \in Instant /\ d \in Int
        /\ m - Span .. m + Span \subseteq Instant
    BY WindowIs DEF ReportsInv, ReportsTypeOK
  <1>2. /\ Offset(here, m) \in Int /\ -Span <= Offset(here, m) /\ Offset(here, m) <= Span
    BY <1>1, Clock
  <1>3. m - Offset(here, m) \in m - Span .. m + Span
    <2> HIDE DEF m
    <2> QED BY <1>1, <1>2
  <1>4. /\ Offset(here, m - Offset(here, m)) \in Int
        /\ -Span <= Offset(here, m - Offset(here, m))
        /\ Offset(here, m - Offset(here, m)) <= Span
    BY <1>1, <1>3, Clock
  <1>5. t \in m - Span .. m + Span
    <2> HIDE DEF m
    <2> QED BY <1>1, <1>4 DEF Date
  <1>6. \A u \in m - Span .. m + Span :
            (u < t <=> Wall(u, here) < m) /\ (u > t <=> Wall(u, here) > m)
    BY DEF CleanMidnight
  <1> HIDE DEF t
  <1>7. ASSUME NEW u \in Instant
        PROVE  (u < t <=> Wall(u, here) < m) /\ (u > t <=> Wall(u, here) > m)
    <2>1. /\ u \in Int /\ Wall(u, here) \in Int
          /\ u - Span <= Wall(u, here) /\ Wall(u, here) <= u + Span
      BY <1>1, Clock DEF Wall
    <2> HIDE DEF m
    <2> QED BY <1>1, <1>5, <1>6, <2>1
  <1>8. t \in Instant /\ t \in Int /\ Wall(t, here) \in Int
    BY <1>1, <1>5, InstantIs, Clock
  <1>9. Wall(t, here) = m
    <2>1. ~(t < t) /\ ~(t > t)
      BY <1>8
    <2>2. ~(Wall(t, here) < m) /\ ~(Wall(t, here) > m)
      BY <1>7, <1>8, <2>1
    <2> HIDE DEF m
    <2> QED BY <1>1, <1>8, <2>2
  <1>10. ASSUME NEW u \in Instant
         PROVE  (u < t <=> DateOf(u, here) < d) /\ (Wall(u, here) = m => u = t)
    <2>1. u \in Int /\ Wall(u, here) \in Int
      BY <1>1, Clock
    <2>2. DateOf(u, here) < d <=> Wall(u, here) < m
      BY <1>1, <2>1, Division DEF DateOf
    <2>3. Wall(u, here) = m => u = t
      <3> HIDE DEF m
      <3> QED BY <1>1, <1>7, <1>8, <2>1
    <2> QED BY <1>7, <2>2, <2>3
  <1> QED BY <1>8, <1>9, <1>10 DEF t

\* The date at an instant.
LEMMA DateOfIs ==
    ASSUME ReportsInv, NEW u \in Instant
    PROVE  /\ u \in Int /\ Wall(u, here) \in Int /\ DateOf(u, here) \in Int
           /\ \A d \in Int : DateOf(u, here) < d <=> Wall(u, here) < d * DayLength
  <1>1. u \in Int /\ Wall(u, here) \in Int
    BY Clock DEF ReportsInv, ReportsTypeOK
  <1> QED BY <1>1, Division DEF DateOf

\* Midnight of a day is on that day.
LEMMA MidnightDate ==
    ASSUME ReportsInv, NEW d \in Window, CleanMidnight(d)
    PROVE  DateOf(Date(d * DayLength, here), here) = d
  <1> DEFINE t == Date(d * DayLength, here)
  <1>1. t \in Instant /\ Wall(t, here) = d * DayLength /\ d \in Int
    BY MidnightIs, WindowIs
  <1>2. (d + 1) * DayLength = d * DayLength + DayLength /\ d * DayLength \in Int /\ d + 1 \in Int
    BY <1>1
  <1> HIDE DEF t
  <1>3. DateOf(t, here) \in Int /\ ~(DateOf(t, here) < d) /\ DateOf(t, here) < d + 1
    BY <1>1, <1>2, DateOfIs
  <1>4. DateOf(t, here) = d
    BY <1>1, <1>3
  <1> QED BY <1>4 DEF t

\* The instant a row began, and its text if it was written here.
LEMMA StartIs ==
    ASSUME ReportsInv, NEW r \in rows
    PROVE  /\ Start(r) \in Instant /\ Start(r) <= now
           /\ AtHome => r.text = Format(Start(r), here)
  <1>1. Start(r) \in -1..now /\ r.text = Format(Start(r), r.home)
    BY DEF ReportsInv, AsFormatted
  <1>2. Start(r) \in Instant /\ Start(r) <= now
    BY <1>1, InstantIs DEF ReportsInv, ReportsTypeOK
  <1> QED BY <1>1, <1>2 DEF AtHome

\* The comparison of texts in Between and TotalToday: it says whether a row began before a
\* midnight, also when the offset has changed in between.
LEMMA RowBefore ==
    ASSUME ReportsInv, AtHome, NEW d \in Window, CleanMidnight(d), NEW r \in rows
    PROVE  Less(r.text, Format(Date(d * DayLength, here), here)) <=> DateOf(Start(r), here) < d
  <1> DEFINE m == d * DayLength
             t == Date(m, here)
             s == Start(r)
  <1>1. t \in Instant /\ Wall(t, here) = m /\ d \in Int /\ m \in Int
    BY MidnightIs, WindowIs
  <1>2. s \in Instant /\ r.text = Format(s, here) /\ here \in Location
    BY StartIs DEF ReportsInv, ReportsTypeOK
  <1>3. Wall(s, here) = m => s = t
    BY <1>2, MidnightIs
  <1>4. Wall(s, here) \in Int /\ (DateOf(s, here) < d <=> Wall(s, here) < m)
    BY <1>1, <1>2, DateOfIs
  <1>5. Offset(here, t) \in Int
    BY <1>1, <1>2, Clock
  <1> HIDE DEF t, s, m
  <1>6. ASSUME Wall(s, here) = m
        PROVE  Less(r.text, Format(t, here)) <=> DateOf(s, here) < d
    <2>1. r.text = Format(t, here)
      BY <1>2, <1>3, <1>6
    <2>2. ~Less(Format(t, here), Format(t, here))
      BY <1>1, <1>5 DEF Less, Format, Sign, Magnitude
    <2> QED BY <1>1, <1>4, <1>6, <2>1, <2>2
  <1>7. ASSUME Wall(s, here) # m
        PROVE  Less(r.text, Format(t, here)) <=> DateOf(s, here) < d
    BY <1>1, <1>2, <1>4, <1>7 DEF Less, Format
  <1>8. Less(r.text, Format(t, here)) <=> DateOf(s, here) < d
    BY <1>6, <1>7
  <1> QED BY <1>8 DEF t, s, m

\* The two exceptions of ReportIsWhole and TodayAgrees do not hold.
Clean == AtHome /\ \A d \in Window : CleanMidnight(d)

\* AddDate over clean midnights goes from midnight to midnight, whatever the day lasts.
LEMMA Bounds ==
    ASSUME ReportsInv, Clean
    PROVE  /\ DayStart(now, here) = Date(Today * DayLength, here)
           /\ First = Date((Today - Days + 1) * DayLength, here)
           /\ DayEnd(now, here) = Date((Today + 1) * DayLength, here)
           /\ \A i \in 0 .. Days - 1 : BarDate(i) = Today - Days + 1 + i
  <1>1. Today \in Int
    <2>1. now \in Instant
      BY InstantIs DEF ReportsInv, ReportsTypeOK
    <2> QED BY <2>1, DateOfIs DEF Today
  <1>2. /\ Today \in Window /\ Today - Days + 1 \in Window /\ Today + 1 \in Window
        /\ \A i \in 0 .. Days - 1 : Today - Days + 1 + i \in Window
    BY <1>1 DEF Window
  <1>3. ASSUME NEW d \in Window, NEW n \in Int, d + n \in Window
        PROVE  AddDate(Date(d * DayLength, here), n, here) = Date((d + n) * DayLength, here)
    <2>1. d \in Int /\ Wall(Date(d * DayLength, here), here) = d * DayLength
      BY WindowIs, MidnightIs DEF Clean
    <2>2. d * DayLength + n * DayLength = (d + n) * DayLength
      BY <2>1
    <2> QED BY <2>1, <2>2 DEF AddDate
  <1>4. DayStart(now, here) = Date(Today * DayLength, here)
    BY DEF DayStart, Today
  <1>5. First = Date((Today - Days + 1) * DayLength, here)
    <2>1. -(Days - 1) \in Int /\ Today + -(Days - 1) = Today - Days + 1
      BY <1>1
    <2> QED BY <1>2, <1>3, <1>4, <2>1 DEF First
  <1>6. DayEnd(now, here) = Date((Today + 1) * DayLength, here)
    BY <1>2, <1>3, <1>4 DEF DayEnd
  <1>7. ASSUME NEW i \in 0 .. Days - 1
        PROVE  BarDate(i) = Today - Days + 1 + i
    <2>1. AddDate(First, i, here) = Date((Today - Days + 1 + i) * DayLength, here)
      BY <1>2, <1>3, <1>5
    <2> QED BY <1>2, <2>1, MidnightDate DEF BarDate, Clean
  <1> QED BY <1>4, <1>5, <1>6, <1>7

\* Hence both queries select by the calendar.
LEMMA WindowRows ==
    ASSUME ReportsInv, Clean
    PROVE  /\ Today \in Int
           /\ \A r \in rows : DateOf(Start(r), here) \in Int /\ DateOf(Start(r), here) <= Today
           /\ Sessions = {r \in rows : DateOf(Start(r), here) \in Today - Days + 1 .. Today}
           /\ RowsToday = SameDay
  <1>1. now \in Instant /\ Today \in Int
    <2>1. now \in Instant
      BY InstantIs DEF ReportsInv, ReportsTypeOK
    <2> QED BY <2>1, DateOfIs DEF Today
  <1>2. Today \in Window /\ Today - Days + 1 \in Window /\ Today + 1 \in Window
    BY <1>1 DEF Window
  <1>3. ASSUME NEW r \in rows
        PROVE  DateOf(Start(r), here) \in Int /\ DateOf(Start(r), here) <= Today
    <2> DEFINE t == Date((Today + 1) * DayLength, here)
    <2>1. Start(r) \in Instant /\ Start(r) <= now
      BY StartIs
    <2>2. /\ t \in Instant
          /\ now < t <=> DateOf(now, here) < Today + 1
          /\ Start(r) < t <=> DateOf(Start(r), here) < Today + 1
      BY <1>1, <1>2, <2>1, MidnightIs DEF Clean
    <2>3. /\ DateOf(Start(r), here) \in Int
          /\ Start(r) \in Int /\ now \in Int /\ t \in Int
      BY <1>1, <2>1, <2>2, DateOfIs
    <2> HIDE DEF t
    <2> QED BY <1>1, <2>1, <2>2, <2>3 DEF Today
  <1>4. ASSUME NEW r \in rows
        PROVE  /\ ~Less(r.text, Format(First, here)) <=> DateOf(Start(r), here) >= Today - Days + 1
               /\ Less(r.text, Format(DayEnd(now, here), here)) <=> DateOf(Start(r), here) <= Today
               /\ ~Less(r.text, Format(DayStart(now, here), here))
                     <=> DateOf(Start(r), here) >= Today
    <2>1. /\ Less(r.text, Format(First, here)) <=> DateOf(Start(r), here) < Today - Days + 1
          /\ Less(r.text, Format(DayEnd(now, here), here)) <=> DateOf(Start(r), here) < Today + 1
          /\ Less(r.text, Format(DayStart(now, here), here)) <=> DateOf(Start(r), here) < Today
      BY <1>2, Bounds, RowBefore DEF Clean
    <2> QED BY <1>1, <1>3, <2>1
  <1>5. Sessions = {r \in rows : DateOf(Start(r), here) \in Today - Days + 1 .. Today}
    BY <1>1, <1>3, <1>4 DEF Sessions, Between
  <1>6. RowsToday = SameDay
    BY <1>1, <1>3, <1>4 DEF RowsToday, SameDay, Today
  <1> QED BY <1>1, <1>3, <1>5, <1>6

-----------------------------------------------------------------------------
(* Reports: what is shown. *)

\* The function whose sums Hours is.
HoursOf == [r \in rows |-> r.hours]

\* Hours is such a sum, on every part of the table.
LEMMA HoursIs ==
    ASSUME ReportsInv, NEW S \in SUBSET rows
    PROVE  /\ Hours(S) = SumFunctionOnSet(HoursOf, S) /\ Hours(S) \in Int
           /\ IsFiniteSet(S) /\ Numbers(HoursOf, S)
  <1>1. Hours(S) = SumFunctionOnSet(HoursOf, S)
    BY DEF Hours, HoursOf
  <1>2. IsFiniteSet(S)
    BY FS_Subset DEF ReportsInv
  <1>3. Numbers(HoursOf, S)
    BY DEF Numbers, HoursOf, ReportsInv, ReportsTypeOK, Row
  <1> QED BY <1>1, <1>2, <1>3, SumLess

\* Hours of two parts of the table add up.
LEMMA HoursOfParts ==
    ASSUME ReportsInv, NEW A \in SUBSET rows, NEW B \in SUBSET rows, A \cap B = {}
    PROVE  Hours(A \cup B) = Hours(A) + Hours(B)
  <1>1. A \cup B \in SUBSET rows
    OBVIOUS
  <1>2. /\ Hours(A) = SumFunctionOnSet(HoursOf, A) /\ IsFiniteSet(A)
        /\ Hours(B) = SumFunctionOnSet(HoursOf, B) /\ IsFiniteSet(B)
        /\ Hours(A \cup B) = SumFunctionOnSet(HoursOf, A \cup B) /\ Numbers(HoursOf, A \cup B)
    BY <1>1, HoursIs
  <1> QED BY <1>2, SumOfUnion

\* Whatever the table is sorted by, its parts add up.
LEMMA HoursByClass ==
    ASSUME ReportsInv, NEW S \in SUBSET rows, NEW I, IsFiniteSet(I), NEW k, \A r \in S : k[r] \in I,
           NEW b, DOMAIN b = I, \A i \in I : b[i] = Hours({r \in S : k[r] = i})
    PROVE  SumFunction(b) = Hours(S)
  <1>1. \A i \in I : b[i] = SumFunctionOnSet(HoursOf, {r \in S : k[r] = i})
    <2> TAKE i \in I
    <2>1. {r \in S : k[r] = i} \in SUBSET rows
      OBVIOUS
    <2> QED BY <2>1, HoursIs
  <1>2. IsFiniteSet(S) /\ Numbers(HoursOf, S) /\ Hours(S) = SumFunctionOnSet(HoursOf, S)
    BY HoursIs
  <1>3. SumFunctionOnSet(b, I) = SumFunctionOnSet(HoursOf, S)
    BY <1>1, <1>2, SumOfClasses
  <1> QED BY <1>2, <1>3 DEF SumFunction

\* A table has finitely many names.
LEMMA NamesAreFinite ==
    ASSUME ReportsInv, NEW S \in SUBSET rows
    PROVE  IsFiniteSet({r.name : r \in S})
  <1> DEFINE f == [r \in S |-> r.name]
  <1>1. f \in Surjection(S, {r.name : r \in S})
    BY DEF Surjection
  <1>2. IsFiniteSet(S)
    BY HoursIs
  <1> QED BY <1>1, <1>2, FS_Surjection

\* Sorting by name, as TotalsByName and DurationsToday do.
LEMMA HoursByName ==
    ASSUME ReportsInv, NEW S \in SUBSET rows,
           NEW b, DOMAIN b = {r.name : r \in S},
           \A n \in {r.name : r \in S} : b[n] = Hours({r \in S : r.name = n})
    PROVE  SumFunction(b) = Hours(S)
  <1>1. PICK k : k = [r \in S |-> r.name]
    OBVIOUS
  <1>2. PICK I : I = {r.name : r \in S}
    OBVIOUS
  <1>3. IsFiniteSet(I) /\ \A r \in S : k[r] \in I
    BY <1>1, <1>2, NamesAreFinite
  <1>4. DOMAIN b = I
    BY <1>2
  <1>5. ASSUME NEW i \in I
        PROVE  b[i] = Hours({r \in S : k[r] = i})
    <2>1. {r \in S : r.name = i} = {r \in S : k[r] = i}
      BY <1>1
    <2> QED BY <1>2, <2>1
  <1> QED BY <1>3, <1>4, <1>5, HoursByClass

\* In a clean window every bar has a date of its own, so none is skipped in Bar.
LEMMA BarsAreDays ==
    ASSUME ReportsInv, Clean, NEW i \in 0 .. Days - 1
    PROVE  Bar(Sessions, i) =
             Hours({r \in Sessions : DateOf(Start(r), here) = Today - Days + 1 + i})
  <1>1. \A j \in 0 .. Days - 1 : BarDate(j) = Today - Days + 1 + j
    BY Bounds
  <1>2. Today \in Int
    BY WindowRows
  <1>3. \A j \in i + 1 .. Days - 1 : j \in 0 .. Days - 1 /\ BarDate(j) # BarDate(i)
    BY <1>1, <1>2
  <1>4. BarDate(i) = Today - Days + 1 + i
    BY <1>1
  <1> QED BY <1>3, <1>4 DEF Bar

\* The bars add up to the sessions of the window (DailyTotals).
LEMMA BarsAddUp ==
    ASSUME ReportsInv, Clean
    PROVE  SumFunction(DailyTotals(Sessions)) = Hours(Sessions)
  <1>1. PICK I : I = 0 .. Days - 1
    OBVIOUS
  <1>2. PICK k : k = [r \in Sessions |-> DateOf(Start(r), here) - (Today - Days + 1)]
    OBVIOUS
  <1>3. PICK b : b = DailyTotals(Sessions)
    OBVIOUS
  <1>4. IsFiniteSet(I)
    BY <1>1, FS_Interval
  <1>5. Sessions \in SUBSET rows /\ Today \in Int
        /\ \A r \in Sessions : DateOf(Start(r), here) \in Today - Days + 1 .. Today
    BY WindowRows
  <1>6. \A r \in Sessions : k[r] \in I
    BY <1>1, <1>2, <1>5
  <1>7. DOMAIN b = I
    BY <1>1, <1>3 DEF DailyTotals
  <1>8. ASSUME NEW i \in I
        PROVE  b[i] = Hours({r \in Sessions : k[r] = i})
    <2>1. b[i] = Hours({r \in Sessions : DateOf(Start(r), here) = Today - Days + 1 + i})
      BY <1>1, <1>3, BarsAreDays DEF DailyTotals
    <2>2. \A r \in Sessions : k[r] = i <=> DateOf(Start(r), here) = Today - Days + 1 + i
      BY <1>1, <1>2, <1>5
    <2>3. {r \in Sessions : DateOf(Start(r), here) = Today - Days + 1 + i}
            = {r \in Sessions : k[r] = i}
      BY <2>2
    <2> QED BY <2>1, <2>3
  <1> QED BY <1>3, <1>4, <1>5, <1>6, <1>7, <1>8, HoursByClass

\* The breakdown and the rows without a name add up to the whole (TotalsByName).
LEMMA NamesAddUp ==
    ASSUME ReportsInv, NEW S \in SUBSET rows
    PROVE  SumFunction(TotalsByName(S)) + Hours({r \in S : r.name = NoName}) = Hours(S)
  <1>1. PICK T : T = {r \in S : r.name # NoName}
    OBVIOUS
  <1>2. PICK b : b = TotalsByName(S)
    OBVIOUS
  <1>3. T \in SUBSET rows
    BY <1>1
  <1>4. DOMAIN b = {r.name : r \in T}
    BY <1>1, <1>2 DEF TotalsByName
  <1>5. ASSUME NEW n \in {r.name : r \in T}
        PROVE  b[n] = Hours({r \in T : r.name = n})
    <2>1. b[n] = Hours({r \in S : r.name = n})
      BY <1>1, <1>2 DEF TotalsByName
    <2>2. {r \in S : r.name = n} = {r \in T : r.name = n}
      BY <1>1
    <2> QED BY <2>1, <2>2
  <1>6. SumFunction(b) = Hours(T)
    BY <1>3, <1>4, <1>5, HoursByName
  <1>7. PICK U : U = {r \in S : r.name = NoName}
    OBVIOUS
  <1>8. Hours(T \cup U) = Hours(T) + Hours(U)
    BY <1>1, <1>7, HoursOfParts
  <1>9. T \cup U = S
    BY <1>1, <1>7
  <1> QED BY <1>2, <1>6, <1>7, <1>8, <1>9

\* The exceptions, as the properties state them.
LEMMA CleanIs ==
    ReportsInv /\ AtHome /\ ~OddMidnight(Today - Days + 1, Today + 1) => Clean
  BY DEF Clean, OddMidnight, Window

\* ReportIsWhole follows from the invariant.
LEMMA WholeNow == ReportsInv => ReportIsWhole
  <1> SUFFICES ASSUME ReportsInv, AtHome, ~OddMidnight(Today - Days + 1, Today + 1)
               PROVE
                 LET window == {r \in rows : DateOf(Start(r), here) \in Today - Days + 1 .. Today}
                 IN  /\ Sessions = window
                     /\ SumFunction(DailyTotals(Sessions)) = Summary(Sessions).total
                     /\ SumFunction(TotalsByName(Sessions))
                          + Hours({r \in window : r.name = NoName}) = Summary(Sessions).total
    BY DEF ReportIsWhole, Today
  <1>1. Clean
    BY CleanIs
  <1>2. Sessions = {r \in rows : DateOf(Start(r), here) \in Today - Days + 1 .. Today}
    BY <1>1, WindowRows
  <1>3. Summary(Sessions).total = Hours(Sessions)
    BY DEF Summary
  <1>4. SumFunction(TotalsByName(Sessions)) + Hours({r \in Sessions : r.name = NoName})
          = Hours(Sessions)
    BY <1>2, NamesAddUp
  <1>5. SumFunction(DailyTotals(Sessions)) = Hours(Sessions)
    BY <1>1, BarsAddUp
  <1> QED BY <1>2, <1>3, <1>4, <1>5

\* So does TodayAgrees.
LEMMA TodayNow == ReportsInv => TodayAgrees
  <1> SUFFICES ASSUME ReportsInv, AtHome, ~OddMidnight(Today - Days + 1, Today + 1)
               PROVE  /\ RowsToday = SameDay
                      /\ TotalToday.total = DailyTotals(Sessions)[Days - 1]
                      /\ SumFunction(DurationsToday) + Hours({r \in SameDay : r.done})
                            = TotalToday.total
    BY DEF TodayAgrees, Today
  <1>1. Clean
    BY CleanIs
  <1>2. /\ RowsToday = SameDay /\ Today \in Int
        /\ Sessions = {r \in rows : DateOf(Start(r), here) \in Today - Days + 1 .. Today}
    BY <1>1, WindowRows
  <1>3. TotalToday.total = Hours(RowsToday)
    BY DEF TotalToday
  <1>4. DailyTotals(Sessions)[Days - 1] = Hours(SameDay)
    <2>1. Days - 1 \in 0 .. Days - 1
      OBVIOUS
    <2>2. DailyTotals(Sessions)[Days - 1] = Bar(Sessions, Days - 1)
      BY <2>1 DEF DailyTotals
    <2>3. Bar(Sessions, Days - 1)
            = Hours({r \in Sessions : DateOf(Start(r), here) = Today - Days + 1 + (Days - 1)})
      BY <1>1, <2>1, BarsAreDays
    <2>4. Today - Days + 1 + (Days - 1) = Today /\ Today \in Today - Days + 1 .. Today
      BY <1>2
    <2>5. {r \in Sessions : DateOf(Start(r), here) = Today - Days + 1 + (Days - 1)} = SameDay
      BY <1>2, <2>4 DEF SameDay, Today
    <2> QED BY <2>2, <2>3, <2>5
  <1>5. SumFunction(DurationsToday) = Hours(OpenToday)
    <2>1. PICK b : b = DurationsToday
      OBVIOUS
    <2>2. OpenToday \in SUBSET rows
      BY DEF OpenToday, RowsToday
    <2>3. DOMAIN b = {r.name : r \in OpenToday}
      BY <2>1 DEF DurationsToday
    <2>4. \A n \in {r.name : r \in OpenToday} : b[n] = Hours({r \in OpenToday : r.name = n})
      BY <2>1 DEF DurationsToday
    <2> QED BY <2>1, <2>2, <2>3, <2>4, HoursByName
  <1>6. Hours(OpenToday) + Hours({r \in SameDay : r.done}) = Hours(RowsToday)
    <2>1. PICK D : D = {r \in SameDay : r.done}
      OBVIOUS
    <2>2. /\ OpenToday \in SUBSET rows /\ D \in SUBSET rows /\ OpenToday \cap D = {}
          /\ OpenToday \cup D = RowsToday
      BY <1>2, <2>1 DEF OpenToday, RowsToday
    <2>3. Hours(OpenToday \cup D) = Hours(OpenToday) + Hours(D)
      BY <2>2, HoursOfParts
    <2> QED BY <2>1, <2>2, <2>3
  <1> QED BY <1>2, <1>3, <1>4, <1>5, <1>6

\* Rows, clock and launches are typed: every row has a wall clock reading, an offset and
\* hours within the bound (Save, Complete, Reopen).
THEOREM ReportsTypeCorrect == ReportsSpec => []ReportsTypeOK
  <1>1. ReportsInv => ReportsTypeOK
    BY DEF ReportsInv
  <1> QED BY <1>1, ReportsInvAlways, PTL

\* For any clocks, windows, sessions and launches, the page shows the sessions that started on
\* the days of its window, and tiles, bars and breakdown add up (Between, Summarize,
\* DailyTotals, TotalsByName), but for rows written in another zone and for days whose
\* midnight the clocks skip or repeat.
THEOREM ReportIsWholeAlways == ReportsSpec => []ReportIsWhole
  BY WholeNow, ReportsInvAlways, PTL

\* For any of them, what the footer counts is what the filter Today lists and the last bar
\* shows, and the tray shows the rest once the completed are taken away (TotalToday, sameDay,
\* DurationsToday), with the same exceptions.
THEOREM TodayAgreesAlways == ReportsSpec => []TodayAgrees
  BY TodayNow, ReportsInvAlways, PTL

HIDE ReportsAssumption

-----------------------------------------------------------------------------
(* Upgrade. *)

USE UpgradeAssumption DEF NoTable

\* What migrate has done, by the step a program is at.
Upgraded ==
    /\ columns # NoTable => Base \in columns
    /\ \A p \in Process :
         /\ at[p] # "closed" => Base \in columns
         /\ at[p] = "alter" => Wanted \ missing[p] \subseteq columns
         /\ at[p] \in {"index", "open"} => columns = Current /\ oldStatus = {}
         /\ at[p] = "open" => indexed

UInv == UpgradeTypeOK /\ Upgraded

LEMMA UpgradeInitially == UpgradeInit => UInv
  <1> SUFFICES ASSUME UpgradeInit PROVE UInv
    OBVIOUS
  <1>1. /\ indexed = FALSE /\ breaks = 0
        /\ at = [p \in Process |-> "closed"]
        /\ missing = [p \in Process |-> {}]
    BY DEF UpgradeInit
  <1>2. /\ at \in [Process -> {"closed", "inspect", "alter", "index", "open"}]
        /\ missing \in [Process -> SUBSET Wanted]
        /\ breaks \in 0..MaxBreaks /\ indexed \in BOOLEAN
    <2>1. breaks \in 0..MaxBreaks
      BY <1>1
    <2>2. at \in [Process -> {"closed", "inspect", "alter", "index", "open"}]
      BY <1>1
    <2>3. missing \in [Process -> SUBSET Wanted]
      BY <1>1
    <2> QED BY <1>1, <2>1, <2>2, <2>3
  <1>3. CASE columns = NoTable /\ oldStatus = {}
    <2>1. UpgradeTypeOK
      <3>1. columns \subseteq Current /\ oldStatus \subseteq OldRow
        BY <1>3
      <3> QED BY <3>1, <1>2 DEF UpgradeTypeOK
    <2>2. Upgraded
      BY <1>1, <1>3 DEF Upgraded
    <2> QED BY <2>1, <2>2 DEF UInv
  <1>4. CASE (\E l \in Layout : columns = l \cup {Base}) /\ oldStatus = OldRow
    <2>1. Base \in columns /\ columns \subseteq Current
      BY <1>4 DEF Current
    <2>2. UpgradeTypeOK
      BY <1>2, <1>4, <2>1 DEF UpgradeTypeOK
    <2>3. Upgraded
      BY <1>1, <2>1 DEF Upgraded
    <2> QED BY <2>2, <2>3 DEF UInv
  <1> QED BY <1>3, <1>4 DEF UpgradeInit

LEMMA ApplySchemaKeeps ==
  ASSUME UInv, NEW p \in Process, ApplySchema(p)
  PROVE  UInv'
  BY DEF ApplySchema, Advance, UInv, UpgradeTypeOK, Upgraded, Current

LEMMA InspectKeeps ==
  ASSUME UInv, NEW p \in Process, Inspect(p)
  PROVE  UInv'
  BY DEF Inspect, Advance, tableVars, UInv, UpgradeTypeOK, Upgraded, Current

LEMMA AddColumnKeeps ==
  ASSUME UInv, NEW p \in Process, NEW c \in Wanted, AddColumn(p, c)
  PROVE  UInv'
  BY DEF AddColumn, UInv, UpgradeTypeOK, Upgraded, Current

LEMMA DuplicateColumnKeeps ==
  ASSUME UInv, NEW p \in Process, NEW c \in Wanted, DuplicateColumn(p, c)
  PROVE  UInv'
  BY DEF DuplicateColumn, Advance, tableVars, UInv, UpgradeTypeOK, Upgraded, Current

LEMMA RenameStatusesKeeps ==
  ASSUME UInv, NEW p \in Process, RenameStatuses(p)
  PROVE  UInv'
  <1>1. columns = Current
    <2>1. Wanted \subseteq columns /\ Base \in columns
      BY DEF RenameStatuses, UInv, Upgraded
    <2>2. columns \subseteq Current
      BY DEF UInv, UpgradeTypeOK
    <2>3. Current \subseteq columns
      BY <2>1 DEF Current
    <2> QED BY <2>2, <2>3
  <1>2. UpgradeTypeOK'
    BY DEF RenameStatuses, Advance, UInv, UpgradeTypeOK, Current
  <1>3. /\ columns' = columns /\ indexed' = indexed /\ missing' = missing
        /\ oldStatus' = {}
        /\ at' = [at EXCEPT ![p] = "index"]
    BY DEF RenameStatuses, Advance
  <1>4. Base \in columns
    BY <1>1 DEF Current
  <1>5. Upgraded'
    BY <1>1, <1>3, <1>4 DEF UInv, UpgradeTypeOK, Upgraded, Current
  <1> QED BY <1>2, <1>5 DEF UInv

LEMMA ApplyIndexesKeeps ==
  ASSUME UInv, NEW p \in Process, ApplyIndexes(p)
  PROVE  UInv'
  BY DEF ApplyIndexes, Advance, UInv, UpgradeTypeOK, Upgraded, Current

LEMMA BreakKeeps ==
  ASSUME UInv, NEW p \in Process, Break(p)
  PROVE  UInv'
  BY DEF Break, Advance, tableVars, UInv, UpgradeTypeOK, Upgraded, Current

LEMMA UpgradeStays ==
  ASSUME UInv, UNCHANGED upgradeVars
  PROVE  UInv'
  BY DEF upgradeVars, tableVars, UInv, UpgradeTypeOK, Upgraded, Current

-----------------------------------------------------------------------------
(* FileProvider. *)

HIDE UpgradeAssumption DEF NoTable
USE FileAssumption

\* Two documents have one file exactly when a write of one disturbs the other.
LEMMA SharedPath ==
  ASSUME NEW a \in Doc, NEW b \in Doc
  PROVE  PathOf(a) = PathOf(b) <=> Clash(a, b)
  <1>1. CASE a \in Session /\ b \in Session
    BY <1>1 DEF PathOf, Clash, Twins, Doc
  <1>2. CASE a \in Key /\ b \in Key
    BY <1>2 DEF PathOf, Clash, Twins, Doc
  <1>3. CASE a \in Session /\ b \in Key
    BY <1>3 DEF PathOf, Clash, Twins, Doc
  <1>4. CASE a \in Key /\ b \in Session
    BY <1>4 DEF PathOf, Clash, Twins, Doc
  <1> QED BY <1>1, <1>2, <1>3, <1>4 DEF Doc

LEMMA ClashSymmetric == \A a, b : Clash(a, b) <=> Clash(b, a)
  BY DEF Clash, Twins

LEMMA NoDocClashesNot == \A a \in Doc : ~Clash(a, NoDoc) /\ ~Clash(NoDoc, a)
  BY DEF Clash, Twins, Doc

LEMMA PathsOfDocs == \A a \in Doc : PathOf(a) \in Path
  BY DEF Path

\* Daemons whose calls clash know it, an undisturbed one finds what it wrote, and a
\* settled document has no writer.
Written ==
    /\ \A d, e \in Daemon :
         d # e /\ stage[d] # "idle" /\ Clash(hand[d], hand[e]) => d \in contested
    /\ \A d \in Daemon \ contested :
         /\ stage[d] = "writing" => files[PathOf(hand[d])] = Empty
         /\ stage[d] = "written" => files[PathOf(hand[d])] = hand[d]
    /\ \A doc \in settled, d \in Daemon : stage[d] = "writing" => ~Clash(doc, hand[d])
    /\ RecordedIsOnFile

FInv == FilesTypeOK /\ Written

LEMMA FilesInitially == FilesInit => FInv
  BY DEF FilesInit, FInv, FilesTypeOK, Written, RecordedIsOnFile, Contents

LEMMA FilesStay ==
  ASSUME FInv, UNCHANGED fileVars
  PROVE  FInv'
  BY DEF fileVars, callVars, FInv, FilesTypeOK, Written, RecordedIsOnFile

LEMMA ScanKeeps ==
  ASSUME FInv, NEW d \in Daemon, NEW docs \in SUBSET Doc, Scan(d, docs)
  PROVE  FInv'
  BY DEF Scan, FInv, FilesTypeOK, Written, RecordedIsOnFile

LEMMA CallKeeps ==
  ASSUME FInv, NEW d \in Daemon, NEW doc \in Doc, Call(d, doc)
  PROVE  FInv'
  <1> USE DEF FInv
  <1>1. FilesTypeOK'
    BY DEF Call, FilesTypeOK
  <1>2. hand' = [hand EXCEPT ![d] = doc] /\ stage' = [stage EXCEPT ![d] = "called"]
    BY DEF Call
  <1>3. \A a, b \in Daemon :
          a # b /\ stage'[a] # "idle" /\ Clash(hand'[a], hand'[b]) => a \in contested'
    <2> SUFFICES ASSUME NEW a \in Daemon, NEW b \in Daemon, a # b, stage'[a] # "idle",
                        Clash(hand'[a], hand'[b])
                 PROVE  a \in contested'
      OBVIOUS
    <2>1. CASE a = d
      <3>1. Clash(doc, hand[b])
        BY <2>1, <1>2 DEF FilesTypeOK
      <3> QED BY <3>1, <2>1 DEF Call
    <2>2. CASE b = d
      <3>1. Clash(doc, hand[a])
        BY <2>2, <1>2, ClashSymmetric DEF FilesTypeOK
      <3> QED BY <3>1, <2>2 DEF Call
    <2>3. CASE a # d /\ b # d
      <3>1. a \in contested
        BY <2>3, <1>2 DEF Written, FilesTypeOK
      <3> QED BY <3>1 DEF Call
    <2> QED BY <2>1, <2>2, <2>3
  <1>4. \A s \in settled', e \in Daemon : stage'[e] = "writing" => ~Clash(s, hand'[e])
    BY <1>2 DEF Call, FilesTypeOK, Written
  <1>5. \A e \in Daemon \ contested' :
          /\ stage'[e] = "writing" => files'[PathOf(hand'[e])] = Empty
          /\ stage'[e] = "written" => files'[PathOf(hand'[e])] = hand'[e]
    BY <1>2 DEF Call, FilesTypeOK, Written
  <1>6. RecordedIsOnFile'
    BY DEF Call, Written, RecordedIsOnFile
  <1> QED BY <1>1, <1>3, <1>4, <1>5, <1>6 DEF Written

\* A call that ends without touching a file leaves the rest as it is.
LEMMA ReturnKeeps ==
  ASSUME FInv, NEW d \in Daemon, Return(d), UNCHANGED <<files, recorded, settled>>,
         listed' \in [Daemon -> SUBSET Doc]
  PROVE  FInv'
  <1>1. /\ hand' = [hand EXCEPT ![d] = NoDoc]
        /\ stage' = [stage EXCEPT ![d] = "idle"]
        /\ contested' = contested \ {d}
    BY DEF Return
  <1>2. FilesTypeOK'
    BY <1>1 DEF FInv, FilesTypeOK
  <1>3. Written'
    <2>1. \A a, b \in Daemon :
            a # b /\ stage'[a] # "idle" /\ Clash(hand'[a], hand'[b]) => a \in contested'
      BY <1>1, NoDocClashesNot DEF FInv, FilesTypeOK, Written
    <2>2. \A e \in Daemon \ contested' :
            /\ stage'[e] = "writing" => files'[PathOf(hand'[e])] = Empty
            /\ stage'[e] = "written" => files'[PathOf(hand'[e])] = hand'[e]
      BY <1>1 DEF FInv, FilesTypeOK, Written
    <2>3. \A s \in settled', e \in Daemon : stage'[e] = "writing" => ~Clash(s, hand'[e])
      BY <1>1, NoDocClashesNot DEF FInv, FilesTypeOK, Written
    <2>4. RecordedIsOnFile'
      BY DEF FInv, Written, RecordedIsOnFile
    <2> QED BY <2>1, <2>2, <2>3, <2>4 DEF Written
  <1> QED BY <1>2, <1>3 DEF FInv

LEMMA RecordKeeps ==
  ASSUME FInv, NEW d \in Daemon, Record(d)
  PROVE  FInv'
  <1>1. /\ hand' = [hand EXCEPT ![d] = NoDoc]
        /\ stage' = [stage EXCEPT ![d] = "idle"]
        /\ contested' = contested \ {d}
        /\ files' = files /\ listed' = listed
        /\ stage[d] = "written"
    BY DEF Record, Return
  <1>2. hand[d] \in Doc
    BY <1>1 DEF FInv, FilesTypeOK
  <1>3. FilesTypeOK'
    BY <1>1, <1>2 DEF Record, FInv, FilesTypeOK
  <1>4. \A a, b \in Daemon :
          a # b /\ stage'[a] # "idle" /\ Clash(hand'[a], hand'[b]) => a \in contested'
    BY <1>1, NoDocClashesNot DEF FInv, FilesTypeOK, Written
  <1>5. \A e \in Daemon \ contested' :
          /\ stage'[e] = "writing" => files'[PathOf(hand'[e])] = Empty
          /\ stage'[e] = "written" => files'[PathOf(hand'[e])] = hand'[e]
    BY <1>1 DEF FInv, FilesTypeOK, Written
  <1>6. \A s \in settled', e \in Daemon : stage'[e] = "writing" => ~Clash(s, hand'[e])
    <2> SUFFICES ASSUME NEW s \in settled', NEW e \in Daemon
                 PROVE  stage'[e] = "writing" => ~Clash(s, hand'[e])
      OBVIOUS
    <2>1. CASE s \in settled
      BY <1>1, <2>1, NoDocClashesNot DEF FInv, FilesTypeOK, Written
    <2>2. CASE s \notin settled
      <3>1. s = hand[d] /\ d \notin contested
        BY <2>2 DEF Record
      <3> QED BY <1>1, <1>2, <3>1, NoDocClashesNot DEF FInv, FilesTypeOK, Written
    <2> QED BY <2>1, <2>2
  <1>7. RecordedIsOnFile'
    BY <1>1 DEF Record, FInv, Written, RecordedIsOnFile
  <1> QED BY <1>3, <1>4, <1>5, <1>6, <1>7 DEF FInv, Written

\* A step that changes at most the file of the document in hand, to its contents c.
LEMMA OtherFilesKept ==
  ASSUME FInv, NEW d \in Daemon, stage[d] # "idle", NEW c,
         files' = [files EXCEPT ![PathOf(hand[d])] = c]
  PROVE  /\ \A s \in settled : ~Clash(s, hand[d]) => files'[PathOf(s)] = files[PathOf(s)]
         /\ \A e \in Daemon \ contested :
              e # d /\ stage[e] # "idle" => files'[PathOf(hand[e])] = files[PathOf(hand[e])]
         /\ files'[PathOf(hand[d])] = c
  <1>1. hand[d] \in Doc
    BY DEF FInv, FilesTypeOK
  <1>2. \A s \in settled : ~Clash(s, hand[d]) => PathOf(s) # PathOf(hand[d])
    BY <1>1, SharedPath DEF FInv, FilesTypeOK, Written
  <1>3. \A e \in Daemon \ contested :
          e # d /\ stage[e] # "idle" => PathOf(hand[e]) # PathOf(hand[d])
    BY <1>1, SharedPath DEF FInv, FilesTypeOK, Written
  <1>4. files \in [Path -> Contents] /\ PathOf(hand[d]) \in Path
    BY <1>1, PathsOfDocs DEF FInv, FilesTypeOK
  <1>5. \A q \in Path : q # PathOf(hand[d]) => files'[q] = files[q]
    BY <1>4
  <1>6. \A s \in settled : PathOf(s) \in Path
    BY PathsOfDocs DEF FInv, FilesTypeOK
  <1>7. \A e \in Daemon : stage[e] # "idle" => PathOf(hand[e]) \in Path
    BY PathsOfDocs DEF FInv, FilesTypeOK
  <1> QED BY <1>2, <1>3, <1>4, <1>5, <1>6, <1>7

LEMMA TruncateKeeps ==
  ASSUME FInv, NEW d \in Daemon, Truncate(d)
  PROVE  FInv'
  <1>1. /\ stage[d] = "called"
        /\ files' = [files EXCEPT ![PathOf(hand[d])] = Empty]
        /\ stage' = [stage EXCEPT ![d] = "writing"]
        /\ settled' = {s \in settled : ~Clash(hand[d], s)}
        /\ UNCHANGED <<listed, hand, recorded, contested>>
    BY DEF Truncate
  <1>2. \A s \in settled' : s \in settled /\ ~Clash(s, hand[d])
    BY <1>1, ClashSymmetric DEF FInv, FilesTypeOK
  <1>3. /\ \A s \in settled' : files'[PathOf(s)] = files[PathOf(s)]
        /\ \A e \in Daemon \ contested :
             e # d /\ stage[e] # "idle" => files'[PathOf(hand[e])] = files[PathOf(hand[e])]
        /\ files'[PathOf(hand[d])] = Empty
    BY <1>1, <1>2, OtherFilesKept
  <1>4. FilesTypeOK'
    BY <1>1 DEF FInv, FilesTypeOK, Contents
  <1>5. Written'
    BY <1>1, <1>2, <1>3 DEF FInv, FilesTypeOK, Written, RecordedIsOnFile
  <1> QED BY <1>4, <1>5 DEF FInv

LEMMA WriteKeeps ==
  ASSUME FInv, NEW d \in Daemon, Write(d)
  PROVE  FInv'
  <1>1. PICK c \in LeftBy(d) : files' = [files EXCEPT ![PathOf(hand[d])] = c]
    BY DEF Write
  <1>2. /\ stage[d] = "writing"
        /\ stage' = [stage EXCEPT ![d] = "written"]
        /\ settled' \subseteq settled \cup {hand[d]}
        /\ settled' \subseteq recorded
        /\ d \in contested => settled' = settled
        /\ UNCHANGED <<listed, hand, recorded, contested>>
    BY DEF Write, FInv, FilesTypeOK
  <1>3. /\ \A s \in settled : files'[PathOf(s)] = files[PathOf(s)]
        /\ \A e \in Daemon \ contested :
             e # d /\ stage[e] # "idle" => files'[PathOf(hand[e])] = files[PathOf(hand[e])]
        /\ files'[PathOf(hand[d])] = c
    BY <1>1, <1>2, OtherFilesKept DEF FInv, Written
  <1>4. d \notin contested => c = hand[d]
    BY <1>1, <1>2 DEF FInv, Written, LeftBy
  <1>5. c \in Contents
    BY <1>1, <1>2 DEF LeftBy, FInv, FilesTypeOK, Contents
  <1>6. FilesTypeOK'
    BY <1>1, <1>2, <1>5 DEF FInv, FilesTypeOK
  <1>7. \A s \in settled' : files'[PathOf(s)] = s
    BY <1>2, <1>3, <1>4 DEF FInv, Written, RecordedIsOnFile
  <1>8. \A s \in settled', e \in Daemon : stage'[e] = "writing" => ~Clash(s, hand[e])
    <2> SUFFICES ASSUME NEW s \in settled', NEW e \in Daemon, stage'[e] = "writing"
                 PROVE  ~Clash(s, hand[e])
      OBVIOUS
    <2>1. e # d /\ stage[e] = "writing"
      BY <1>2 DEF FInv, FilesTypeOK
    <2>2. CASE s \in settled
      BY <2>1, <2>2 DEF FInv, Written
    <2>3. CASE s \notin settled
      <3>1. s = hand[d] /\ d \notin contested
        BY <1>2, <2>3
      <3> QED BY <1>2, <2>1, <3>1 DEF FInv, Written
    <2> QED BY <2>2, <2>3
  <1>9. Written'
    BY <1>2, <1>3, <1>4, <1>7, <1>8 DEF FInv, FilesTypeOK, Written, RecordedIsOnFile
  <1> QED BY <1>6, <1>9 DEF FInv

\* A write that ends early leaves its own file anyhow, and the daemon without it.
LEMMA CutShortKeeps ==
  ASSUME FInv, NEW d \in Daemon, stage[d] = "writing", CutShort(d), Return(d),
         UNCHANGED <<recorded, settled>>, listed' \in [Daemon -> SUBSET Doc]
  PROVE  FInv'
  <1>1. CASE files' = files
    BY <1>1, ReturnKeeps
  <1>2. CASE files' = [files EXCEPT ![PathOf(hand[d])] = Broken]
    <2>1. /\ hand' = [hand EXCEPT ![d] = NoDoc]
          /\ stage' = [stage EXCEPT ![d] = "idle"]
          /\ contested' = contested \ {d}
      BY DEF Return
    <2>2. /\ \A s \in settled : files'[PathOf(s)] = files[PathOf(s)]
          /\ \A e \in Daemon \ contested :
               e # d /\ stage[e] # "idle" => files'[PathOf(hand[e])] = files[PathOf(hand[e])]
      BY <1>2, OtherFilesKept DEF FInv, Written
    <2>3. FilesTypeOK'
      BY <1>2, <2>1 DEF FInv, FilesTypeOK, Contents
    <2>4. \A a, b \in Daemon :
            a # b /\ stage'[a] # "idle" /\ Clash(hand'[a], hand'[b]) => a \in contested'
      BY <2>1, NoDocClashesNot DEF FInv, FilesTypeOK, Written
    <2>5. \A e \in Daemon \ contested' :
            /\ stage'[e] = "writing" => files'[PathOf(hand'[e])] = Empty
            /\ stage'[e] = "written" => files'[PathOf(hand'[e])] = hand'[e]
      BY <2>1, <2>2 DEF FInv, FilesTypeOK, Written
    <2>6. \A s \in settled', e \in Daemon : stage'[e] = "writing" => ~Clash(s, hand'[e])
      BY <2>1, NoDocClashesNot DEF FInv, FilesTypeOK, Written
    <2>7. RecordedIsOnFile'
      BY <2>2 DEF FInv, Written, RecordedIsOnFile
    <2> QED BY <2>3, <2>4, <2>5, <2>6, <2>7 DEF FInv, Written
  <1> QED BY <1>1, <1>2 DEF CutShort

LEMMA ListedStays ==
  ASSUME FInv, NEW d \in Daemon
  PROVE  /\ listed' = listed => listed' \in [Daemon -> SUBSET Doc]
         /\ listed' = [listed EXCEPT ![d] = {}] => listed' \in [Daemon -> SUBSET Doc]
  BY DEF FInv, FilesTypeOK

LEMMA StopKeeps ==
  ASSUME FInv, NEW d \in Daemon, Stop(d)
  PROVE  FInv'
  <1>1. CASE stage[d] = "writing"
    BY <1>1, CutShortKeeps, ListedStays DEF Stop
  <1>2. CASE stage[d] # "writing"
    BY <1>2, ReturnKeeps, ListedStays DEF Stop
  <1> QED BY <1>1, <1>2

LEMMA ExchangeKeeps ==
  ASSUME FInv, NEW d \in Daemon, Exchange(d)
  PROVE  FInv'
  <1>1. CASE \E docs \in SUBSET Doc : Scan(d, docs)
    BY <1>1, ScanKeeps
  <1>2. CASE \E doc \in Doc : Call(d, doc)
    BY <1>2, CallKeeps
  <1>3. CASE Record(d)
    BY <1>3, RecordKeeps
  <1>4. CASE StoreFails(d)
    BY <1>4, ReturnKeeps, ListedStays DEF StoreFails
  <1>5. CASE Refuse(d)
    BY <1>5, ReturnKeeps, ListedStays DEF Refuse
  <1>6. CASE Truncate(d)
    BY <1>6, TruncateKeeps
  <1>7. CASE Write(d)
    BY <1>7, WriteKeeps
  <1>8. CASE WriteFails(d)
    BY <1>8, CutShortKeeps, ListedStays DEF WriteFails
  <1> QED BY <1>1, <1>2, <1>3, <1>4, <1>5, <1>6, <1>7, <1>8 DEF Exchange

-----------------------------------------------------------------------------
(* The installation. *)

USE OfflineAssumption

IInv == UInv /\ FInv

LEMMA OpeningKeeps ==
  ASSUME UInv, NEW p \in Process, Opening(p)
  PROVE  UInv'
  BY ApplySchemaKeeps, InspectKeeps, AddColumnKeeps, DuplicateColumnKeeps,
     RenameStatusesKeeps, ApplyIndexesKeeps DEF Opening

LEMMA NextKeeps ==
  ASSUME IInv, [Next]_vars
  PROVE  IInv'
  <1> USE DEF IInv
  <1>1. ASSUME NEW p \in Process, OpenStore(p) PROVE IInv'
    BY <1>1, OpeningKeeps, FilesStay DEF OpenStore
  <1>2. ASSUME NEW d \in Daemon, RunOnce(d) PROVE IInv'
    BY <1>2, ExchangeKeeps, UpgradeStays DEF RunOnce
  <1>3. ASSUME NEW p \in Process, End(p) PROVE IInv'
    <2>1. UInv'
      BY <1>3, BreakKeeps DEF End
    <2>2. FInv'
      BY <1>3, StopKeeps, FilesStay DEF End
    <2> QED BY <2>1, <2>2
  <1>4. CASE UNCHANGED vars
    BY <1>4, UpgradeStays, FilesStay DEF vars
  <1> QED BY <1>1, <1>2, <1>3, <1>4 DEF Next

LEMMA Inductive == Spec => []IInv
  <1>1. Init => IInv
    BY UpgradeInitially, FilesInitially DEF Init, IInv
  <1>2. IInv /\ [Next]_vars => IInv'
    BY NextKeeps
  <1> QED BY <1>1, <1>2, PTL DEF Spec

\* Tables, lists, calls and files are typed, and a daemon holds a document exactly while
\* it is in a call of Push or Complete.
THEOREM OfflineTypeCorrect == Spec => []TypeOK
  <1>1. IInv => TypeOK
    BY DEF IInv, UInv, FInv, TypeOK
  <1> QED BY <1>1, Inductive, PTL

\* Every program that got through OpenAt works on the current table, index and statuses,
\* however many upgraded at once and wherever they stopped (store.go, migrate).
THEOREM OpenIsCurrentAlways == Spec => []OpenIsCurrent
  <1>1. IInv => OpenIsCurrent
    BY DEF IInv, UInv, Upgraded, OpenIsCurrent
  <1> QED BY <1>1, Inductive, PTL

\* A recorded document that no daemon hands over again, nor a twin of it, is whole in its
\* file, however many daemons write and wherever they are cut off (jsonfile.go).
THEOREM RecordedIsOnFileAlways == Spec => []RecordedIsOnFile
  <1>1. IInv => RecordedIsOnFile
    BY DEF IInv, FInv, Written
  <1> QED BY <1>1, Inductive, PTL

=============================================================================
