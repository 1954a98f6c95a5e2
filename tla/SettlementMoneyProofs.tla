------------------------ MODULE SettlementMoneyProofs ------------------------
(***************************************************************************)
(* Where the money is in Settlement, for every finite set of invoices,     *)
(* payments and credit notes: what an invoice says was paid and credited   *)
(* is what its allocations add up to, and what a payment or a note brought *)
(* in is applied, unapplied or refunded.                                   *)
(*                                                                         *)
(* The sums are those of SumFunction, which folds the values of a function *)
(* on a finite set in an order that is not stated.  The first part shows   *)
(* that the order does not matter, and what the sum does when the function *)
(* changes.                                                                *)
(***************************************************************************)
EXTENDS SettlementProofs, FiniteSetTheorems

-----------------------------------------------------------------------------
(* Sums of the values of a function on a finite set *)

(* A family of subsets of a finite set that holds every set all of whose   *)
(* subsets with one element less it holds, holds them all.                 *)
LEMMA SubsetInduction ==
  ASSUME NEW S, IsFiniteSet(S), NEW G,
         \A T \in SUBSET S : (\A x \in T : T \ {x} \in G) => T \in G
  PROVE  \A T \in SUBSET S : T \in G
<1> DEFINE B == {T \in SUBSET S : T \notin G}
<1> SUFFICES ASSUME B # {} PROVE FALSE
  OBVIOUS
<1>1. FiniteSubsetsOf(S) = SUBSET S
  BY FS_FiniteSubsetsOfFinite
<1>2. IsWellFoundedOn(StrictSubsetOrdering(S), SUBSET S)
  <2>1. IsWellFoundedOn(StrictSubsetOrdering(S), FiniteSubsetsOf(S))
    BY FS_StrictSubsetOrderingWellFounded
  <2> QED BY <1>1, <2>1
<1>3. PICK T \in B : \A U \in B : ~ (<<U, T>> \in StrictSubsetOrdering(S))
  BY <1>2, WFMin, Zenon
<1>4. ASSUME NEW x \in T PROVE T \ {x} \in G
  <2>1. T \ {x} \in SUBSET S /\ T \ {x} \subseteq T /\ T \ {x} # T
    OBVIOUS
  <2>2. <<T \ {x}, T>> \in StrictSubsetOrdering(S)
    BY <2>1 DEF StrictSubsetOrdering
  <2>3. T \ {x} \notin B
    BY <1>3, <2>2
  <2> QED BY <2>1, <2>3
<1> QED BY <1>4

Pick(T) == CHOOSE x \in T : TRUE

(* g tells the sum of f over every part of S.                              *)
Sums(f, S, g) ==
  g = [T \in SUBSET S |-> IF T = {} THEN 0 ELSE f[Pick(T)] + g[T \ {Pick(T)}]]

LEMMA SumDef ==
  ASSUME NEW f
  PROVE  SumFunction(f) = (CHOOSE g : Sums(f, DOMAIN f, g))[DOMAIN f]
BY Zenon DEF SumFunction, SumFunctionOnSet, FoldFunctionOnSet, MapThenFoldSet, Sums, Pick

LEMMA Picked == ASSUME NEW T, T # {} PROVE Pick(T) \in T
BY DEF Pick

(* There is such a g: one for the parts of n elements at most gives one    *)
(* for the parts of n + 1.                                                 *)
LEMMA SumsExist ==
  ASSUME NEW f, NEW S, IsFiniteSet(S)
  PROVE  \E g : Sums(f, S, g)
<1> DEFINE C(n) == {T \in SUBSET S : Cardinality(T) <= n}
           Rec(g, T) == IF T = {} THEN 0 ELSE f[Pick(T)] + g[T \ {Pick(T)}]
           P(n) == \E g : g = [T \in C(n) |-> Rec(g, T)]
           B == {n \in Nat : ~ P(n)}
<1>1. \A T \in SUBSET S : IsFiniteSet(T) /\ Cardinality(T) \in Nat
  BY FS_Subset, FS_CardinalityType
<1>2. P(0)
  <2> DEFINE g == [T \in C(0) |-> 0]
  <2>1. \A T \in C(0) : T = {}
    BY <1>1, FS_EmptySet
  <2>2. g = [T \in C(0) |-> Rec(g, T)]
    <3> HIDE DEF C
    <3> QED BY <2>1
  <2> QED BY <2>2
<1>3. ASSUME NEW n \in Nat, P(n) PROVE P(n + 1)
  <2>1. PICK g : g = [T \in C(n) |-> Rec(g, T)]
    BY <1>3
  <2> DEFINE h == [T \in C(n + 1) |-> Rec(g, T)]
  <2>2. \A T \in C(n) : T \in C(n + 1)
    BY <1>1
  <2>3. \A T \in C(n) : h[T] = g[T]
    <3> HIDE DEF C, Rec
    <3> QED BY <2>1, <2>2
  <2>4. ASSUME NEW T \in C(n + 1), T # {} PROVE T \ {Pick(T)} \in C(n)
    <3>1. Pick(T) \in T /\ T \in SUBSET S /\ Cardinality(T) <= n + 1 /\ IsFiniteSet(T)
      BY <1>1, <2>4, Picked
    <3>2. Cardinality(T \ {Pick(T)}) = Cardinality(T) - 1
      BY <3>1, FS_RemoveElement
    <3> QED BY <1>1, <3>1, <3>2
  <2>5. \A T \in C(n + 1) : Rec(g, T) = Rec(h, T)
    <3> HIDE DEF C, h
    <3> QED BY <2>3, <2>4
  <2>6. h = [T \in C(n + 1) |-> Rec(h, T)]
    <3> HIDE DEF C, Rec
    <3> QED BY <2>5
  <2> QED BY <2>6
<1> HIDE DEF P
<1>4. ASSUME B # {} PROVE FALSE
  <2>1. PICK n \in B : \A m \in B : <<m, n>> \notin OpToRel(<, Nat)
    BY <1>4, WFMin, NatLessThanWellFounded, Zenon
  <2>2. \A m \in B : ~ (m < n)
    <3>1. B \subseteq Nat
      OBVIOUS
    <3> HIDE DEF B
    <3> QED BY <2>1, <3>1, Zenon DEF OpToRel
  <2>3. n \in Nat /\ n # 0 /\ ~ P(n)
    BY <1>2
  <2>4. n - 1 \in Nat /\ P(n - 1)
    BY <2>2, <2>3
  <2>5. P((n - 1) + 1)
    BY <1>3, <2>4
  <2>6. (n - 1) + 1 = n
    BY <2>3
  <2> QED BY <2>3, <2>5, <2>6
<1>5. P(Cardinality(S))
  BY <1>1, <1>4
<1>6. C(Cardinality(S)) = SUBSET S
  BY <1>1, FS_Subset
<1> QED BY <1>5, <1>6 DEF P, Sums

(* The sum of a part grows by f[x] with any x, not with the chosen one     *)
(* alone.                                                                  *)
Grows(f, S, g) ==
  /\ g[{}] = 0
  /\ \A T \in SUBSET S : g[T] \in Int
  /\ \A T \in SUBSET S : \A x \in T : g[T] = f[x] + g[T \ {x}]

LEMMA SumsGrow ==
  ASSUME NEW f, NEW S, IsFiniteSet(S), \A x \in S : f[x] \in Int, NEW g, Sums(f, S, g)
  PROVE  Grows(f, S, g)
<1>1. g[{}] = 0
  BY DEF Sums
<1>2. \A T \in SUBSET S : T # {} =>
        Pick(T) \in T /\ g[T] = f[Pick(T)] + g[T \ {Pick(T)}]
  BY Picked DEF Sums
<1> DEFINE G == {T \in SUBSET S : g[T] \in Int}
           H == {T \in SUBSET S : \A x \in T : g[T] = f[x] + g[T \ {x}]}
<1>3. \A T \in SUBSET S : T \in G
  <2>1. ASSUME NEW T \in SUBSET S, \A x \in T : T \ {x} \in G PROVE T \in G
    <3>1. CASE T = {} BY <1>1, <3>1
    <3>2. CASE T # {}
      <4> DEFINE p == Pick(T)
      <4>1. p \in T /\ g[T] = f[p] + g[T \ {p}]
        BY <1>2, <3>2
      <4> HIDE DEF p
      <4>2. f[p] \in Int /\ g[T \ {p}] \in Int
        BY <2>1, <4>1
      <4> QED BY <4>1, <4>2
    <3> QED BY <3>1, <3>2
  <2> HIDE DEF G
  <2> QED BY <2>1, SubsetInduction
<1>4. \A T \in SUBSET S : T \in H
  <2>1. ASSUME NEW T \in SUBSET S, \A x \in T : T \ {x} \in H PROVE T \in H
    <3> SUFFICES ASSUME NEW x \in T PROVE g[T] = f[x] + g[T \ {x}]
      OBVIOUS
    <3> DEFINE p == Pick(T)
    <3>1. p \in T /\ g[T] = f[p] + g[T \ {p}]
      BY <1>2
    <3> HIDE DEF p
    <3>2. CASE x = p BY <3>1, <3>2
    <3>3. CASE x # p
      <4>1. g[T \ {p}] = f[x] + g[(T \ {p}) \ {x}]
        BY <2>1, <3>1, <3>3
      <4>2. g[T \ {x}] = f[p] + g[(T \ {x}) \ {p}]
        BY <2>1, <3>1, <3>3
      <4>3. (T \ {p}) \ {x} = (T \ {x}) \ {p}
        OBVIOUS
      <4> DEFINE r == g[(T \ {x}) \ {p}]
      <4>4. r \in Int /\ f[x] \in Int /\ f[p] \in Int
        BY <1>3, <3>1
      <4>5. g[T] = f[p] + (f[x] + r) /\ g[T \ {x}] = f[p] + r
        BY <3>1, <4>1, <4>2, <4>3
      <4> HIDE DEF r
      <4> QED BY <4>4, <4>5
    <3> QED BY <3>2, <3>3
  <2> HIDE DEF H
  <2> QED BY <2>1, SubsetInduction
<1> QED BY <1>1, <1>3, <1>4 DEF Grows

-----------------------------------------------------------------------------
(* The lemmas to use *)

Summable(f) == IsFiniteSet(DOMAIN f) /\ \A x \in DOMAIN f : f[x] \in Int

LEMMA SumByParts ==
  ASSUME NEW f, NEW S, S = DOMAIN f, Summable(f)
  PROVE  \E g : SumFunction(f) = g[S] /\ Grows(f, S, g)
<1> DEFINE g == CHOOSE g : Sums(f, DOMAIN f, g)
<1>1. SumFunction(f) = g[DOMAIN f]
  BY SumDef, Zenon
<1>2. Sums(f, DOMAIN f, g)
  BY SumsExist, Zenon DEF Summable
<1> HIDE DEF g
<1>3. Grows(f, DOMAIN f, g)
  BY <1>2, SumsGrow DEF Summable
<1> QED BY <1>1, <1>3

LEMMA SumInt ==
  ASSUME NEW f, Summable(f)
  PROVE  SumFunction(f) \in Int
BY SumByParts DEF Grows

LEMMA SumEmpty ==
  ASSUME NEW f, DOMAIN f = {}
  PROVE  SumFunction(f) = 0
<1>1. Summable(f)
  BY FS_EmptySet DEF Summable
<1> QED BY <1>1, SumByParts DEF Grows

(* Of amounts, none exceeds the sum.                                       *)
LEMMA SumNat ==
  ASSUME NEW f, Summable(f), \A x \in DOMAIN f : f[x] >= 0
  PROVE  /\ SumFunction(f) \in Nat
         /\ \A x \in DOMAIN f : f[x] <= SumFunction(f)
<1> DEFINE S == DOMAIN f
<1>1. PICK g : SumFunction(f) = g[S] /\ Grows(f, S, g)
  BY SumByParts
<1>2. IsFiniteSet(S) /\ \A x \in S : f[x] \in Int /\ f[x] >= 0
  BY DEF Summable
<1> HIDE DEF S
<1> USE DEF Grows
<1> DEFINE G == {T \in SUBSET S : g[T] >= 0}
<1>3. ASSUME NEW T \in SUBSET S, \A x \in T : T \ {x} \in G PROVE T \in G
  <2>1. CASE T = {} BY <1>1, <2>1
  <2>2. CASE T # {}
    <3>1. PICK x \in T : TRUE BY <2>2
    <3>2. g[T] = f[x] + g[T \ {x}] /\ g[T \ {x}] \in Int
      BY <1>1
    <3>3. g[T \ {x}] >= 0 /\ f[x] \in Int /\ f[x] >= 0
      BY <1>2, <1>3
    <3> QED BY <3>2, <3>3
  <2> QED BY <2>1, <2>2
<1>4. \A T \in SUBSET S : T \in G
  <2> HIDE DEF G
  <2> QED BY <1>2, <1>3, SubsetInduction
<1>5. SumFunction(f) \in Nat
  BY <1>1, <1>4
<1>6. ASSUME NEW x \in S PROVE f[x] <= SumFunction(f)
  <2>1. g[S] = f[x] + g[S \ {x}] /\ g[S \ {x}] \in Int
    BY <1>1
  <2>2. g[S \ {x}] >= 0
    BY <1>4
  <2> QED BY <1>1, <1>2, <2>1, <2>2
<1> QED BY <1>5, <1>6 DEF S

LEMMA SumAdd ==
  ASSUME NEW f, NEW h, NEW k, Summable(f), Summable(h),
         DOMAIN h = DOMAIN f, DOMAIN k = DOMAIN f,
         \A x \in DOMAIN f : k[x] = f[x] + h[x]
  PROVE  SumFunction(k) = SumFunction(f) + SumFunction(h)
<1> DEFINE S == DOMAIN f
<1>1. /\ IsFiniteSet(S)
      /\ \A x \in S : f[x] \in Int /\ h[x] \in Int /\ k[x] = f[x] + h[x]
  BY DEF Summable
<1>2. Summable(k)
  BY <1>1 DEF Summable
<1>3. PICK a : SumFunction(f) = a[S] /\ Grows(f, S, a)
  BY SumByParts
<1>4. PICK b : SumFunction(h) = b[S] /\ Grows(h, S, b)
  BY SumByParts
<1>5. PICK c : SumFunction(k) = c[S] /\ Grows(k, S, c)
  BY <1>2, SumByParts
<1> HIDE DEF S
<1> USE DEF Grows
<1> DEFINE G == {T \in SUBSET S : c[T] = a[T] + b[T]}
<1>6. ASSUME NEW T \in SUBSET S, \A x \in T : T \ {x} \in G PROVE T \in G
  <2>1. CASE T = {} BY <1>3, <1>4, <1>5, <2>1
  <2>2. CASE T # {}
    <3>1. PICK x \in T : TRUE BY <2>2
    <3> DEFINE U == T \ {x}
    <3>2. /\ a[T] = f[x] + a[U] /\ b[T] = h[x] + b[U] /\ c[T] = k[x] + c[U]
          /\ a[U] \in Int /\ b[U] \in Int
      BY <1>3, <1>4, <1>5
    <3>3. c[U] = a[U] + b[U] /\ f[x] \in Int /\ h[x] \in Int /\ k[x] = f[x] + h[x]
      BY <1>1, <1>6
    <3> HIDE DEF U
    <3> QED BY <3>2, <3>3
  <2> QED BY <2>1, <2>2
<1>7. \A T \in SUBSET S : T \in G
  <2> HIDE DEF G
  <2> QED BY <1>1, <1>6, SubsetInduction
<1> QED BY <1>3, <1>4, <1>5, <1>7

(* What is zero may be left out.                                           *)
LEMMA SumSupport ==
  ASSUME NEW f, NEW h, Summable(f), DOMAIN h \subseteq DOMAIN f,
         \A x \in DOMAIN h : h[x] = f[x],
         \A x \in DOMAIN f \ DOMAIN h : f[x] = 0
  PROVE  SumFunction(f) = SumFunction(h)
<1> DEFINE S == DOMAIN f
           R == DOMAIN h
<1>1. IsFiniteSet(S) /\ \A x \in S : f[x] \in Int
  BY DEF Summable
<1>2. Summable(h)
  BY <1>1, FS_Subset DEF Summable
<1>3. PICK a : SumFunction(f) = a[S] /\ Grows(f, S, a)
  BY SumByParts
<1>4. PICK b : SumFunction(h) = b[R] /\ Grows(h, R, b)
  BY <1>2, SumByParts
<1>5. R \subseteq S /\ (\A x \in R : h[x] = f[x]) /\ (\A x \in S \ R : f[x] = 0)
  OBVIOUS
<1> HIDE DEF S, R
<1> USE DEF Grows
<1> DEFINE G == {T \in SUBSET S : a[T] = b[T \cap R]}
<1>6. ASSUME NEW T \in SUBSET S, \A x \in T : T \ {x} \in G PROVE T \in G
  <2>1. CASE T = {}
    <3>1. T \cap R = {}
      BY <2>1
    <3> QED BY <1>3, <1>4, <2>1, <3>1
  <2>2. CASE T # {}
    <3>1. PICK x \in T : TRUE BY <2>2
    <3>2. a[T] = f[x] + a[T \ {x}] /\ a[T \ {x}] \in Int
      BY <1>3
    <3>3. a[T \ {x}] = b[(T \ {x}) \cap R]
      BY <1>6
    <3>4. CASE x \in R
      <4>1. b[T \cap R] = h[x] + b[(T \cap R) \ {x}]
        BY <1>4, <3>4
      <4>2. (T \cap R) \ {x} = (T \ {x}) \cap R
        OBVIOUS
      <4> QED BY <1>5, <3>2, <3>3, <3>4, <4>1, <4>2
    <3>5. CASE x \notin R
      <4>1. T \cap R = (T \ {x}) \cap R /\ f[x] = 0
        BY <1>5, <3>5
      <4>2. a[T] = a[T \ {x}]
        BY <3>2, <4>1
      <4> QED BY <3>3, <4>1, <4>2
    <3> QED BY <3>4, <3>5
  <2> QED BY <2>1, <2>2
<1>7. \A T \in SUBSET S : T \in G
  <2> HIDE DEF G
  <2> QED BY <1>1, <1>6, SubsetInduction
<1>8. S \cap R = R /\ a[S] = b[S \cap R]
  BY <1>5, <1>7
<1> QED BY <1>3, <1>4, <1>8

LEMMA SumZero ==
  ASSUME NEW f, IsFiniteSet(DOMAIN f), \A x \in DOMAIN f : f[x] = 0
  PROVE  SumFunction(f) = 0
<1> DEFINE h == [x \in {} |-> 0]
<1>1. Summable(f)
  BY DEF Summable
<1>2. DOMAIN h = {} /\ SumFunction(h) = 0
  BY SumEmpty
<1> HIDE DEF h
<1> QED BY <1>1, <1>2, SumSupport

(* Only x counts.                                                          *)
LEMMA SumOne ==
  ASSUME NEW f, NEW x \in DOMAIN f, Summable(f),
         \A y \in DOMAIN f \ {x} : f[y] = 0
  PROVE  SumFunction(f) = f[x]
<1> DEFINE h == [y \in {x} |-> f[y]]
<1>1. SumFunction(f) = SumFunction(h)
  BY SumSupport
<1>2. Summable(h) /\ DOMAIN h = {x} /\ h[x] = f[x] /\ f[x] \in Int
  BY FS_Singleton DEF Summable
<1> HIDE DEF h
<1>3. PICK k : SumFunction(h) = k[{x}] /\ Grows(h, {x}, k)
  BY <1>2, SumByParts
<1>4. k[{x}] = h[x] + k[{x} \ {x}] /\ {x} \ {x} = {} /\ k[{}] = 0
  BY <1>3 DEF Grows
<1> QED BY <1>1, <1>2, <1>3, <1>4

(* One argument changes its value.                                         *)
LEMMA SumUpdate ==
  ASSUME NEW f, NEW h, Summable(f), DOMAIN h = DOMAIN f,
         NEW x \in DOMAIN f, h[x] \in Int,
         \A y \in DOMAIN f \ {x} : h[y] = f[y]
  PROVE  SumFunction(h) = SumFunction(f) + h[x] - f[x]
<1> DEFINE d == [y \in DOMAIN f |-> IF y = x THEN h[x] - f[x] ELSE 0]
<1>1. Summable(d) /\ DOMAIN d = DOMAIN f /\ d[x] = h[x] - f[x] /\ d[x] \in Int
      /\ \A y \in DOMAIN f \ {x} : d[y] = 0
  BY DEF Summable
<1>2. SumFunction(d) = h[x] - f[x]
  <2> HIDE DEF d
  <2> QED BY <1>1, SumOne
<1>3. \A y \in DOMAIN f : h[y] = f[y] + d[y]
  <2> HIDE DEF d
  <2> QED BY <1>1 DEF Summable
<1> HIDE DEF d
<1>4. SumFunction(h) = SumFunction(f) + SumFunction(d)
  BY <1>1, <1>3, SumAdd
<1>5. SumFunction(f) \in Int /\ f[x] \in Int
  BY SumInt DEF Summable
<1> QED BY <1>2, <1>4, <1>5

(* One more summand *)
LEMMA SumInsert ==
  ASSUME NEW f, NEW h, NEW x, Summable(f), x \notin DOMAIN f,
         DOMAIN h = DOMAIN f \cup {x}, h[x] \in Int,
         \A y \in DOMAIN f : h[y] = f[y]
  PROVE  SumFunction(h) = SumFunction(f) + h[x]
<1> DEFINE k == [y \in DOMAIN f \cup {x} |-> IF y = x THEN 0 ELSE f[y]]
<1>1. /\ DOMAIN k = DOMAIN f \cup {x} /\ k[x] = 0
      /\ \A y \in DOMAIN f : k[y] = f[y]
  OBVIOUS
<1>2. IsFiniteSet(DOMAIN f \cup {x})
  BY FS_AddElement DEF Summable
<1>3. Summable(k)
  BY <1>1, <1>2 DEF Summable
<1> HIDE DEF k
<1>4. SumFunction(k) = SumFunction(f)
  BY <1>1, <1>3, SumSupport
<1>5. SumFunction(h) = SumFunction(k) + h[x] - k[x]
  BY <1>1, <1>3, SumUpdate
<1>6. SumFunction(f) \in Int
  BY SumInt
<1> QED BY <1>1, <1>4, <1>5, <1>6

-----------------------------------------------------------------------------
(* What is taken from a source, and what an invoice was paid *)

(* What the source of an invoice's allocations has applied in all.         *)
Taken(row) == SumFunction([i \in Invoices |-> row[i].amount])

PaidBy(app, i)     == SumFunction([p \in Payments |-> app[p][i].amount])
CreditedBy(app, i) == SumFunction([n \in CreditNotes |-> app[n][i].amount])

Rows == [Invoices -> Applied]

-----------------------------------------------------------------------------
(* The sums *)

LEMMA AllocAmounts ==
  ASSUME NEW alloc \in Allocations
  PROVE  /\ DOMAIN alloc \subseteq Invoices
         /\ \A i \in DOMAIN alloc : alloc[i] \in Nat \ {0}
         /\ Summable(alloc) /\ SumFunction(alloc) \in Nat
<1>1. DOMAIN alloc \subseteq Invoices /\ \A i \in DOMAIN alloc : alloc[i] \in Amounts
  BY DEF Allocations
<1>2. \A i \in DOMAIN alloc : alloc[i] \in Nat \ {0}
  BY <1>1, ReceivablesAssumption
<1>3. Summable(alloc)
  BY <1>1, <1>2, FS_Subset, ReceivablesAssumption DEF Summable
<1>4. SumFunction(alloc) \in Nat
  BY <1>2, <1>3, SumNat
<1> QED BY <1>1, <1>2, <1>3, <1>4

LEMMA TakenNat ==
  ASSUME NEW row \in Rows
  PROVE  Taken(row) \in Nat /\ \A i \in Invoices : row[i].amount <= Taken(row)
<1> DEFINE f == [i \in Invoices |-> row[i].amount]
<1>1. Summable(f) /\ DOMAIN f = Invoices /\ \A i \in Invoices : f[i] = row[i].amount /\ f[i] >= 0
  BY ReceivablesAssumption DEF Summable, Rows, Applied
<1> HIDE DEF f
<1>2. SumFunction(f) \in Nat /\ \A i \in Invoices : f[i] <= SumFunction(f)
  BY <1>1, SumNat
<1> QED BY <1>1, <1>2 DEF Taken, f

LEMMA TakenNothing == NothingApplied \in Rows /\ Taken(NothingApplied) = 0
<1> DEFINE f == [i \in Invoices |-> NothingApplied[i].amount]
<1>1. DOMAIN f = Invoices /\ \A i \in Invoices : f[i] = 0
  BY DEF NothingApplied
<1> HIDE DEF f
<1>2. SumFunction(f) = 0
  BY <1>1, SumZero, ReceivablesAssumption
<1>3. NothingApplied \in Rows
  BY DEF NothingApplied, Rows, Applied
<1> QED BY <1>2, <1>3 DEF Taken, f

(* One allocation is made where there was none.                            *)
LEMMA TakenOne ==
  ASSUME NEW row \in Rows, NEW i \in Invoices, NEW a \in Applied, row[i].amount = 0
  PROVE  Taken([row EXCEPT ![i] = a]) = Taken(row) + a.amount
<1> DEFINE f == [j \in Invoices |-> row[j].amount]
           new == [row EXCEPT ![i] = a]
           h == [j \in Invoices |-> new[j].amount]
<1>1. Summable(f) /\ DOMAIN f = Invoices /\ f[i] = 0
  BY ReceivablesAssumption DEF Summable, Rows, Applied
<1>2. DOMAIN h = Invoices /\ h[i] = a.amount /\ h[i] \in Int
      /\ \A j \in Invoices \ {i} : h[j] = f[j]
  BY DEF Rows, Applied
<1> HIDE DEF f, h
<1>3. SumFunction(h) = SumFunction(f) + h[i] - f[i]
  BY <1>1, <1>2, SumUpdate
<1>4. SumFunction(f) \in Int
  BY <1>1, SumInt
<1>5. SumFunction(h) = SumFunction(f) + a.amount
  BY <1>1, <1>2, <1>3, <1>4
<1> QED BY <1>5 DEF Taken, f, h, new

LEMMA TakenAfter ==
  ASSUME NEW row \in Rows, NEW invs, NEW alloc \in Allocations
  PROVE  Taken(AppliedAfter(row, invs, alloc)) = Taken(row) + SumFunction(alloc)
<1> DEFINE f == [i \in Invoices |-> row[i].amount]
           more == [i \in Invoices |-> IF i \in DOMAIN alloc THEN alloc[i] ELSE 0]
           k == [i \in Invoices |-> AppliedAfter(row, invs, alloc)[i].amount]
<1>1. DOMAIN alloc \subseteq Invoices /\ \A i \in DOMAIN alloc : alloc[i] \in Nat
  BY AllocAmounts
<1>2. Summable(f) /\ DOMAIN f = Invoices /\ \A i \in Invoices : f[i] = row[i].amount /\ f[i] \in Nat
  BY ReceivablesAssumption DEF Summable, Rows, Applied
<1>3. /\ Summable(more) /\ DOMAIN more = Invoices
      /\ \A i \in DOMAIN alloc : alloc[i] = more[i]
      /\ \A i \in Invoices \ DOMAIN alloc : more[i] = 0
  BY <1>1, ReceivablesAssumption DEF Summable
<1>4. DOMAIN k = Invoices /\ \A i \in Invoices : k[i] = f[i] + more[i]
  BY <1>2 DEF AppliedAfter
<1> HIDE DEF f, more, k
<1>5. SumFunction(k) = SumFunction(f) + SumFunction(more)
  BY <1>2, <1>3, <1>4, SumAdd
<1>6. SumFunction(more) = SumFunction(alloc)
  BY <1>1, <1>3, SumSupport
<1> QED BY <1>5, <1>6 DEF Taken, f, k

LEMMA AppliedAfterRows ==
  ASSUME NEW row \in Rows, NEW invs, NEW alloc \in Allocations,
         NEW lax, NEW gone, Sound(invs, lax, gone), NEW c, LoadTargets(invs, c, alloc)
  PROVE  AppliedAfter(row, invs, alloc) \in Rows
<1>1. ASSUME NEW i \in DOMAIN alloc
      PROVE  /\ alloc[i] \in Nat
             /\ [status |-> invs[i].status, paidAt |-> invs[i].paidAt] \in Moment
  <2>1. i \in Invoices /\ alloc[i] \in Nat /\ invs[i].status \in Collectible
        /\ invs[i].paidAt \in BOOLEAN
    BY <1>1, AllocAmounts DEF LoadTargets, Sound, Invoice
  <2> QED BY <2>1 DEF Moment
<1>2. ASSUME NEW i \in Invoices PROVE AppliedAfter(row, invs, alloc)[i] \in Applied
  <2>1. row[i] \in Applied /\ row[i].amount \in Nat /\ row[i].before \subseteq Moment
    BY DEF Rows, Applied
  <2>2. CASE i \in DOMAIN alloc
    <3> DEFINE m == [status |-> invs[i].status, paidAt |-> invs[i].paidAt]
    <3>1. m \in Moment /\ alloc[i] \in Nat
      BY <1>1, <2>2
    <3>2. AppliedAfter(row, invs, alloc)[i]
            = [amount |-> row[i].amount + alloc[i], before |-> row[i].before \cup {m}]
      BY <2>2 DEF AppliedAfter
    <3> HIDE DEF m
    <3>3. row[i].before \cup {m} \in SUBSET Moment /\ row[i].amount + alloc[i] \in Nat
      BY <2>1, <3>1
    <3> QED BY <3>2, <3>3 DEF Applied
  <2>3. CASE i \notin DOMAIN alloc
    BY <2>1, <2>3 DEF AppliedAfter
  <2> QED BY <2>2, <2>3
<1> QED BY <1>2 DEF AppliedAfter, Rows

LEMMA PaidByNat ==
  ASSUME NEW app \in [Sources -> Rows], NEW i \in Invoices
  PROVE  /\ PaidBy(app, i) \in Nat /\ \A p \in Payments : app[p][i].amount <= PaidBy(app, i)
         /\ CreditedBy(app, i) \in Nat
         /\ \A n \in CreditNotes : app[n][i].amount <= CreditedBy(app, i)
<1>1. \A s \in Sources : app[s][i].amount \in Nat
  BY DEF Rows, Applied
<1> DEFINE f == [p \in Payments |-> app[p][i].amount]
           g == [n \in CreditNotes |-> app[n][i].amount]
<1>2. /\ Summable(f) /\ DOMAIN f = Payments
      /\ \A p \in Payments : f[p] = app[p][i].amount /\ f[p] >= 0
  BY <1>1, ReceivablesAssumption DEF Summable, Sources
<1>3. /\ Summable(g) /\ DOMAIN g = CreditNotes
      /\ \A n \in CreditNotes : g[n] = app[n][i].amount /\ g[n] >= 0
  BY <1>1, ReceivablesAssumption DEF Summable, Sources
<1> HIDE DEF f, g
<1>4. SumFunction(f) \in Nat /\ \A p \in Payments : f[p] <= SumFunction(f)
  BY <1>2, SumNat
<1>5. SumFunction(g) \in Nat /\ \A n \in CreditNotes : g[n] <= SumFunction(g)
  BY <1>3, SumNat
<1> QED BY <1>2, <1>3, <1>4, <1>5 DEF PaidBy, CreditedBy, f, g

(* What changes for an invoice when one source's row is replaced.          *)
Moved(app, s, row, i) ==
  LET new  == [app EXCEPT ![s] = row]
      more == row[i].amount - app[s][i].amount
  IN  /\ PaidBy(new, i) = PaidBy(app, i) + (IF s \in Payments THEN more ELSE 0)
      /\ CreditedBy(new, i) = CreditedBy(app, i) + (IF s \in Payments THEN 0 ELSE more)

LEMMA PaidByUpdate ==
  ASSUME NEW app \in [Sources -> Rows], NEW s \in Sources, NEW row \in Rows,
         NEW i \in Invoices
  PROVE  Moved(app, s, row, i)
<1> DEFINE new == [app EXCEPT ![s] = row]
           more == row[i].amount - app[s][i].amount
<1> SUFFICES
      /\ PaidBy(new, i) = PaidBy(app, i) + (IF s \in Payments THEN more ELSE 0)
      /\ CreditedBy(new, i) = CreditedBy(app, i) + (IF s \in Payments THEN 0 ELSE more)
  BY DEF Moved
<1> DEFINE f == [p \in Payments |-> app[p][i].amount]
           g == [n \in CreditNotes |-> app[n][i].amount]
           h == [p \in Payments |-> new[p][i].amount]
           k == [n \in CreditNotes |-> new[n][i].amount]
<1>1. \A u \in Sources : app[u][i].amount \in Nat
  BY DEF Rows, Applied
<1>2. row[i].amount \in Nat
  BY DEF Rows, Applied
<1>3. new[s] = row /\ \A u \in Sources \ {s} : new[u] = app[u]
  OBVIOUS
<1>4. Summable(f) /\ Summable(g) /\ SumFunction(f) \in Int /\ SumFunction(g) \in Int
  <2>1. Summable(f) /\ Summable(g)
    BY <1>1, ReceivablesAssumption DEF Summable, Sources
  <2> HIDE DEF f, g
  <2> QED BY <2>1, SumInt
<1>5. CASE s \in Payments
  <2>1. s \notin CreditNotes
    BY <1>5, ReceivablesAssumption
  <2>2. k = g
    BY <1>3, <2>1 DEF Sources
  <2>3. /\ DOMAIN h = DOMAIN f /\ DOMAIN f = Payments /\ h[s] = row[i].amount
        /\ f[s] = app[s][i].amount /\ \A p \in Payments \ {s} : h[p] = f[p]
    BY <1>3, <1>5 DEF Sources
  <2>4. SumFunction(h) = SumFunction(f) + h[s] - f[s]
    <3> HIDE DEF f, h
    <3> QED BY <1>2, <1>4, <1>5, <2>3, SumUpdate
  <2>5. SumFunction(h) = SumFunction(f) + (row[i].amount - app[s][i].amount)
    <3> HIDE DEF f, h
    <3> QED BY <1>1, <1>2, <1>4, <2>3, <2>4
  <2>6. SumFunction(k) = SumFunction(g) + 0
    BY <1>4, <2>2
  <2> QED BY <1>5, <2>5, <2>6 DEF PaidBy, CreditedBy
<1>6. CASE s \notin Payments
  <2>1. s \in CreditNotes
    BY <1>6 DEF Sources
  <2>2. h = f
    BY <1>3, <1>6 DEF Sources
  <2>3. /\ DOMAIN k = DOMAIN g /\ DOMAIN g = CreditNotes /\ k[s] = row[i].amount
        /\ g[s] = app[s][i].amount /\ \A p \in CreditNotes \ {s} : k[p] = g[p]
    BY <1>3, <2>1 DEF Sources
  <2>4. SumFunction(k) = SumFunction(g) + k[s] - g[s]
    <3> HIDE DEF g, k
    <3> QED BY <1>2, <1>4, <2>1, <2>3, SumUpdate
  <2>5. SumFunction(k) = SumFunction(g) + (row[i].amount - app[s][i].amount)
    <3> HIDE DEF g, k
    <3> QED BY <1>1, <1>2, <1>4, <2>3, <2>4
  <2>6. SumFunction(h) = SumFunction(f) + 0
    BY <1>4, <2>2
  <2> QED BY <1>6, <2>5, <2>6 DEF PaidBy, CreditedBy
<1> QED BY <1>5, <1>6

-----------------------------------------------------------------------------
(* What invoices say of allocations *)

Accounted(invs, app) ==
  \A i \in Invoices : invs[i].paid = PaidBy(app, i) /\ invs[i].credited = CreditedBy(app, i)

LEMMA AccountedAlike ==
  ASSUME NEW invs, NEW new, NEW app, Accounted(invs, app),
         \A i \in Invoices : new[i].paid = invs[i].paid /\ new[i].credited = invs[i].credited
  PROVE  Accounted(new, app)
BY DEF Accounted

LEMMA NothingPaid ==
  ASSUME NEW app, NEW i \in Invoices, \A s \in Sources : app[s][i].amount = 0
  PROVE  PaidBy(app, i) = 0 /\ CreditedBy(app, i) = 0
<1> DEFINE f == [p \in Payments |-> app[p][i].amount]
           g == [n \in CreditNotes |-> app[n][i].amount]
<1>1. DOMAIN f = Payments /\ \A p \in Payments : f[p] = 0
  BY DEF Sources
<1>2. DOMAIN g = CreditNotes /\ \A n \in CreditNotes : g[n] = 0
  BY DEF Sources
<1> HIDE DEF f, g
<1>3. SumFunction(f) = 0 /\ SumFunction(g) = 0
  BY <1>1, <1>2, SumZero, ReceivablesAssumption
<1> QED BY <1>3 DEF PaidBy, CreditedBy, f, g

LEMMA AllocationAccounted ==
  ASSUME NEW invs, NEW lax, NEW gone, Sound(invs, lax, gone), NEW app \in [Sources -> Rows],
         Accounted(invs, app), NEW s \in Sources, NEW c, NEW alloc \in Allocations,
         LoadTargets(invs, c, alloc)
  PROVE  Accounted(InvoicesAfter(invs, s, alloc),
                   [app EXCEPT ![s] = AppliedAfter(app[s], invs, alloc)])
<1> DEFINE row == AppliedAfter(app[s], invs, alloc)
           new == InvoicesAfter(invs, s, alloc)
           appl == [app EXCEPT ![s] = row]
<1>1. row \in Rows /\ app[s] \in Rows
  BY AppliedAfterRows
<1> SUFFICES ASSUME NEW i \in Invoices
             PROVE  new[i].paid = PaidBy(appl, i) /\ new[i].credited = CreditedBy(appl, i)
  BY DEF Accounted
<1> DEFINE more == row[i].amount - app[s][i].amount
<1>2. /\ PaidBy(appl, i) = invs[i].paid + (IF s \in Payments THEN more ELSE 0)
      /\ CreditedBy(appl, i) = invs[i].credited + (IF s \in Payments THEN 0 ELSE more)
  <2>1. /\ PaidBy(appl, i) = PaidBy(app, i) + (IF s \in Payments THEN more ELSE 0)
        /\ CreditedBy(appl, i) = CreditedBy(app, i) + (IF s \in Payments THEN 0 ELSE more)
    <3>1. Moved(app, s, row, i)
      <4> HIDE DEF row
      <4> QED BY <1>1, PaidByUpdate
    <3> QED BY <3>1 DEF Moved
  <2> HIDE DEF appl, more
  <2> QED BY <2>1 DEF Accounted
<1>3. invs[i] \in Invoice /\ invs[i].paid \in Nat /\ invs[i].credited \in Nat
      /\ app[s][i].amount \in Nat
  BY <1>1 DEF Sound, Invoice, Rows, Applied
<1>4. CASE i \in DOMAIN alloc
  <2>1. alloc[i] \in Nat /\ row[i].amount = app[s][i].amount + alloc[i]
    BY <1>4, AllocAmounts DEF AppliedAfter
  <2>2. more = alloc[i]
    <3> HIDE DEF row
    <3> QED BY <1>3, <2>1
  <2>3. new[i] = Reprojected(Settled(invs[i], s, alloc[i]))
    BY <1>4 DEF InvoicesAfter
  <2>4. /\ new[i].paid = Settled(invs[i], s, alloc[i]).paid
        /\ new[i].credited = Settled(invs[i], s, alloc[i]).credited
    <3> DEFINE mid == Settled(invs[i], s, alloc[i])
    <3>1. DOMAIN mid = DOMAIN invs[i]
      BY DEF Settled
    <3>2. new[i] = [mid EXCEPT !.status = Projected(mid), !.paidAt = (Projected(mid) = "PAID")]
      BY <2>3 DEF Reprojected
    <3>3. "paid" \in DOMAIN mid /\ "credited" \in DOMAIN mid
      BY <1>3, <3>1 DEF Invoice
    <3> HIDE DEF mid, new
    <3>4. new[i].paid = mid.paid /\ new[i].credited = mid.credited
      BY <3>2, <3>3
    <3> QED BY <3>4 DEF mid
  <2>5. CASE s \in Payments
    <3>1. Settled(invs[i], s, alloc[i]).paid = invs[i].paid + alloc[i]
          /\ Settled(invs[i], s, alloc[i]).credited = invs[i].credited
      BY <1>3, <2>5 DEF Settled, Invoice
    <3> QED BY <1>2, <1>3, <2>2, <2>4, <2>5, <3>1
  <2>6. CASE s \notin Payments
    <3>1. Settled(invs[i], s, alloc[i]).paid = invs[i].paid
          /\ Settled(invs[i], s, alloc[i]).credited = invs[i].credited + alloc[i]
      BY <1>3, <2>6 DEF Settled, Invoice
    <3> QED BY <1>2, <1>3, <2>2, <2>4, <2>6, <3>1
  <2> QED BY <2>5, <2>6
<1>5. CASE i \notin DOMAIN alloc
  <2>1. row[i] = app[s][i] /\ new[i] = invs[i]
    BY <1>5 DEF AppliedAfter, InvoicesAfter
  <2>2. more = 0
    <3> HIDE DEF row
    <3> QED BY <1>3, <2>1
  <2> HIDE DEF more, new, appl
  <2> QED BY <1>2, <1>3, <2>1, <2>2
<1> QED BY <1>4, <1>5

LEMMA ReversalAccounted ==
  ASSUME NEW invs, NEW lax, NEW gone, Sound(invs, lax, gone), NEW app \in [Sources -> Rows],
         Accounted(invs, app), NEW s \in Sources, NEW last
  PROVE  Accounted(InvoicesRestored(invs, s, app[s], last),
                   [app EXCEPT ![s] = NothingApplied])
<1> DEFINE new == InvoicesRestored(invs, s, app[s], last)
           appl == [app EXCEPT ![s] = NothingApplied]
<1>1. NothingApplied \in Rows /\ app[s] \in Rows
      /\ \A i \in Invoices : NothingApplied[i].amount = 0
  BY TakenNothing DEF NothingApplied
<1> SUFFICES ASSUME NEW i \in Invoices
             PROVE  new[i].paid = PaidBy(appl, i) /\ new[i].credited = CreditedBy(appl, i)
  BY DEF Accounted
<1> DEFINE a == app[s][i].amount
<1>2. invs[i] \in Invoice /\ invs[i].paid \in Nat /\ invs[i].credited \in Nat /\ a \in Nat
  BY <1>1 DEF Sound, Invoice, Rows, Applied
<1>3. /\ PaidBy(appl, i) = invs[i].paid + (IF s \in Payments THEN 0 - a ELSE 0)
      /\ CreditedBy(appl, i) = invs[i].credited + (IF s \in Payments THEN 0 ELSE 0 - a)
  <2> DEFINE less == NothingApplied[i].amount - a
  <2>1. /\ PaidBy(appl, i) = PaidBy(app, i) + (IF s \in Payments THEN less ELSE 0)
        /\ CreditedBy(appl, i) = CreditedBy(app, i) + (IF s \in Payments THEN 0 ELSE less)
    <3>1. Moved(app, s, NothingApplied, i)
      BY <1>1, PaidByUpdate
    <3> QED BY <3>1 DEF Moved
  <2>2. less = 0 - a
    BY <1>1
  <2> HIDE DEF appl, less, a
  <2> QED BY <2>1, <2>2 DEF Accounted
<1>4. CASE i \in Touched(app[s])
  <2>1. new[i] = Restored(invs[i], s, a, last[i])
    BY <1>4 DEF InvoicesRestored
  <2>2. CASE s \in Payments
    <3>1. new[i].paid = invs[i].paid - a /\ new[i].credited = invs[i].credited
      BY <1>2, <2>1, <2>2 DEF Restored, Invoice
    <3> HIDE DEF a, new
    <3> QED BY <1>2, <1>3, <2>2, <3>1
  <2>3. CASE s \notin Payments
    <3>1. new[i].paid = invs[i].paid /\ new[i].credited = invs[i].credited - a
      BY <1>2, <2>1, <2>3 DEF Restored, Invoice
    <3> HIDE DEF a, new
    <3> QED BY <1>2, <1>3, <2>3, <3>1
  <2> QED BY <2>2, <2>3
<1>5. CASE i \notin Touched(app[s])
  <2>1. new[i] = invs[i] /\ a = 0
    BY <1>2, <1>5 DEF InvoicesRestored, Touched
  <2> HIDE DEF a, new
  <2> QED BY <1>2, <1>3, <2>1
<1> QED BY <1>4, <1>5

-----------------------------------------------------------------------------
(* What is left of a source *)

SoundPayment(pay, taken) ==
  /\ pay \in Payment
  /\ pay.status # "absent" => pay.customer \in Customers
  /\ pay.status = "REFUNDED" => pay.refunded = pay.amount
  /\ IF pay.status \in {"absent", "CANCELED"}
     THEN taken = 0 /\ pay.unapplied = 0
     ELSE pay.amount = pay.unapplied + pay.refunded + taken

SoundNote(note, taken) ==
  /\ note \in CreditNote
  /\ note.status = "CLOSED" => note.balance = 0
  /\ IF note.status \in {"absent", "VOID"}
     THEN taken = 0 /\ note.balance = 0
     ELSE note.total = note.balance + note.refunded + taken

SourcesSound ==
  /\ payments \in [Payments -> Payment] /\ notes \in [CreditNotes -> CreditNote]
  /\ \A p \in Payments : SoundPayment(payments[p], Taken(applied[p]))
  /\ \A n \in CreditNotes : SoundNote(notes[n], Taken(applied[n]))

BooksTyped ==
  /\ ledger \subseteq LedgerEntry
  /\ columns \in [Customers -> Column]
  /\ intents \subseteq Intent
  /\ issuing \in [CreditNotes -> [total : Nat, column : Column] \cup {NotIssuing}]
  /\ \A n \in CreditNotes : issuing[n] # NotIssuing => notes[n].status = "absent"
  /\ invalidating \in [Invoices -> Invalidation]
  /\ rewritten \subseteq Invoices

MoneyInv ==
  /\ SettlementInv
  /\ Accounted(invoices, applied)
  /\ SourcesSound
  /\ BooksTyped

LEMMA MoneyTypes ==
  ASSUME MoneyInv
  PROVE  /\ invoices \in [Invoices -> Invoice] /\ applied \in [Sources -> Rows]
         /\ payments \in [Payments -> Payment] /\ notes \in [CreditNotes -> CreditNote]
         /\ \A p \in Payments : p \in Sources /\ p \notin CreditNotes
         /\ \A n \in CreditNotes : n \in Sources /\ n \notin Payments
BY ReceivablesAssumption
   DEF MoneyInv, SettlementInv, InvoiceInv, Sound, SourcesSound, Rows, Sources

(* One payment, or one note, changes together with its allocations.        *)
LEMMA PaymentWritten ==
  ASSUME MoneyInv, NEW p \in Payments, NEW pay, NEW row,
         payments' = [payments EXCEPT ![p] = pay], UNCHANGED notes,
         applied' = [applied EXCEPT ![p] = row],
         SoundPayment(pay, Taken(row))
  PROVE  SourcesSound'
<1>1. payments' \in [Payments -> Payment] /\ payments'[p] = pay
      /\ \A q \in Payments \ {p} : payments'[q] = payments[q]
  BY MoneyTypes DEF SoundPayment
<1>2. applied'[p] = row /\ \A s \in Sources \ {p} : applied'[s] = applied[s]
  BY MoneyTypes
<1>3. \A q \in Payments : SoundPayment(payments'[q], Taken(applied'[q]))
  BY <1>1, <1>2, MoneyTypes DEF MoneyInv, SourcesSound
<1>4. \A n \in CreditNotes : SoundNote(notes'[n], Taken(applied'[n]))
  BY <1>2, MoneyTypes DEF MoneyInv, SourcesSound
<1>5. notes' \in [CreditNotes -> CreditNote]
  BY MoneyTypes
<1> QED BY <1>1, <1>3, <1>4, <1>5 DEF SourcesSound

LEMMA NoteWritten ==
  ASSUME MoneyInv, NEW n \in CreditNotes, NEW note, NEW row,
         notes' = [notes EXCEPT ![n] = note], UNCHANGED payments,
         applied' = [applied EXCEPT ![n] = row],
         SoundNote(note, Taken(row))
  PROVE  SourcesSound'
<1>1. notes' \in [CreditNotes -> CreditNote] /\ notes'[n] = note
      /\ \A m \in CreditNotes \ {n} : notes'[m] = notes[m]
  BY MoneyTypes DEF SoundNote
<1>2. applied'[n] = row /\ \A s \in Sources \ {n} : applied'[s] = applied[s]
  BY MoneyTypes
<1>3. \A m \in CreditNotes : SoundNote(notes'[m], Taken(applied'[m]))
  BY <1>1, <1>2, MoneyTypes DEF MoneyInv, SourcesSound
<1>4. \A p \in Payments : SoundPayment(payments'[p], Taken(applied'[p]))
  BY <1>2, MoneyTypes DEF MoneyInv, SourcesSound
<1>5. payments' \in [Payments -> Payment]
  BY MoneyTypes
<1> QED BY <1>1, <1>3, <1>4, <1>5 DEF SourcesSound

(* Nothing but the invoices changes.                                       *)
LEMMA SourcesKept ==
  ASSUME MoneyInv, UNCHANGED <<payments, notes, applied>>
  PROVE  SourcesSound'
BY DEF MoneyInv, SourcesSound

LEMMA SameRow ==
  ASSUME MoneyInv, NEW s \in Sources, UNCHANGED applied
  PROVE  applied' = [applied EXCEPT ![s] = applied[s]]
BY MoneyTypes

(* What the allocations of one source leave the invoices with: rows, and   *)
(* what an allocation adds to them.                                        *)
LEMMA RowsAfter ==
  ASSUME MoneyInv, NEW s \in Sources, NEW c, NEW alloc \in Allocations,
         LoadTargets(invoices, c, alloc)
  PROVE  LET row == AppliedAfter(applied[s], invoices, alloc)
         IN  row \in Rows /\ Taken(row) = Taken(applied[s]) + SumFunction(alloc)
<1>1. applied[s] \in Rows /\ Sound(invoices, rewritten, invalidating)
  BY MoneyTypes DEF MoneyInv, SettlementInv, InvoiceInv
<1> QED BY <1>1, AppliedAfterRows, TakenAfter

LEMMA AmountNat == \A a \in Amounts : a \in Nat /\ a \in Int /\ a > 0
BY ReceivablesAssumption

(* The row of a payment that has just been received.                       *)
LEMMA ReceivedPayment ==
  ASSUME NEW pay \in Payment, NEW amount \in Nat, NEW used \in Nat,
         pay.status = "SUCCEEDED", pay.customer \in Customers, pay.amount = amount,
         pay.unapplied = amount - used, pay.refunded = 0
  PROVE  SoundPayment(pay, used)
<1>1. pay.amount = pay.unapplied + pay.refunded + used
  OBVIOUS
<1> QED BY <1>1 DEF SoundPayment

LEMMA CreateSources ==
  ASSUME MoneyInv, NEW p \in Payments, NEW c \in Customers, NEW amount \in Amounts,
         NEW alloc \in Allocations, CreatePayment(p, c, amount, alloc)
  PROVE  SourcesSound'
<1> DEFINE row == AppliedAfter(applied[p], invoices, alloc)
           pay == [status |-> "SUCCEEDED", customer |-> c, amount |-> amount,
                   unapplied |-> amount - SumFunction(alloc), refunded |-> 0, revision |-> 0]
<1>1. /\ payments[p].status = "absent" /\ SumFunction(alloc) <= amount
      /\ LoadTargets(invoices, c, alloc)
      /\ payments' = [payments EXCEPT ![p] = pay]
      /\ applied' = [applied EXCEPT ![p] = row] /\ UNCHANGED notes
  BY DEF CreatePayment
<1>2. p \in Sources /\ SoundPayment(payments[p], Taken(applied[p])) /\ amount \in Nat
      /\ SumFunction(alloc) \in Nat
  BY MoneyTypes, AmountNat, AllocAmounts DEF MoneyInv, SourcesSound
<1>3. Taken(applied[p]) = 0
  BY <1>1, <1>2 DEF SoundPayment
<1>4. Taken(row) = SumFunction(alloc)
  <2>1. Taken(row) = Taken(applied[p]) + SumFunction(alloc)
    BY <1>1, <1>2, RowsAfter
  <2> QED BY <1>2, <1>3, <2>1
<1>5. SoundPayment(pay, SumFunction(alloc))
  <2>1. amount - SumFunction(alloc) \in Nat
    BY <1>1, <1>2
  <2>2. pay \in Payment
    BY <1>2, <2>1 DEF Payment
  <2> QED BY <1>2, <2>2, ReceivedPayment
<1> HIDE DEF pay, row
<1> QED BY <1>1, <1>4, <1>5, PaymentWritten

LEMMA ConfirmSources ==
  ASSUME MoneyInv, NEW p \in Payments, NEW c \in Customers, NEW amount \in Amounts,
         ConfirmIntent(p, c, amount)
  PROVE  SourcesSound'
<1> DEFINE pay == [status |-> "SUCCEEDED", customer |-> c, amount |-> amount,
                   unapplied |-> amount, refunded |-> 0, revision |-> 0]
<1>1. /\ payments[p].status = "absent"
      /\ payments' = [payments EXCEPT ![p] = pay] /\ UNCHANGED <<notes, applied>>
  BY DEF ConfirmIntent
<1>2. p \in Sources /\ SoundPayment(payments[p], Taken(applied[p])) /\ amount \in Nat
  BY MoneyTypes, AmountNat DEF MoneyInv, SourcesSound
<1>3. Taken(applied[p]) = 0
  BY <1>1, <1>2 DEF SoundPayment
<1>4. amount - 0 = amount /\ 0 \in Nat
  BY <1>2
<1>5. SoundPayment(pay, 0)
  <2>1. pay \in Payment
    BY <1>2 DEF Payment
  <2> QED BY <1>2, <1>4, <2>1, ReceivedPayment
<1>6. applied' = [applied EXCEPT ![p] = applied[p]]
  BY <1>1, <1>2, SameRow
<1> HIDE DEF pay
<1> QED BY <1>1, <1>3, <1>5, <1>6, PaymentWritten

LEMMA ApplySources ==
  ASSUME MoneyInv, NEW p \in Payments, NEW alloc \in Allocations, ApplyPayment(p, alloc)
  PROVE  SourcesSound'
<1> DEFINE old == payments[p]
           row == AppliedAfter(applied[p], invoices, alloc)
           pay == [old EXCEPT !.unapplied = old.unapplied - SumFunction(alloc)]
<1>1. /\ old.status \in Available /\ SumFunction(alloc) <= old.unapplied
      /\ LoadTargets(invoices, old.customer, alloc)
      /\ payments' = [payments EXCEPT ![p] = pay]
      /\ applied' = [applied EXCEPT ![p] = row] /\ UNCHANGED notes
  BY DEF ApplyPayment
<1>2. p \in Sources /\ SoundPayment(old, Taken(applied[p])) /\ SumFunction(alloc) \in Nat
      /\ Taken(applied[p]) \in Nat
  BY MoneyTypes, AllocAmounts, TakenNat DEF MoneyInv, SourcesSound
<1>3. Taken(row) = Taken(applied[p]) + SumFunction(alloc)
  BY <1>1, <1>2, RowsAfter
<1>4. old \in Payment /\ old.unapplied \in Nat /\ old.refunded \in Nat /\ old.amount \in Nat
  BY <1>2 DEF SoundPayment, Payment
<1>5. old.unapplied - SumFunction(alloc) \in Nat
  BY <1>1, <1>2, <1>4
<1>6. /\ pay \in Payment /\ pay.status = old.status /\ pay.customer = old.customer
      /\ pay.amount = old.amount /\ pay.refunded = old.refunded
      /\ pay.unapplied = old.unapplied - SumFunction(alloc)
  BY <1>4, <1>5 DEF Payment
<1> HIDE DEF pay, row, old
<1>7. SoundPayment(pay, Taken(row))
  <2>1. old.status \notin {"absent", "CANCELED"}
    BY <1>1 DEF Available
  <2>2. old.amount = old.unapplied + old.refunded + Taken(applied[p])
    BY <1>2, <2>1 DEF SoundPayment
  <2>3. pay.amount = pay.unapplied + pay.refunded + Taken(row)
    BY <1>2, <1>3, <1>4, <1>6, <2>2
  <2> QED BY <1>2, <1>6, <2>1, <2>3 DEF SoundPayment
<1> QED BY <1>1, <1>7, PaymentWritten

LEMMA UpdateSources ==
  ASSUME MoneyInv, NEW p \in Payments, NEW c \in Customers, NEW amount \in Amounts,
         NEW alloc \in Allocations, UpdatePayment(p, c, amount, alloc)
  PROVE  SourcesSound'
<1> DEFINE old == payments[p]
           pay == [old EXCEPT !.customer = c, !.amount = amount,
                              !.unapplied = amount - SumFunction(alloc),
                              !.revision = old.revision + 1]
<1>1. /\ old.status = "SUCCEEDED" /\ old.refunded = 0 /\ SumFunction(alloc) <= amount
      /\ payments' = [payments EXCEPT ![p] = pay] /\ UNCHANGED notes
      /\ Storable(invoices, applied[p], p)
  BY DEF UpdatePayment, Correctable
<1>2. PICK last \in Restorations(applied[p]) :
        LET back == InvoicesRestored(invoices, p, applied[p], last)
        IN  /\ LoadTargets(back, c, alloc)
            /\ applied' = [applied EXCEPT ![p] = AppliedAfter(NothingApplied, back, alloc)]
  BY DEF UpdatePayment
<1> DEFINE back == InvoicesRestored(invoices, p, applied[p], last)
           row == AppliedAfter(NothingApplied, back, alloc)
<1>3. /\ p \in Sources /\ old \in Payment /\ amount \in Nat /\ SumFunction(alloc) \in Nat
      /\ Sound(invoices, rewritten, invalidating)
      /\ Remembers(applied[p], invoices, rewritten, invalidating)
  BY MoneyTypes, AmountNat, AllocAmounts DEF MoneyInv, SettlementInv, InvoiceInv
<1>4. Sound(back, rewritten, invalidating)
  BY <1>1, <1>3, ReversalSound
<1>5. Taken(row) = SumFunction(alloc)
  <2>1. Taken(row) = Taken(NothingApplied) + SumFunction(alloc)
    BY TakenAfter, TakenNothing
  <2> QED BY <1>3, <2>1, TakenNothing
<1>6. /\ amount - SumFunction(alloc) \in Nat /\ old.revision + 1 \in Nat
  BY <1>1, <1>3 DEF Payment
<1>7. /\ pay \in Payment /\ pay.status = "SUCCEEDED" /\ pay.customer = c
      /\ pay.amount = amount /\ pay.unapplied = amount - SumFunction(alloc)
      /\ pay.refunded = 0
  BY <1>1, <1>3, <1>6 DEF Payment
<1>8. SoundPayment(pay, SumFunction(alloc))
  <2> HIDE DEF pay, old
  <2> QED BY <1>3, <1>7, ReceivedPayment
<1>9. applied' = [applied EXCEPT ![p] = row]
  BY <1>2
<1> HIDE DEF pay, row, back
<1> QED BY <1>1, <1>5, <1>8, <1>9, PaymentWritten

LEMMA CancelSources ==
  ASSUME MoneyInv, NEW p \in Payments, CancelPayment(p)
  PROVE  SourcesSound'
<1> DEFINE old == payments[p]
           pay == [old EXCEPT !.status = "CANCELED", !.unapplied = 0,
                              !.revision = old.revision + 1]
<1>1. /\ old.status = "SUCCEEDED" /\ UNCHANGED notes
      /\ applied' = [applied EXCEPT ![p] = NothingApplied]
  BY DEF CancelPayment, Correctable
<1>2. SoundPayment(old, Taken(applied[p])) /\ old \in Payment /\ old.revision + 1 \in Nat
      /\ payments \in [Payments -> Payment]
  BY MoneyTypes DEF MoneyInv, SourcesSound, Payment
<1>3. payments' = [payments EXCEPT ![p] = pay]
  BY <1>2 DEF CancelPayment
<1>4. /\ pay \in Payment /\ pay.status = "CANCELED" /\ pay.customer = old.customer
      /\ pay.unapplied = 0
  BY <1>2 DEF Payment
<1> HIDE DEF pay
<1>5. SoundPayment(pay, 0)
  BY <1>1, <1>2, <1>4 DEF SoundPayment
<1> QED BY <1>1, <1>3, <1>5, TakenNothing, PaymentWritten

LEMMA RefundSources ==
  ASSUME MoneyInv, NEW p \in Payments, NEW amount \in Amounts, RefundPayment(p, amount)
  PROVE  SourcesSound'
<1> DEFINE old == payments[p]
           refunded == old.refunded + amount
           pay == [old EXCEPT !.unapplied = old.unapplied - amount, !.refunded = refunded,
                              !.status = IF refunded = old.amount
                                         THEN "REFUNDED" ELSE "PARTIALLY_REFUNDED"]
<1>1. /\ old.status \in Available /\ amount <= old.unapplied
      /\ payments' = [payments EXCEPT ![p] = pay] /\ UNCHANGED <<notes, applied>>
  BY DEF RefundPayment
<1>2. p \in Sources /\ SoundPayment(old, Taken(applied[p])) /\ amount \in Nat
      /\ Taken(applied[p]) \in Nat
  BY MoneyTypes, AmountNat, TakenNat DEF MoneyInv, SourcesSound
<1>3. old \in Payment /\ old.unapplied \in Nat /\ old.refunded \in Nat /\ old.amount \in Nat
  BY <1>2 DEF SoundPayment, Payment
<1>4. old.unapplied - amount \in Nat /\ refunded \in Nat
  BY <1>1, <1>2, <1>3
<1>5. /\ pay.status = (IF refunded = old.amount THEN "REFUNDED" ELSE "PARTIALLY_REFUNDED")
      /\ pay.customer = old.customer /\ pay.amount = old.amount
      /\ pay.refunded = refunded /\ pay.unapplied = old.unapplied - amount
  BY <1>3 DEF Payment
<1>6. pay \in Payment
  BY <1>3, <1>4 DEF Payment
<1>7. SoundPayment(pay, Taken(applied[p]))
  <2>1. old.status \notin {"absent", "CANCELED"}
    BY <1>1 DEF Available
  <2>2. old.amount = old.unapplied + old.refunded + Taken(applied[p])
    BY <1>2, <2>1 DEF SoundPayment
  <2>3. old.customer \in Customers
    BY <1>2, <2>1 DEF SoundPayment
  <2> HIDE DEF pay, old
  <2>4. pay.amount = pay.unapplied + pay.refunded + Taken(applied[p])
    BY <1>2, <1>3, <1>5, <2>2
  <2>5. pay.status \notin {"absent", "CANCELED"} /\ (pay.status = "REFUNDED" => pay.refunded = pay.amount)
    BY <1>5
  <2> QED BY <1>5, <1>6, <2>3, <2>4, <2>5 DEF SoundPayment
<1>8. applied' = [applied EXCEPT ![p] = applied[p]]
  BY <1>1, <1>2, SameRow
<1> HIDE DEF pay
<1> QED BY <1>1, <1>7, <1>8, PaymentWritten

(* A note that is issued, drawn from or voided *)
LEMMA IssueSources ==
  ASSUME MoneyInv, NEW n \in CreditNotes, CommitIssue(n)
  PROVE  SourcesSound'
<1> DEFINE total == issuing[n].total
           note == [status |-> "OPEN", total |-> total, balance |-> total, refunded |-> 0]
<1>1. /\ issuing[n] # NotIssuing /\ notes' = [notes EXCEPT ![n] = note]
      /\ UNCHANGED <<payments, applied>>
  BY DEF CommitIssue
<1>2. n \in Sources /\ SoundNote(notes[n], Taken(applied[n])) /\ notes[n].status = "absent"
      /\ total \in Nat
  BY <1>1, MoneyTypes DEF MoneyInv, SourcesSound, BooksTyped
<1>3. Taken(applied[n]) = 0
  BY <1>2 DEF SoundNote
<1>4. SoundNote(note, 0)
  <2>1. note \in CreditNote /\ note.total = note.balance + note.refunded + 0
        /\ note.status = "OPEN"
    BY <1>2 DEF CreditNote
  <2> QED BY <2>1 DEF SoundNote
<1>5. applied' = [applied EXCEPT ![n] = applied[n]]
  BY <1>1, <1>2, SameRow
<1> HIDE DEF note
<1> QED BY <1>1, <1>3, <1>4, <1>5, NoteWritten

(* What is drawn from a note is applied or refunded.                       *)
LEMMA DrawnNote ==
  ASSUME NEW note, NEW taken \in Nat, NEW amount \in Nat, SoundNote(note, taken),
         note.status = "OPEN", amount <= note.balance
  PROVE  /\ SoundNote(Drawn(note, amount), taken + amount)
         /\ SoundNote([Drawn(note, amount) EXCEPT !.refunded = note.refunded + amount], taken)
<1> DEFINE new == Drawn(note, amount)
           paid == [new EXCEPT !.refunded = note.refunded + amount]
<1>1. /\ note \in CreditNote /\ note.balance \in Nat /\ note.refunded \in Nat
      /\ note.total \in Nat /\ note.total = note.balance + note.refunded + taken
      /\ note.balance - amount \in Nat /\ note.refunded + amount \in Nat
  <2>1. note \in CreditNote /\ note.balance \in Nat /\ note.refunded \in Nat
        /\ note.total \in Nat /\ note.total = note.balance + note.refunded + taken
    BY DEF SoundNote, CreditNote
  <2> QED BY <2>1
<1>2. /\ new \in CreditNote /\ new.balance = note.balance - amount
      /\ new.status = (IF note.balance = amount THEN "CLOSED" ELSE "OPEN")
      /\ new.total = note.total /\ new.refunded = note.refunded
  BY <1>1 DEF Drawn, CreditNote
<1> HIDE DEF new
<1>3. /\ paid \in CreditNote /\ paid.balance = note.balance - amount
      /\ paid.status = (IF note.balance = amount THEN "CLOSED" ELSE "OPEN")
      /\ paid.total = note.total /\ paid.refunded = note.refunded + amount
  BY <1>1, <1>2 DEF CreditNote
<1> HIDE DEF paid
<1>4. /\ new.total = new.balance + new.refunded + (taken + amount)
      /\ new.status = "CLOSED" => new.balance = 0
  BY <1>1, <1>2
<1>5. /\ paid.total = paid.balance + paid.refunded + taken
      /\ paid.status = "CLOSED" => paid.balance = 0
  BY <1>1, <1>3
<1>6. new.status \notin {"absent", "VOID"} /\ paid.status \notin {"absent", "VOID"}
  BY <1>2, <1>3
<1>7. SoundNote(new, taken + amount)
  BY <1>2, <1>4, <1>6 DEF SoundNote
<1>8. SoundNote(paid, taken)
  BY <1>3, <1>5, <1>6 DEF SoundNote
<1> QED BY <1>7, <1>8 DEF new, paid

LEMMA NoteFacts ==
  ASSUME MoneyInv, NEW n \in CreditNotes
  PROVE  /\ n \in Sources /\ SoundNote(notes[n], Taken(applied[n]))
         /\ Taken(applied[n]) \in Nat /\ notes[n] \in CreditNote
BY MoneyTypes, TakenNat DEF MoneyInv, SourcesSound

LEMMA ApplyNoteSources ==
  ASSUME MoneyInv, NEW n \in CreditNotes, NEW alloc \in Allocations,
         ApplyCreditNote(n, alloc)
  PROVE  SourcesSound'
<1> DEFINE row == AppliedAfter(applied[n], invoices, alloc)
<1>1. /\ notes[n].status = "OPEN" /\ SumFunction(alloc) <= notes[n].balance
      /\ LoadTargets(invoices, NoteCustomer[n], alloc)
      /\ notes' = [notes EXCEPT ![n] = Drawn(notes[n], SumFunction(alloc))]
      /\ applied' = [applied EXCEPT ![n] = row] /\ UNCHANGED payments
  BY DEF ApplyCreditNote
<1>2. SumFunction(alloc) \in Nat
  BY AllocAmounts
<1>3. Taken(row) = Taken(applied[n]) + SumFunction(alloc)
  BY <1>1, NoteFacts, RowsAfter
<1>4. SoundNote(Drawn(notes[n], SumFunction(alloc)), Taken(row))
  <2>1. SoundNote(Drawn(notes[n], SumFunction(alloc)), Taken(applied[n]) + SumFunction(alloc))
    BY <1>1, <1>2, NoteFacts, DrawnNote
  <2> HIDE DEF row
  <2> QED BY <1>3, <2>1
<1> HIDE DEF row
<1> QED BY <1>1, <1>4, NoteWritten

LEMMA RefundNoteSources ==
  ASSUME MoneyInv, NEW n \in CreditNotes, NEW amount \in Amounts,
         RefundCreditNote(n, amount)
  PROVE  SourcesSound'
<1> DEFINE note == [Drawn(notes[n], amount) EXCEPT !.refunded = notes[n].refunded + amount]
<1>1. /\ notes[n].status = "OPEN" /\ amount <= notes[n].balance
      /\ notes' = [notes EXCEPT ![n] = note] /\ UNCHANGED <<payments, applied>>
  BY DEF RefundCreditNote
<1>2. SoundNote(note, Taken(applied[n]))
  BY <1>1, NoteFacts, DrawnNote, AmountNat
<1>3. applied' = [applied EXCEPT ![n] = applied[n]]
  BY <1>1, NoteFacts, SameRow
<1> HIDE DEF note
<1> QED BY <1>1, <1>2, <1>3, NoteWritten

LEMMA VoidNoteSources ==
  ASSUME MoneyInv, NEW n \in CreditNotes, VoidCreditNote(n)
  PROVE  SourcesSound'
<1> DEFINE note == [notes[n] EXCEPT !.status = "VOID", !.balance = 0]
<1>1. /\ UNCHANGED payments /\ applied' = [applied EXCEPT ![n] = NothingApplied]
      /\ notes' = [notes EXCEPT ![n] = note]
  BY MoneyTypes DEF VoidCreditNote
<1>2. note \in CreditNote /\ note.status = "VOID" /\ note.balance = 0
  BY NoteFacts DEF CreditNote
<1> HIDE DEF note
<1>3. SoundNote(note, 0)
  BY <1>2 DEF SoundNote
<1> QED BY <1>1, <1>3, TakenNothing, NoteWritten

-----------------------------------------------------------------------------
(* Finalizing with the customer's unused credits *)

(* What FinalizeWithCredits(i) does, with every payment's and every note's *)
(* share written down, those that give nothing included.                   *)
OneAllocation(s, i, amount) ==
  IF amount = 0 THEN applied'[s] = applied[s]
  ELSE \E a \in Applied : a.amount = amount /\ applied'[s] = [applied[s] EXCEPT ![i] = a]

Gives(p, c, amount) ==
  /\ payments[p].customer = c /\ payments[p].status \in Available
  /\ amount <= payments[p].unapplied

Credits(n, c, amount) ==
  /\ NoteCustomer[n] = c /\ notes[n].status = "OPEN" /\ amount <= notes[n].balance

Draws(i, C, D) ==
  /\ C \in [Payments -> Nat] /\ D \in [CreditNotes -> Nat]
  /\ SumFunction(C) + SumFunction(D) <= invoices[i].due
  /\ \A p \in Payments : C[p] > 0 => Gives(p, InvoiceCustomer[i], C[p])
  /\ \A n \in CreditNotes : D[n] > 0 => Credits(n, InvoiceCustomer[i], D[n])
  /\ payments' = [p \in Payments |->
                    IF C[p] > 0 THEN [payments[p] EXCEPT !.unapplied = @ - C[p]]
                    ELSE payments[p]]
  /\ notes' = [n \in CreditNotes |-> IF D[n] > 0 THEN Drawn(notes[n], D[n]) ELSE notes[n]]
  /\ applied' = [s \in Sources |-> applied'[s]]
  /\ \A p \in Payments : OneAllocation(p, i, C[p])
  /\ \A n \in CreditNotes : OneAllocation(n, i, D[n])
  /\ invoices' = [invoices EXCEPT ![i] =
                    Reprojected([MarkedFinalized(invoices[i]) EXCEPT
                                   !.due = @ - SumFunction(C) - SumFunction(D),
                                   !.paid = @ + SumFunction(C),
                                   !.credited = @ + SumFunction(D)])]

LEMMA CreditsAreDrawn ==
  ASSUME MoneyInv, NEW i \in Invoices, FinalizeWithCredits(i)
  PROVE  \E C, D : Draws(i, C, D)
<1> DEFINE c   == InvoiceCustomer[i]
           inv == invoices[i]
<1>1. PICK cash \in Drawings(Offers(c), inv.due) :
      \E credit \in Drawings(NoteOffers(c), inv.due - SumFunction(cash)) :
      \E paid, credited \in 0..inv.due : \E first \in Sources :
        SettleWithCredits(i, cash, credit, paid, credited, first)
  BY DEF FinalizeWithCredits
<1>2. PICK credit \in Drawings(NoteOffers(c), inv.due - SumFunction(cash)),
           paid \in 0..inv.due, credited \in 0..inv.due, first \in Sources :
        SettleWithCredits(i, cash, credit, paid, credited, first)
  BY <1>1
<1> DEFINE payers  == {p \in DOMAIN cash : cash[p] > 0}
           givers  == {n \in DOMAIN credit : credit[n] > 0}
           C == [p \in Payments |-> IF p \in DOMAIN cash THEN cash[p] ELSE 0]
           D == [n \in CreditNotes |-> IF n \in DOMAIN credit THEN credit[n] ELSE 0]
           moment(s) ==
             [paidAt |-> FALSE,
              status |-> IF s = first THEN "OPEN"
                         ELSE IF inv.late THEN "OVERDUE" ELSE "PARTIALLY_PAID"]
           piece(s, amount) == [amount |-> amount, before |-> {moment(s)}]
<1>3. inv \in Invoice /\ inv.due \in Nat
  BY MoneyTypes DEF Invoice
<1>4. /\ DOMAIN cash \subseteq Payments
      /\ \A p \in DOMAIN cash : /\ cash[p] \in Nat /\ Gives(p, c, cash[p])
  <2>1. /\ DOMAIN cash = DOMAIN Offers(c) /\ cash \in [DOMAIN Offers(c) -> 0..inv.due]
        /\ \A p \in DOMAIN Offers(c) : cash[p] <= Offers(c)[p]
    BY <1>1 DEF Drawings
  <2>2. \A p \in DOMAIN Offers(c) : p \in Payments /\ payments[p].customer = c
           /\ payments[p].status \in Available /\ Offers(c)[p] = payments[p].unapplied
    BY DEF Offers
  <2>3. \A p \in DOMAIN cash : cash[p] \in Nat
    BY <1>3, <2>1
  <2> QED BY <2>1, <2>2, <2>3 DEF Gives
<1>5. paid = SumFunction(cash) /\ credited = SumFunction(credit) /\ paid + credited <= inv.due
      /\ paid \in Nat /\ credited \in Nat
  <2>1. paid = SumFunction(cash) /\ credited = SumFunction(credit) /\ paid + credited <= inv.due
    BY <1>2 DEF SettleWithCredits
  <2>2. paid \in 0..inv.due /\ credited \in 0..inv.due
    BY <1>2
  <2> HIDE DEF inv
  <2> QED BY <1>3, <2>1, <2>2
<1>6. /\ DOMAIN credit \subseteq CreditNotes
      /\ \A n \in DOMAIN credit : /\ credit[n] \in Nat /\ Credits(n, c, credit[n])
  <2> DEFINE rest == inv.due - SumFunction(cash)
  <2>1. /\ DOMAIN credit = DOMAIN NoteOffers(c) /\ credit \in [DOMAIN NoteOffers(c) -> 0..rest]
        /\ \A n \in DOMAIN NoteOffers(c) : credit[n] <= NoteOffers(c)[n]
    BY <1>2 DEF Drawings
  <2>2. \A n \in DOMAIN NoteOffers(c) : n \in CreditNotes /\ NoteCustomer[n] = c
           /\ notes[n].status = "OPEN" /\ NoteOffers(c)[n] = notes[n].balance
    BY DEF NoteOffers
  <2>3. rest \in Int
    <3> HIDE DEF inv
    <3> QED BY <1>3, <1>5
  <2> HIDE DEF rest
  <2>4. \A n \in DOMAIN credit : credit[n] \in Nat
    BY <2>1, <2>3
  <2> QED BY <2>1, <2>2, <2>4 DEF Credits
<1>7. /\ C \in [Payments -> Nat] /\ D \in [CreditNotes -> Nat]
      /\ \A p \in Payments : C[p] > 0 <=> p \in payers
      /\ \A n \in CreditNotes : D[n] > 0 <=> n \in givers
      /\ \A p \in payers : p \in Payments /\ C[p] = cash[p]
      /\ \A n \in givers : n \in CreditNotes /\ D[n] = credit[n]
  BY <1>4, <1>6
<1>8. SumFunction(C) = paid /\ SumFunction(D) = credited
  <2>1. Summable(C) /\ Summable(D)
    BY <1>7, ReceivablesAssumption DEF Summable
  <2>2. /\ DOMAIN cash \subseteq DOMAIN C /\ \A p \in DOMAIN cash : cash[p] = C[p]
        /\ \A p \in DOMAIN C \ DOMAIN cash : C[p] = 0
    BY <1>4
  <2>3. /\ DOMAIN credit \subseteq DOMAIN D /\ \A n \in DOMAIN credit : credit[n] = D[n]
        /\ \A n \in DOMAIN D \ DOMAIN credit : D[n] = 0
    BY <1>6
  <2> HIDE DEF C, D
  <2>4. SumFunction(C) = SumFunction(cash)
    BY <2>1, <2>2, SumSupport
  <2>5. SumFunction(D) = SumFunction(credit)
    BY <2>1, <2>3, SumSupport
  <2> QED BY <1>5, <2>4, <2>5
<1>9. invoices' = [invoices EXCEPT ![i] =
                    Reprojected([MarkedFinalized(inv) EXCEPT
                                   !.due = @ - SumFunction(C) - SumFunction(D),
                                   !.paid = @ + SumFunction(C),
                                   !.credited = @ + SumFunction(D)])]
  <2>1. invoices' = [invoices EXCEPT ![i] =
                    Reprojected([MarkedFinalized(inv) EXCEPT
                                   !.due = @ - paid - credited,
                                   !.paid = @ + paid, !.credited = @ + credited])]
    BY <1>2 DEF SettleWithCredits
  <2> HIDE DEF C, D
  <2> QED BY <1>8, <2>1
<1>10. payments' = [p \in Payments |->
                    IF C[p] > 0 THEN [payments[p] EXCEPT !.unapplied = @ - C[p]]
                    ELSE payments[p]]
  <2>1. payments' = [p \in Payments |->
                       IF p \in payers THEN [payments[p] EXCEPT !.unapplied = @ - cash[p]]
                       ELSE payments[p]]
    BY <1>2 DEF SettleWithCredits
  <2> HIDE DEF C, payers
  <2> QED BY <1>7, <2>1
<1>11. notes' = [n \in CreditNotes |-> IF D[n] > 0 THEN Drawn(notes[n], D[n]) ELSE notes[n]]
  <2>1. notes' = [n \in CreditNotes |->
                    IF n \in givers
                    THEN [notes[n] EXCEPT !.balance = @ - credit[n],
                            !.status = IF credit[n] = notes[n].balance THEN "CLOSED" ELSE "OPEN"]
                    ELSE notes[n]]
    BY <1>2 DEF SettleWithCredits
  <2>2. \A n \in CreditNotes : D[n] > 0 =>
          Drawn(notes[n], D[n]) =
            [notes[n] EXCEPT !.balance = @ - credit[n],
               !.status = IF credit[n] = notes[n].balance THEN "CLOSED" ELSE "OPEN"]
    <3> TAKE n \in CreditNotes
    <3> HAVE D[n] > 0
    <3>1. D[n] = credit[n] /\ (notes[n].balance = credit[n] <=> credit[n] = notes[n].balance)
      BY <1>7
    <3> HIDE DEF D
    <3> QED BY <3>1 DEF Drawn
  <2> HIDE DEF D, givers
  <2> QED BY <1>7, <2>1, <2>2
<1>12. applied' = [s \in Sources |->
                    IF s \in payers THEN [applied[s] EXCEPT ![i] = piece(s, cash[s])]
                    ELSE IF s \in givers THEN [applied[s] EXCEPT ![i] = piece(s, credit[s])]
                    ELSE applied[s]]
  BY <1>2 DEF SettleWithCredits
<1>13. ASSUME NEW s, NEW amount \in Nat PROVE piece(s, amount) \in Applied
  <2>1. moment(s) \in Moment
    BY DEF Moment, Collectible
  <2> HIDE DEF moment
  <2> QED BY <2>1 DEF Applied
<1>14. \A p \in Payments : OneAllocation(p, i, C[p])
  <2> TAKE p \in Payments
  <2>0. p \in Sources /\ p \notin givers
    BY <1>6, MoneyTypes
  <2>1. CASE C[p] > 0
    <3>1. p \in payers /\ C[p] = cash[p] /\ C[p] \in Nat /\ C[p] # 0
      BY <1>7, <2>1
    <3>2. applied'[p] = [applied[p] EXCEPT ![i] = piece(p, cash[p])]
      <4> HIDE DEF payers, givers, piece
      <4> QED BY <1>12, <2>0, <3>1
    <3>3. piece(p, cash[p]) \in Applied /\ piece(p, cash[p]).amount = C[p]
      <4> HIDE DEF C
      <4> QED BY <1>13, <3>1
    <3> HIDE DEF C, piece
    <3> QED BY <3>1, <3>2, <3>3 DEF OneAllocation
  <2>2. CASE ~ (C[p] > 0)
    <3>1. p \notin payers /\ C[p] = 0
      BY <1>7, <2>2
    <3> HIDE DEF C, payers, givers, piece
    <3> QED BY <1>12, <2>0, <3>1 DEF OneAllocation
  <2> QED BY <2>1, <2>2
<1>15. \A n \in CreditNotes : OneAllocation(n, i, D[n])
  <2> TAKE n \in CreditNotes
  <2>0. n \in Sources /\ n \notin payers
    BY <1>4, MoneyTypes
  <2>1. CASE D[n] > 0
    <3>1. n \in givers /\ D[n] = credit[n] /\ D[n] \in Nat /\ D[n] # 0
      BY <1>7, <2>1
    <3>2. applied'[n] = [applied[n] EXCEPT ![i] = piece(n, credit[n])]
      <4> HIDE DEF payers, givers, piece
      <4> QED BY <1>12, <2>0, <3>1
    <3>3. piece(n, credit[n]) \in Applied /\ piece(n, credit[n]).amount = D[n]
      <4> HIDE DEF D
      <4> QED BY <1>13, <3>1
    <3> HIDE DEF D, piece
    <3> QED BY <3>1, <3>2, <3>3 DEF OneAllocation
  <2>2. CASE ~ (D[n] > 0)
    <3>1. n \notin givers /\ D[n] = 0
      BY <1>7, <2>2
    <3> HIDE DEF D, payers, givers, piece
    <3> QED BY <1>12, <2>0, <3>1 DEF OneAllocation
  <2> QED BY <2>1, <2>2
<1>16. applied' = [s \in Sources |-> applied'[s]]
  <2> HIDE DEF payers, givers, piece
  <2> QED BY <1>12
<1>17. /\ \A p \in Payments : C[p] > 0 => Gives(p, c, C[p])
       /\ \A n \in CreditNotes : D[n] > 0 => Credits(n, c, D[n])
       /\ SumFunction(C) + SumFunction(D) <= inv.due
  <2>1. \A p \in payers : p \in DOMAIN cash
    OBVIOUS
  <2>2. \A n \in givers : n \in DOMAIN credit
    OBVIOUS
  <2> HIDE DEF C, D, payers, givers, inv
  <2> QED BY <1>4, <1>5, <1>6, <1>7, <1>8, <2>1, <2>2
<1>18. Draws(i, C, D)
  <2> HIDE DEF C, D
  <2> QED BY <1>7, <1>9, <1>10, <1>11, <1>14, <1>15, <1>16, <1>17 DEF Draws
<1> QED BY <1>18

LEMMA PaymentDrawn ==
  ASSUME NEW old, NEW taken \in Nat, NEW amount \in Nat, SoundPayment(old, taken),
         old.status \in Available, amount <= old.unapplied
  PROVE  SoundPayment([old EXCEPT !.unapplied = old.unapplied - amount], taken + amount)
<1> DEFINE pay == [old EXCEPT !.unapplied = old.unapplied - amount]
<1>1. old \in Payment /\ old.unapplied \in Nat /\ old.refunded \in Nat /\ old.amount \in Nat
  BY DEF SoundPayment, Payment
<1>2. old.unapplied - amount \in Nat
  BY <1>1
<1>3. /\ pay \in Payment /\ pay.status = old.status /\ pay.customer = old.customer
      /\ pay.amount = old.amount /\ pay.refunded = old.refunded
      /\ pay.unapplied = old.unapplied - amount
  BY <1>1, <1>2 DEF Payment
<1> HIDE DEF pay
<1>4. old.status \notin {"absent", "CANCELED"}
  BY DEF Available
<1>5. old.amount = old.unapplied + old.refunded + taken
  BY <1>4 DEF SoundPayment
<1>6. pay.amount = pay.unapplied + pay.refunded + (taken + amount)
  BY <1>1, <1>3, <1>5
<1>7. SoundPayment(pay, taken + amount)
  BY <1>3, <1>4, <1>6 DEF SoundPayment
<1> QED BY <1>7 DEF pay

(* A draft has no allocations. *)
LEMMA DraftUntouched ==
  ASSUME MoneyInv, NEW i \in Invoices, invoices[i].status = "DRAFT"
  PROVE  /\ \A s \in Sources : applied[s][i].amount = 0
         /\ invoices[i].paid = 0 /\ invoices[i].credited = 0
<1>1. \A s \in Sources :
        /\ SoundAllocation(applied[s][i], invoices[i], i \in rewritten, invalidating[i])
        /\ applied[s][i].amount \in Nat
  BY DEF MoneyInv, SettlementInv, InvoiceInv, Remembers, SoundAllocation, Applied
<1>2. \A s \in Sources : applied[s][i].amount = 0
  BY <1>1 DEF SoundAllocation, Backed, Finalized, Collectible
<1> QED BY <1>2, NothingPaid DEF MoneyInv, Accounted

LEMMA DrawsAmounts ==
  ASSUME MoneyInv, NEW i \in Invoices, invoices[i].status = "DRAFT", NEW s \in Sources,
         NEW amount \in Nat, OneAllocation(s, i, amount)
  PROVE  /\ Taken(applied'[s]) = Taken(applied[s]) + amount
         /\ applied'[s][i].amount = amount
         /\ \A j \in Invoices \ {i} : applied'[s][j].amount = applied[s][j].amount
<1>1. applied[s] \in Rows /\ applied[s][i].amount = 0 /\ Taken(applied[s]) \in Nat
  BY MoneyTypes, DraftUntouched, TakenNat
<1>2. CASE amount = 0
  BY <1>1, <1>2 DEF OneAllocation
<1>3. CASE amount # 0
  <2>1. PICK a \in Applied : a.amount = amount /\ applied'[s] = [applied[s] EXCEPT ![i] = a]
    BY <1>3 DEF OneAllocation
  <2>2. Taken(applied'[s]) = Taken(applied[s]) + a.amount
    BY <1>1, <2>1, TakenOne
  <2> QED BY <1>1, <2>1, <2>2 DEF Rows
<1> QED BY <1>2, <1>3

LEMMA CreditsSources ==
  ASSUME MoneyInv, NEW i \in Invoices, invoices[i].status = "DRAFT",
         NEW C, NEW D, Draws(i, C, D)
  PROVE  SourcesSound'
<1>1. ASSUME NEW p \in Payments PROVE SoundPayment(payments'[p], Taken(applied'[p]))
  <2>1. /\ p \in Sources /\ SoundPayment(payments[p], Taken(applied[p]))
        /\ Taken(applied[p]) \in Nat /\ C[p] \in Nat
    BY MoneyTypes, TakenNat DEF MoneyInv, SourcesSound, Draws
  <2>2. Taken(applied'[p]) = Taken(applied[p]) + C[p]
    BY <2>1, DrawsAmounts DEF Draws
  <2>3. CASE C[p] > 0
    <3>1. /\ payments'[p] = [payments[p] EXCEPT !.unapplied = payments[p].unapplied - C[p]]
          /\ payments[p].status \in Available /\ C[p] <= payments[p].unapplied
      BY <2>3 DEF Draws, Gives
    <3> QED BY <2>1, <2>2, <3>1, PaymentDrawn
  <2>4. CASE ~ (C[p] > 0)
    <3>1. payments'[p] = payments[p]
      BY <2>4 DEF Draws
    <3>2. Taken(applied'[p]) = Taken(applied[p])
      BY <2>1, <2>2, <2>4
    <3> QED BY <2>1, <3>1, <3>2
  <2> QED BY <2>3, <2>4
<1>2. ASSUME NEW n \in CreditNotes PROVE SoundNote(notes'[n], Taken(applied'[n]))
  <2>1. /\ n \in Sources /\ SoundNote(notes[n], Taken(applied[n]))
        /\ Taken(applied[n]) \in Nat /\ D[n] \in Nat
    BY NoteFacts DEF Draws
  <2>2. Taken(applied'[n]) = Taken(applied[n]) + D[n]
    BY <2>1, DrawsAmounts DEF Draws
  <2>3. CASE D[n] > 0
    <3>1. /\ notes'[n] = Drawn(notes[n], D[n])
          /\ notes[n].status = "OPEN" /\ D[n] <= notes[n].balance
      BY <2>3 DEF Draws, Credits
    <3>2. SoundNote(Drawn(notes[n], D[n]), Taken(applied[n]) + D[n])
      BY <2>1, <3>1, DrawnNote
    <3> QED BY <2>2, <3>1, <3>2
  <2>4. CASE ~ (D[n] > 0)
    <3>1. notes'[n] = notes[n]
      BY <2>4 DEF Draws
    <3>2. Taken(applied'[n]) = Taken(applied[n])
      BY <2>1, <2>2, <2>4
    <3> QED BY <2>1, <3>1, <3>2
  <2> QED BY <2>3, <2>4
<1>3. payments' \in [Payments -> Payment] /\ notes' \in [CreditNotes -> CreditNote]
  <2>1. \A p \in Payments : payments'[p] \in Payment
    BY <1>1 DEF SoundPayment
  <2>2. \A n \in CreditNotes : notes'[n] \in CreditNote
    BY <1>2 DEF SoundNote
  <2>3. /\ payments' = [p \in Payments |-> payments'[p]]
        /\ notes' = [n \in CreditNotes |-> notes'[n]]
    BY DEF Draws
  <2> QED BY <2>1, <2>2, <2>3
<1> QED BY <1>1, <1>2, <1>3 DEF SourcesSound

(* What the finalized invoice says of the draws *)
LEMMA DrawnInvoice ==
  ASSUME MoneyInv, NEW i \in Invoices, invoices[i].status = "DRAFT",
         NEW C, NEW D, Draws(i, C, D)
  PROVE  /\ SumFunction(C) \in Nat /\ SumFunction(D) \in Nat
         /\ \A j \in Invoices \ {i} : invoices'[j] = invoices[j]
         /\ invoices'[i].paid = SumFunction(C) /\ invoices'[i].credited = SumFunction(D)
         /\ invoices'[i].due = invoices[i].due - SumFunction(C) - SumFunction(D)
         /\ invoices'[i].total = invoices[i].total
         /\ invoices'[i].writtenOff = invoices[i].writtenOff
         /\ invoices'[i].status \in Collectible \cup {"PAID"}
         /\ invoices'[i].status = "PAID" <=> invoices'[i].due = 0
<1> DEFINE inv == invoices[i]
           marked == MarkedFinalized(inv)
           paid == SumFunction(C)
           credited == SumFunction(D)
           mid == [marked EXCEPT !.due = marked.due - paid - credited,
                                 !.paid = marked.paid + paid,
                                 !.credited = marked.credited + credited]
<1>1. paid \in Nat /\ credited \in Nat
  <2>1. Summable(C) /\ Summable(D) /\ (\A p \in DOMAIN C : C[p] >= 0)
        /\ \A n \in DOMAIN D : D[n] >= 0
    BY ReceivablesAssumption DEF Draws, Summable
  <2> QED BY <2>1, SumNat
<1>2. inv \in Invoice /\ inv.paid = 0 /\ inv.credited = 0
  BY MoneyTypes, DraftUntouched
<1>3. /\ invoices' = [invoices EXCEPT ![i] = Reprojected(mid)]
      /\ invoices \in [Invoices -> Invoice]
  BY MoneyTypes DEF Draws
<1>4. /\ marked.due = inv.due /\ marked.paid = 0 /\ marked.credited = 0
      /\ marked.total = inv.total /\ marked.writtenOff = inv.writtenOff
      /\ DOMAIN marked = DOMAIN inv
  BY <1>2 DEF MarkedFinalized, Invoice
<1>5. DOMAIN inv = {"status", "total", "due", "paid", "credited", "writtenOff", "late",
                    "sent", "paidAt"}
  BY <1>2 DEF Invoice
<1> HIDE DEF marked, paid, credited, inv
<1>6. /\ mid.due = marked.due - paid - credited
      /\ mid.paid = marked.paid + paid /\ mid.credited = marked.credited + credited
      /\ mid.total = marked.total /\ mid.writtenOff = marked.writtenOff
      /\ DOMAIN mid = DOMAIN inv
  BY <1>4, <1>5
<1>7. /\ mid.due = inv.due - paid - credited /\ mid.paid = paid /\ mid.credited = credited
      /\ mid.total = inv.total /\ mid.writtenOff = inv.writtenOff
  <2> HIDE DEF mid
  <2> QED BY <1>1, <1>4, <1>6
<1> HIDE DEF mid
<1>8. /\ Reprojected(mid).due = mid.due /\ Reprojected(mid).paid = mid.paid
      /\ Reprojected(mid).credited = mid.credited /\ Reprojected(mid).total = mid.total
      /\ Reprojected(mid).writtenOff = mid.writtenOff
      /\ Reprojected(mid).status = Projected(mid)
  BY <1>5, <1>6 DEF Reprojected
<1>9. /\ Projected(mid) \in Collectible \cup {"PAID"}
      /\ Projected(mid) = "PAID" <=> mid.due = 0
  BY DEF Projected, Collectible
<1> QED BY <1>1, <1>3, <1>7, <1>8, <1>9 DEF inv, paid, credited

LEMMA CreditsAccounted ==
  ASSUME MoneyInv, NEW i \in Invoices, invoices[i].status = "DRAFT",
         NEW C, NEW D, Draws(i, C, D)
  PROVE  Accounted(invoices', applied')
<1> DEFINE f(app, j) == [p \in Payments |-> app[p][j].amount]
           g(app, j) == [n \in CreditNotes |-> app[n][j].amount]
<1>1. ASSUME NEW s \in Sources
      PROVE  /\ s \in Payments => applied'[s][i].amount = C[s]
             /\ s \in CreditNotes => applied'[s][i].amount = D[s]
             /\ \A j \in Invoices \ {i} : applied'[s][j].amount = applied[s][j].amount
  <2>1. CASE s \in Payments
    <3>1. C[s] \in Nat /\ OneAllocation(s, i, C[s]) /\ s \notin CreditNotes
      BY <2>1, MoneyTypes DEF Draws
    <3> QED BY <3>1, DrawsAmounts
  <2>2. CASE s \in CreditNotes
    <3>1. D[s] \in Nat /\ OneAllocation(s, i, D[s]) /\ s \notin Payments
      BY <2>2, MoneyTypes DEF Draws
    <3> QED BY <3>1, DrawsAmounts
  <2> QED BY <2>1, <2>2 DEF Sources
<1>2. f(applied', i) = C /\ g(applied', i) = D
  BY <1>1 DEF Draws, Sources
<1>3. \A j \in Invoices \ {i} : f(applied', j) = f(applied, j) /\ g(applied', j) = g(applied, j)
  BY <1>1 DEF Sources
<1>4. PaidBy(applied', i) = SumFunction(C) /\ CreditedBy(applied', i) = SumFunction(D)
  BY <1>2 DEF PaidBy, CreditedBy
<1>5. \A j \in Invoices \ {i} : /\ PaidBy(applied', j) = PaidBy(applied, j)
                                /\ CreditedBy(applied', j) = CreditedBy(applied, j)
  BY <1>3 DEF PaidBy, CreditedBy
<1> HIDE DEF f, g
<1> QED BY <1>4, <1>5, DrawnInvoice DEF Accounted, MoneyInv

-----------------------------------------------------------------------------
(* What an invoice says of its allocations, step by step *)

(* One invoice is written, with the same paid and credited amounts.        *)
LEMMA OneAlike ==
  ASSUME MoneyInv, NEW i \in Invoices, NEW row,
         invoices' = [invoices EXCEPT ![i] = row],
         row.paid = invoices[i].paid, row.credited = invoices[i].credited,
         UNCHANGED applied
  PROVE  Accounted(invoices', applied')
<1>1. \A j \in Invoices : invoices'[j].paid = invoices[j].paid
                          /\ invoices'[j].credited = invoices[j].credited
  BY MoneyTypes
<1>2. Accounted(invoices, applied)
  BY DEF MoneyInv
<1> QED BY <1>1, <1>2 DEF Accounted

(* An invoice without allocations is replaced by an empty one.             *)
LEMMA OneEmptied ==
  ASSUME MoneyInv, NEW i \in Invoices, NEW row,
         invoices' = [invoices EXCEPT ![i] = row],
         row.paid = 0, row.credited = 0,
         \A s \in Sources : applied[s][i].amount = 0, UNCHANGED applied
  PROVE  Accounted(invoices', applied')
<1>1. invoices'[i] = row /\ \A j \in Invoices \ {i} : invoices'[j] = invoices[j]
  BY MoneyTypes
<1>2. PaidBy(applied, i) = 0 /\ CreditedBy(applied, i) = 0
  BY NothingPaid
<1> QED BY <1>1, <1>2 DEF Accounted, MoneyInv

LEMMA InvoiceFields ==
  ASSUME MoneyInv, NEW i \in Invoices
  PROVE  invoices[i] \in Invoice /\ SoundRow(invoices[i], i \in rewritten, invalidating[i])
BY DEF MoneyInv, SettlementInv, InvoiceInv, Sound

LEMMA InvoiceStepAccounted ==
  ASSUME MoneyInv, InvoiceStep PROVE Accounted(invoices', applied')
<1>1. ASSUME NEW i \in Invoices, FinalizeInvoice(i) PROVE Accounted(invoices', applied')
  <2> DEFINE row == MarkedFinalized(invoices[i])
  <2>1. invoices' = [invoices EXCEPT ![i] = row] /\ UNCHANGED applied
    BY <1>1 DEF FinalizeInvoice
  <2>2. row.paid = invoices[i].paid /\ row.credited = invoices[i].credited
    BY InvoiceFields DEF MarkedFinalized, Invoice
  <2> HIDE DEF row
  <2> QED BY <2>1, <2>2, OneAlike
<1>2. ASSUME NEW i \in Invoices, FinalizeWithCredits(i) PROVE Accounted(invoices', applied')
  <2>1. invoices[i].status = "DRAFT"
    BY <1>2 DEF FinalizeWithCredits
  <2> QED BY <1>2, <2>1, CreditsAreDrawn, CreditsAccounted
<1>3. ASSUME NEW i \in Invoices, SendInvoice(i) PROVE Accounted(invoices', applied')
  <2> DEFINE old == invoices[i]
             row == [old EXCEPT !.sent = TRUE,
                                !.status = IF old.status = "OPEN" THEN "SENT" ELSE old.status]
  <2>1. invoices' = [invoices EXCEPT ![i] = row] /\ UNCHANGED applied
    BY <1>3, MoneyTypes DEF SendInvoice
  <2>2. row.paid = old.paid /\ row.credited = old.credited
    BY InvoiceFields DEF Invoice
  <2> HIDE DEF row
  <2> QED BY <2>1, <2>2, OneAlike
<1>4. ASSUME NEW i \in Invoices, VoidInvoice(i) PROVE Accounted(invoices', applied')
  <2> DEFINE row == [invoices[i] EXCEPT !.status = "VOID", !.due = 0]
  <2>1. invoices' = [invoices EXCEPT ![i] = row] /\ UNCHANGED applied
    BY <1>4, MoneyTypes DEF VoidInvoice
  <2>2. row.paid = invoices[i].paid /\ row.credited = invoices[i].credited
    BY InvoiceFields DEF Invoice
  <2> HIDE DEF row
  <2> QED BY <2>1, <2>2, OneAlike
<1>5. ASSUME NEW i \in Invoices, WriteOffInvoice(i) PROVE Accounted(invoices', applied')
  <2> DEFINE old == invoices[i]
             row == [old EXCEPT !.status = "UNCOLLECTIBLE", !.due = 0, !.paidAt = FALSE,
                                !.writtenOff = old.writtenOff + old.due]
  <2>1. invoices' = [invoices EXCEPT ![i] = row] /\ UNCHANGED applied
    BY <1>5 DEF WriteOffInvoice
  <2>2. row.paid = old.paid /\ row.credited = old.credited
    BY InvoiceFields DEF Invoice
  <2> HIDE DEF row
  <2> QED BY <2>1, <2>2, OneAlike
<1>6. CASE MarkOverdue
  <2>1. UNCHANGED applied /\ \A i \in Invoices :
          invoices'[i] = IF OverdueCandidate(i) THEN [invoices[i] EXCEPT !.status = "OVERDUE"]
                         ELSE invoices[i]
    BY <1>6 DEF MarkOverdue
  <2>2. \A i \in Invoices : invoices'[i].paid = invoices[i].paid
                            /\ invoices'[i].credited = invoices[i].credited
    BY <2>1, InvoiceFields DEF Invoice
  <2> QED BY <2>1, <2>2, AccountedAlike DEF MoneyInv
<1> QED BY <1>1, <1>2, <1>3, <1>4, <1>5, <1>6 DEF InvoiceStep

LEMMA EditStepAccounted ==
  ASSUME MoneyInv, EditStep PROVE Accounted(invoices', applied')
<1>0. \A e \in edits : e.invoice \in Invoices
  BY DEF MoneyInv, SettlementInv, EditInv, Edit
<1>1. CASE UNCHANGED <<invoices, applied>>
  BY <1>1, AccountedAlike DEF MoneyInv
<1>2. ASSUME NEW i \in Invoices, NEW what, BeginEdit(i, what) PROVE Accounted(invoices', applied')
  BY <1>1, <1>2 DEF BeginEdit
<1>3. ASSUME NEW e \in edits, NEW total, WriteLines(e, total) PROVE Accounted(invoices', applied')
  <2> DEFINE i == e.invoice
             row == [invoices[i] EXCEPT !.total = total, !.due = total]
  <2>1. i \in Invoices /\ invoices' = [invoices EXCEPT ![i] = row] /\ UNCHANGED applied
    BY <1>0, <1>3 DEF WriteLines
  <2>2. row.paid = invoices[i].paid /\ row.credited = invoices[i].credited
    BY <2>1, InvoiceFields DEF Invoice
  <2> HIDE DEF row, i
  <2> QED BY <2>1, <2>2, OneAlike
<1>4. ASSUME NEW e \in edits, NEW late, WriteDates(e, late) PROVE Accounted(invoices', applied')
  <2> DEFINE i == e.invoice
             row == [invoices[i] EXCEPT !.late = late]
  <2>1. i \in Invoices /\ invoices' = [invoices EXCEPT ![i] = row] /\ UNCHANGED applied
    BY <1>0, <1>4 DEF WriteDates
  <2>2. row.paid = invoices[i].paid /\ row.credited = invoices[i].credited
    BY <2>1, InvoiceFields DEF Invoice
  <2> HIDE DEF row, i
  <2> QED BY <2>1, <2>2, OneAlike
<1>5. ASSUME NEW e \in edits, DeleteDraft(e) PROVE Accounted(invoices', applied')
  <2> DEFINE i == e.invoice
             row == [AbsentInvoice EXCEPT !.status = "deleted"]
  <2>1. /\ i \in Invoices /\ invoices' = [invoices EXCEPT ![i] = row] /\ UNCHANGED applied
        /\ \A s \in Sources : applied[s][i].amount = 0
    BY <1>0, <1>5 DEF DeleteDraft
  <2>2. row.paid = 0 /\ row.credited = 0
    BY DEF AbsentInvoice
  <2> HIDE DEF row, i
  <2> QED BY <2>1, <2>2, OneEmptied
<1>6. ASSUME NEW e \in edits, AbandonEdit(e) PROVE Accounted(invoices', applied')
  BY <1>1, <1>6 DEF AbandonEdit
<1> QED BY <1>2, <1>3, <1>4, <1>5, <1>6 DEF EditStep

LEMMA AllocateAccounted ==
  ASSUME MoneyInv, NEW s \in Sources, NEW c, NEW alloc \in Allocations,
         LoadTargets(invoices, c, alloc), invoices' = InvoicesAfter(invoices, s, alloc),
         applied' = [applied EXCEPT ![s] = AppliedAfter(applied[s], invoices, alloc)]
  PROVE  Accounted(invoices', applied')
<1>1. Sound(invoices, rewritten, invalidating) /\ Accounted(invoices, applied)
  BY DEF MoneyInv, SettlementInv, InvoiceInv
<1> QED BY <1>1, MoneyTypes, AllocationAccounted

LEMMA TakeBackAccounted ==
  ASSUME MoneyInv, NEW s \in Sources, NEW last,
         invoices' = InvoicesRestored(invoices, s, applied[s], last),
         applied' = [applied EXCEPT ![s] = NothingApplied]
  PROVE  Accounted(invoices', applied')
<1>1. Sound(invoices, rewritten, invalidating) /\ Accounted(invoices, applied)
  BY DEF MoneyInv, SettlementInv, InvoiceInv
<1> QED BY <1>1, MoneyTypes, ReversalAccounted

LEMMA UpdateAccounted ==
  ASSUME MoneyInv, NEW p \in Payments, NEW c, NEW amount, NEW alloc \in Allocations,
         UpdatePayment(p, c, amount, alloc)
  PROVE  Accounted(invoices', applied')
<1>1. Storable(invoices, applied[p], p) /\ p \in Sources
  BY MoneyTypes DEF UpdatePayment
<1>2. PICK last \in Restorations(applied[p]) :
        LET back == InvoicesRestored(invoices, p, applied[p], last)
        IN  /\ LoadTargets(back, c, alloc)
            /\ applied' = [applied EXCEPT ![p] = AppliedAfter(NothingApplied, back, alloc)]
            /\ invoices' = InvoicesAfter(back, p, alloc)
  BY DEF UpdatePayment
<1> DEFINE back == InvoicesRestored(invoices, p, applied[p], last)
           mid == [applied EXCEPT ![p] = NothingApplied]
<1>3. /\ Sound(invoices, rewritten, invalidating)
      /\ Remembers(applied[p], invoices, rewritten, invalidating)
      /\ Accounted(invoices, applied) /\ applied \in [Sources -> Rows]
  BY <1>1, MoneyTypes DEF MoneyInv, SettlementInv, InvoiceInv
<1>4. Sound(back, rewritten, invalidating)
  BY <1>1, <1>3, ReversalSound
<1>5. Accounted(back, mid)
  BY <1>1, <1>3, ReversalAccounted
<1>6. mid \in [Sources -> Rows] /\ mid[p] = NothingApplied
  BY <1>1, <1>3, TakenNothing
<1>7. /\ LoadTargets(back, c, alloc) /\ invoices' = InvoicesAfter(back, p, alloc)
      /\ applied' = [mid EXCEPT ![p] = AppliedAfter(mid[p], back, alloc)]
  BY <1>2, <1>3, <1>6
<1> HIDE DEF back, mid
<1>8. Accounted(InvoicesAfter(back, p, alloc),
                [mid EXCEPT ![p] = AppliedAfter(mid[p], back, alloc)])
  BY <1>1, <1>4, <1>5, <1>6, <1>7, AllocationAccounted
<1> QED BY <1>7, <1>8

LEMMA PaymentStepAccounted ==
  ASSUME MoneyInv, PaymentStep PROVE Accounted(invoices', applied')
<1>1. ASSUME NEW p \in Payments, NEW c, NEW amount, NEW alloc \in Allocations,
             CreatePayment(p, c, amount, alloc)
      PROVE  Accounted(invoices', applied')
  BY <1>1, MoneyTypes, AllocateAccounted DEF CreatePayment
<1>2. ASSUME NEW p \in Payments, NEW c, NEW amount, NEW alloc \in Allocations,
             UpdatePayment(p, c, amount, alloc)
      PROVE  Accounted(invoices', applied')
  BY <1>2, UpdateAccounted
<1>3. ASSUME NEW p \in Payments, NEW c, NEW amount, ConfirmIntent(p, c, amount)
      PROVE  Accounted(invoices', applied')
  BY <1>3, AccountedAlike DEF ConfirmIntent, MoneyInv
<1>4. ASSUME NEW p \in Payments, NEW alloc \in Allocations, ApplyPayment(p, alloc)
      PROVE  Accounted(invoices', applied')
  BY <1>4, MoneyTypes, AllocateAccounted DEF ApplyPayment
<1>5. ASSUME NEW p \in Payments, NEW amount, RefundPayment(p, amount)
      PROVE  Accounted(invoices', applied')
  BY <1>5, AccountedAlike DEF RefundPayment, MoneyInv
<1>6. ASSUME NEW p \in Payments, CancelPayment(p)
      PROVE  Accounted(invoices', applied')
  BY <1>6, MoneyTypes, TakeBackAccounted DEF CancelPayment
<1> QED BY <1>1, <1>2, <1>3, <1>4, <1>5, <1>6 DEF PaymentStep

LEMMA CreditNoteStepAccounted ==
  ASSUME MoneyInv, CreditNoteStep PROVE Accounted(invoices', applied')
<1>1. CASE UNCHANGED <<invoices, applied>>
  BY <1>1, AccountedAlike DEF MoneyInv
<1>2. ASSUME NEW n \in CreditNotes, NEW alloc \in Allocations, ApplyCreditNote(n, alloc)
      PROVE  Accounted(invoices', applied')
  BY <1>2, MoneyTypes, AllocateAccounted DEF ApplyCreditNote
<1>3. ASSUME NEW n \in CreditNotes, VoidCreditNote(n)
      PROVE  Accounted(invoices', applied')
  BY <1>3, MoneyTypes, TakeBackAccounted DEF VoidCreditNote
<1>4. ASSUME NEW n \in CreditNotes, NEW amount,
             \/ BeginIssue(n, amount) \/ CommitIssue(n) \/ AbortIssue(n)
             \/ RefundCreditNote(n, amount)
      PROVE  Accounted(invoices', applied')
  BY <1>1, <1>4 DEF BeginIssue, CommitIssue, AbortIssue, RefundCreditNote
<1> QED BY <1>2, <1>3, <1>4 DEF CreditNoteStep

LEMMA AdvanceStepAccounted ==
  ASSUME MoneyInv, AdvanceStep PROVE Accounted(invoices', applied')
<1>1. ASSUME NEW i \in Invoices, ReadAdvance(i) \/ WriteAdvance(i) \/ AbortAdvance(i)
      PROVE  Accounted(invoices', applied')
  <2>1. UNCHANGED <<invoices, applied>>
    BY <1>1 DEF ReadAdvance, WriteAdvance, AbortAdvance
  <2> QED BY <2>1, AccountedAlike DEF MoneyInv
<1>2. ASSUME NEW i \in Invoices, CommitAdvance(i) PROVE Accounted(invoices', applied')
  <2> DEFINE row == [invoices[i] EXCEPT !.status = "VOID", !.due = 0]
  <2>1. invoices' = [invoices EXCEPT ![i] = row] /\ UNCHANGED applied
    BY <1>2 DEF CommitAdvance, Invalidated
  <2>2. row.paid = invoices[i].paid /\ row.credited = invoices[i].credited
    BY InvoiceFields DEF Invoice
  <2> HIDE DEF row
  <2> QED BY <2>1, <2>2, OneAlike
<1> QED BY <1>1, <1>2 DEF AdvanceStep

LEMMA AccountedNext ==
  ASSUME MoneyInv, Next PROVE Accounted(invoices', applied')
<1>1. ASSUME NEW i \in Invoices, NEW total, CreateDraft(i, total)
      PROVE  Accounted(invoices', applied')
  <2> DEFINE row == [AbsentInvoice EXCEPT !.status = "DRAFT", !.total = total, !.due = total]
  <2>1. /\ invoices' = [invoices EXCEPT ![i] = row] /\ UNCHANGED applied
        /\ invoices[i].status = "absent"
    BY <1>1 DEF CreateDraft
  <2>2. row.paid = 0 /\ row.credited = 0
    BY DEF AbsentInvoice
  <2>3. \A s \in Sources : SoundAllocation(applied[s][i], invoices[i], i \in rewritten, invalidating[i])
                           /\ applied[s][i].amount \in Nat
    BY DEF MoneyInv, SettlementInv, InvoiceInv, Remembers, SoundAllocation, Applied
  <2>4. \A s \in Sources : applied[s][i].amount = 0
    BY <2>1, <2>3 DEF SoundAllocation, Backed, Finalized, Collectible
  <2> HIDE DEF row
  <2> QED BY <2>1, <2>2, <2>4, OneEmptied
<1>2. ASSUME NEW i \in Invoices, FallDue(i) PROVE Accounted(invoices', applied')
  <2> DEFINE row == [invoices[i] EXCEPT !.late = TRUE]
  <2>1. invoices' = [invoices EXCEPT ![i] = row] /\ UNCHANGED applied
    BY <1>2 DEF FallDue
  <2>2. row.paid = invoices[i].paid /\ row.credited = invoices[i].credited
    BY InvoiceFields DEF Invoice
  <2> HIDE DEF row
  <2> QED BY <2>1, <2>2, OneAlike
<1> QED BY <1>1, <1>2, InvoiceStepAccounted, EditStepAccounted, PaymentStepAccounted,
           CreditNoteStepAccounted, AdvanceStepAccounted DEF Next

LEMMA SourcesNext ==
  ASSUME MoneyInv, Next PROVE SourcesSound'
<1>1. CASE UNCHANGED <<payments, notes, applied>>
  BY <1>1, SourcesKept
<1>2. ASSUME NEW i \in Invoices, NEW total, CreateDraft(i, total) \/ FallDue(i)
      PROVE  SourcesSound'
  BY <1>1, <1>2 DEF CreateDraft, FallDue
<1>3. CASE InvoiceStep
  <2>1. ASSUME NEW i \in Invoices, FinalizeWithCredits(i) PROVE SourcesSound'
    <3>1. invoices[i].status = "DRAFT"
      BY <2>1 DEF FinalizeWithCredits
    <3> QED BY <2>1, <3>1, CreditsAreDrawn, CreditsSources
  <2>2. ASSUME NEW i \in Invoices,
               \/ FinalizeInvoice(i) \/ SendInvoice(i) \/ VoidInvoice(i) \/ WriteOffInvoice(i)
        PROVE  SourcesSound'
    BY <1>1, <2>2 DEF FinalizeInvoice, SendInvoice, VoidInvoice, WriteOffInvoice
  <2>3. CASE MarkOverdue
    BY <1>1, <2>3 DEF MarkOverdue
  <2> QED BY <1>3, <2>1, <2>2, <2>3 DEF InvoiceStep
<1>4. CASE EditStep
  BY <1>1, <1>4 DEF EditStep, BeginEdit, WriteLines, WriteDates, DeleteDraft, AbandonEdit
<1>5. CASE PaymentStep
  BY <1>5, CreateSources, UpdateSources, ConfirmSources, ApplySources, RefundSources,
     CancelSources DEF PaymentStep
<1>6. CASE CreditNoteStep
  <2>1. ASSUME NEW n \in CreditNotes, NEW total, BeginIssue(n, total) \/ AbortIssue(n)
        PROVE  SourcesSound'
    BY <1>1, <2>1 DEF BeginIssue, AbortIssue
  <2> QED BY <1>6, <2>1, IssueSources, ApplyNoteSources, RefundNoteSources, VoidNoteSources
          DEF CreditNoteStep
<1>7. CASE AdvanceStep
  BY <1>1, <1>7 DEF AdvanceStep, ReadAdvance, WriteAdvance, CommitAdvance, AbortAdvance
<1> QED BY <1>2, <1>3, <1>4, <1>5, <1>6, <1>7 DEF Next

-----------------------------------------------------------------------------
(* The books: ledger, columns, intents *)

(* The sums that the columns are recomputed from, over all rows: a row     *)
(* that is not counted adds nothing.                                       *)
OwedBy(invs, c) ==
  [i \in Invoices |-> IF InvoiceCustomer[i] = c /\ invs[i].status \in Collectible
                      THEN invs[i].due ELSE 0]

UnappliedBy(pays, c) ==
  [p \in Payments |-> IF pays[p].customer = c /\ pays[p].status \in Available
                      THEN pays[p].unapplied ELSE 0]

UnusedBy(nts, c) ==
  [n \in CreditNotes |-> IF NoteCustomer[n] = c /\ nts[n].status = "OPEN"
                         THEN nts[n].balance ELSE 0]

LEMMA OutstandingSum ==
  ASSUME NEW invs \in [Invoices -> Invoice], NEW c
  PROVE  /\ Summable(OwedBy(invs, c)) /\ OwedBy(invs, c) \in [Invoices -> Nat]
         /\ Outstanding(invs, c) = SumFunction(OwedBy(invs, c))
<1> DEFINE f == OwedBy(invs, c)
           S == {j \in Invoices : InvoiceCustomer[j] = c /\ invs[j].status \in Collectible}
           h == [i \in S |-> invs[i].due]
<1>1. f \in [Invoices -> Nat]
  BY DEF OwedBy, Invoice
<1>2. Summable(f)
  BY <1>1, ReceivablesAssumption DEF Summable
<1>3. /\ DOMAIN h \subseteq DOMAIN f /\ \A i \in DOMAIN h : h[i] = f[i]
      /\ \A i \in DOMAIN f \ DOMAIN h : f[i] = 0
  BY DEF OwedBy
<1>4. Outstanding(invs, c) = SumFunction(h)
  BY DEF Outstanding
<1> HIDE DEF f, h
<1>5. SumFunction(f) = SumFunction(h)
  BY <1>2, <1>3, SumSupport
<1> QED BY <1>1, <1>2, <1>4, <1>5 DEF f

LEMMA CreditsSum ==
  ASSUME NEW pays \in [Payments -> Payment], NEW nts \in [CreditNotes -> CreditNote], NEW c
  PROVE  /\ Summable(UnappliedBy(pays, c)) /\ UnappliedBy(pays, c) \in [Payments -> Nat]
         /\ Summable(UnusedBy(nts, c)) /\ UnusedBy(nts, c) \in [CreditNotes -> Nat]
         /\ UnusedCredits(pays, nts, c)
              = SumFunction(UnappliedBy(pays, c)) + SumFunction(UnusedBy(nts, c))
<1> DEFINE f == UnappliedBy(pays, c)
           h == [p \in {q \in Payments : pays[q].customer = c /\ pays[q].status \in Available}
                   |-> pays[p].unapplied]
           g == UnusedBy(nts, c)
           k == [n \in {m \in CreditNotes : NoteCustomer[m] = c /\ nts[m].status = "OPEN"}
                   |-> nts[n].balance]
<1>1. f \in [Payments -> Nat] /\ g \in [CreditNotes -> Nat]
  BY DEF UnappliedBy, UnusedBy, Payment, CreditNote
<1>2. Summable(f) /\ Summable(g)
  BY <1>1, ReceivablesAssumption DEF Summable
<1>3. /\ DOMAIN h \subseteq DOMAIN f /\ \A p \in DOMAIN h : h[p] = f[p]
      /\ \A p \in DOMAIN f \ DOMAIN h : f[p] = 0
  BY DEF UnappliedBy
<1>4. /\ DOMAIN k \subseteq DOMAIN g /\ \A n \in DOMAIN k : k[n] = g[n]
      /\ \A n \in DOMAIN g \ DOMAIN k : g[n] = 0
  BY DEF UnusedBy
<1>5. UnusedCredits(pays, nts, c) = SumFunction(h) + SumFunction(k)
  BY DEF UnusedCredits
<1> HIDE DEF f, h, g, k
<1>6. SumFunction(f) = SumFunction(h) /\ SumFunction(g) = SumFunction(k)
  BY <1>2, <1>3, <1>4, SumSupport
<1> QED BY <1>1, <1>2, <1>5, <1>6 DEF f, g

LEMMA RecomputedTyped ==
  ASSUME NEW invs \in [Invoices -> Invoice], NEW pays \in [Payments -> Payment],
         NEW nts \in [CreditNotes -> CreditNote], NEW c
  PROVE  Recomputed(invs, pays, nts, c) \in Column
<1>1. Outstanding(invs, c) \in Int
  BY OutstandingSum, SumInt
<1>2. UnusedCredits(pays, nts, c) \in Int
  <2>1. SumFunction(UnappliedBy(pays, c)) \in Int /\ SumFunction(UnusedBy(nts, c)) \in Int
    BY CreditsSum, SumInt
  <2> QED BY <2>1, CreditsSum
<1> QED BY <1>1, <1>2 DEF Recomputed, Column

LEMMA RecordedTyped ==
  ASSUME NEW book, book \subseteq LedgerEntry, NEW key \in LedgerKey, NEW c \in Customers,
         NEW amount \in Int
  PROVE  /\ Recorded(book, key, c, amount) \subseteq LedgerEntry
         /\ Debit(book, key, c, amount) \subseteq LedgerEntry
         /\ Credit(book, key, c, amount) \subseteq LedgerEntry
<1>1. \A a \in Int : [key |-> key, customer |-> c, amount |-> a] \in LedgerEntry
  BY DEF LedgerEntry
<1>2. 0 - amount \in Int
  OBVIOUS
<1> QED BY <1>1, <1>2 DEF Recorded, Debit, Credit

LEMMA KeyTyped ==
  ASSUME NEW kind \in {"finalized", "voided", "write-off", "received", "reversed",
                       "issued", "refund", "advance-invalidated"},
         NEW id \in Invoices \cup Sources, NEW n \in Nat
  PROVE  Key(kind, id, n) \in LedgerKey
BY DEF Key, LedgerKey

(* The ledger keeps its type: every kind of entry has one line here.       *)
LEMMA LedgerTypedNext ==
  ASSUME MoneyInv, Next PROVE ledger' \subseteq LedgerEntry
<1>0. ledger \subseteq LedgerEntry
  BY DEF MoneyInv, BooksTyped
<1> USE <1>0
<1>1. CASE UNCHANGED ledger
  BY <1>1
<1>2. ASSUME NEW i \in Invoices, NEW total, CreateDraft(i, total) \/ FallDue(i)
      PROVE  ledger' \subseteq LedgerEntry
  BY <1>2 DEF CreateDraft, FallDue
<1>3. CASE InvoiceStep
  <2>1. ASSUME NEW i \in Invoices
        PROVE  /\ InvoiceCustomer[i] \in Customers /\ invoices[i].total \in Int
               /\ invoices[i].due \in Int
               /\ \A kind \in {"finalized", "voided", "write-off"} :
                    Key(kind, i, 0) \in LedgerKey
    BY InvoiceFields, KeyTyped, ReceivablesAssumption DEF Invoice
  <2>2. ASSUME NEW i \in Invoices, FinalizeInvoice(i) \/ FinalizeWithCredits(i)
        PROVE  ledger' \subseteq LedgerEntry
    <3>1. ledger' = Debit(ledger, Key("finalized", i, 0), InvoiceCustomer[i], invoices[i].total)
      BY <2>2 DEF FinalizeInvoice, FinalizeWithCredits, FinalizedBook
    <3> QED BY <2>1, <3>1, RecordedTyped
  <2>3. ASSUME NEW i \in Invoices, VoidInvoice(i) \/ WriteOffInvoice(i)
        PROVE  ledger' \subseteq LedgerEntry
    <3>1. PICK kind \in {"voided", "write-off"} :
            ledger' = Credit(ledger, Key(kind, i, 0), InvoiceCustomer[i], invoices[i].due)
      BY <2>3 DEF VoidInvoice, WriteOffInvoice
    <3> QED BY <2>1, <3>1, RecordedTyped
  <2>4. ASSUME NEW i \in Invoices, SendInvoice(i) PROVE ledger' \subseteq LedgerEntry
    BY <2>4 DEF SendInvoice
  <2>5. CASE MarkOverdue
    BY <2>5 DEF MarkOverdue
  <2> QED BY <1>3, <2>2, <2>3, <2>4, <2>5 DEF InvoiceStep
<1>4. CASE EditStep
  BY <1>4 DEF EditStep, BeginEdit, WriteLines, WriteDates, DeleteDraft, AbandonEdit
<1>5. ASSUME NEW p \in Payments
      PROVE  /\ \A kind \in {"received", "reversed", "refund"}, n \in Nat :
                   Key(kind, p, n) \in LedgerKey
             /\ payments[p] \in Payment /\ payments[p].revision \in Nat
             /\ payments[p].revision + 1 \in Nat
             /\ payments[p].refunded \in Nat /\ payments[p].amount \in Int
             /\ payments[p].status # "absent" => payments[p].customer \in Customers
  <2>1. payments[p] \in Payment /\ SoundPayment(payments[p], Taken(applied[p])) /\ p \in Sources
    BY MoneyTypes DEF MoneyInv, SourcesSound
  <2>2. payments[p].revision \in Nat /\ payments[p].amount \in Nat /\ payments[p].refunded \in Nat
    BY <2>1 DEF Payment
  <2>3. \A kind \in {"received", "reversed", "refund"}, n \in Nat : Key(kind, p, n) \in LedgerKey
    BY <2>1, KeyTyped
  <2> QED BY <2>1, <2>2, <2>3 DEF SoundPayment
<1>6. ASSUME NEW p \in Payments, NEW c \in Customers, NEW amount \in Amounts, NEW alloc,
             CreatePayment(p, c, amount, alloc)
      PROVE  ledger' \subseteq LedgerEntry
  <2>1. ledger' = Credit(ledger, Key("received", p, 0), c, amount)
    BY <1>6 DEF CreatePayment
  <2>2. Key("received", p, 0) \in LedgerKey /\ amount \in Int
    BY <1>5, AmountNat
  <2> QED BY <2>1, <2>2, RecordedTyped
<1>7. ASSUME NEW p \in Payments, NEW c \in Customers, NEW amount \in Amounts, NEW alloc,
             UpdatePayment(p, c, amount, alloc)
      PROVE  ledger' \subseteq LedgerEntry
  <2> DEFINE old == payments[p]
             mid == Debit(ledger, Key("reversed", p, old.revision), old.customer, old.amount)
  <2>1. ledger' = Credit(mid, Key("received", p, old.revision + 1), c, amount)
        /\ old.status = "SUCCEEDED"
    BY <1>7 DEF UpdatePayment, Correctable
  <2>2. mid \subseteq LedgerEntry
    <3>1. old.customer \in Customers /\ Key("reversed", p, old.revision) \in LedgerKey
          /\ old.amount \in Int
      BY <1>5, <2>1
    <3> HIDE DEF old
    <3> QED BY <3>1, RecordedTyped
  <2>3. Key("received", p, old.revision + 1) \in LedgerKey /\ amount \in Int
    BY <1>5, AmountNat
  <2> HIDE DEF mid, old
  <2> QED BY <2>1, <2>2, <2>3, RecordedTyped
<1>8. ASSUME NEW p \in Payments, CancelPayment(p)
      PROVE  ledger' \subseteq LedgerEntry
  <2>1. ledger' = Debit(ledger, Key("reversed", p, payments[p].revision),
                        payments[p].customer, payments[p].amount)
        /\ payments[p].status = "SUCCEEDED"
    BY <1>8 DEF CancelPayment, Correctable
  <2>2. payments[p].customer \in Customers /\ Key("reversed", p, payments[p].revision) \in LedgerKey
        /\ payments[p].amount \in Int
    BY <1>5, <2>1
  <2> QED BY <2>1, <2>2, RecordedTyped
<1>9. ASSUME NEW p \in Payments, NEW amount \in Amounts, RefundPayment(p, amount)
      PROVE  ledger' \subseteq LedgerEntry
  <2> DEFINE total == payments[p].refunded + amount
  <2>1. ledger' = Debit(ledger, Key("refund", p, total), payments[p].customer, amount)
        /\ payments[p].status \in Available
    BY <1>9 DEF RefundPayment
  <2>2. total \in Nat
    BY <1>5, AmountNat
  <2>3. payments[p].customer \in Customers /\ Key("refund", p, total) \in LedgerKey
    <3> HIDE DEF total
    <3> QED BY <1>5, <2>1, <2>2 DEF Available
  <2> HIDE DEF total
  <2>4. amount \in Int
    BY AmountNat
  <2> QED BY <2>1, <2>3, <2>4, RecordedTyped
<1>10. CASE PaymentStep
  <2>1. ASSUME NEW p \in Payments, NEW c, NEW amount, NEW alloc,
               ConfirmIntent(p, c, amount) \/ ApplyPayment(p, alloc)
        PROVE  ledger' \subseteq LedgerEntry
    BY <2>1 DEF ConfirmIntent, ApplyPayment
  <2> QED BY <1>6, <1>7, <1>8, <1>9, <1>10, <2>1 DEF PaymentStep
<1>11. ASSUME NEW n \in CreditNotes
       PROVE  /\ NoteCustomer[n] \in Customers /\ n \in Sources
              /\ notes[n] \in CreditNote /\ notes[n].total \in Int /\ notes[n].refunded \in Nat
              /\ issuing[n] # NotIssuing => issuing[n].total \in Int
  BY NoteFacts, ReceivablesAssumption DEF CreditNote, MoneyInv, BooksTyped
<1>12. ASSUME NEW n \in CreditNotes, CommitIssue(n) \/ VoidCreditNote(n)
       PROVE  ledger' \subseteq LedgerEntry
  <2>1. CASE CommitIssue(n)
    <3>1. ledger' = Credit(ledger, Key("issued", n, 0), NoteCustomer[n], issuing[n].total)
          /\ issuing[n] # NotIssuing
      BY <2>1 DEF CommitIssue
    <3>2. Key("issued", n, 0) \in LedgerKey
      BY <1>11, KeyTyped
    <3> QED BY <1>11, <3>1, <3>2, RecordedTyped
  <2>2. CASE VoidCreditNote(n)
    <3>1. ledger' = Debit(ledger, Key("voided", n, 0), NoteCustomer[n], notes[n].total)
      BY <2>2 DEF VoidCreditNote
    <3>2. Key("voided", n, 0) \in LedgerKey
      BY <1>11, KeyTyped
    <3> QED BY <1>11, <3>1, <3>2, RecordedTyped
  <2> QED BY <1>12, <2>1, <2>2
<1>13. ASSUME NEW n \in CreditNotes, NEW amount \in Amounts, RefundCreditNote(n, amount)
       PROVE  ledger' \subseteq LedgerEntry
  <2> DEFINE total == notes[n].refunded + amount
  <2>1. ledger' = Debit(ledger, Key("refund", n, total), NoteCustomer[n], amount)
    BY <1>13 DEF RefundCreditNote
  <2>2. total \in Nat
    BY <1>11, AmountNat
  <2> HIDE DEF total
  <2>3. Key("refund", n, total) \in LedgerKey
    BY <1>11, <2>2, KeyTyped
  <2>4. amount \in Int
    BY AmountNat
  <2> QED BY <1>11, <2>1, <2>3, <2>4, RecordedTyped
<1>14. CASE CreditNoteStep
  <2>1. ASSUME NEW n \in CreditNotes, NEW alloc,
               BeginIssue(n, alloc) \/ AbortIssue(n) \/ ApplyCreditNote(n, alloc)
        PROVE  ledger' \subseteq LedgerEntry
    BY <2>1 DEF BeginIssue, AbortIssue, ApplyCreditNote
  <2> QED BY <1>12, <1>13, <1>14, <2>1 DEF CreditNoteStep
<1>15. ASSUME NEW i \in Invoices, CommitAdvance(i) PROVE ledger' \subseteq LedgerEntry
  <2> DEFINE read == invalidating[i].row
  <2>1. ledger' = ledger \/ ledger' = Credit(ledger, Key("advance-invalidated", i, 0),
                                            InvoiceCustomer[i], read.due)
    BY <1>15 DEF CommitAdvance
  <2>2. read.due \in Int /\ InvoiceCustomer[i] \in Customers
    BY ReceivablesAssumption DEF MoneyInv, BooksTyped, Invalidation, Invoice
  <2>3. Key("advance-invalidated", i, 0) \in LedgerKey
    BY KeyTyped
  <2> HIDE DEF read
  <2> QED BY <2>1, <2>2, <2>3, RecordedTyped
<1>16. CASE AdvanceStep
  BY <1>1, <1>15, <1>16 DEF AdvanceStep, ReadAdvance, WriteAdvance, AbortAdvance
<1> QED BY <1>2, <1>3, <1>4, <1>10, <1>14, <1>16 DEF Next

(* A Serializable step leaves well-typed books.                            *)
LEMMA SerializableBooks ==
  ASSUME MoneyInv, InvoiceInv', SourcesSound', ledger' \subseteq LedgerEntry,
         UNCHANGED besides, NEW C, RecomputeCustomerAr(C) \/ UNCHANGED columns,
         \A n \in CreditNotes : notes[n].status = "absent" => notes'[n].status = "absent"
  PROVE  BooksTyped'
<1>1. columns' \in [Customers -> Column]
  <2>1. /\ invoices' \in [Invoices -> Invoice] /\ payments' \in [Payments -> Payment]
        /\ notes' \in [CreditNotes -> CreditNote]
    BY DEF InvoiceInv, Sound, SourcesSound
  <2>2. \A c \in Customers : Recomputed(invoices', payments', notes', c) \in Column
    BY <2>1, RecomputedTyped
  <2> QED BY <2>2 DEF RecomputeCustomerAr, MoneyInv, BooksTyped
<1> QED BY <1>1 DEF MoneyInv, BooksTyped, besides

(* Only issuing a note makes it one.                                       *)
NotesStayAbsent ==
  \A n \in CreditNotes : notes[n].status = "absent" => notes'[n].status = "absent"

LEMMA NoteChangedStaysAbsent ==
  ASSUME MoneyInv, NEW n \in CreditNotes, NEW note, notes[n].status # "absent",
         notes' = [notes EXCEPT ![n] = note]
  PROVE  NotesStayAbsent
BY MoneyTypes DEF NotesStayAbsent

LEMMA SerializableBooksNext ==
  ASSUME MoneyInv, Next, InvoiceInv', SourcesSound', UNCHANGED besides,
         NotesStayAbsent, \E C : RecomputeCustomerAr(C) \/ UNCHANGED columns
  PROVE  BooksTyped'
<1>1. ledger' \subseteq LedgerEntry
  BY LedgerTypedNext
<1> QED BY <1>1, SerializableBooks DEF NotesStayAbsent

(* An invalidation remembers a row and the columns that it has summed.     *)
LEMMA AdvanceBooks ==
  ASSUME MoneyInv, Next, AdvanceStep PROVE BooksTyped'
<1>0. /\ ledger' \subseteq LedgerEntry /\ invalidating \in [Invoices -> Invalidation]
      /\ columns \in [Customers -> Column]
  BY LedgerTypedNext DEF MoneyInv, BooksTyped
<1>1. ASSUME NEW i \in Invoices, NEW v \in Invalidation,
             invalidating' = [invalidating EXCEPT ![i] = v],
             columns' \in [Customers -> Column],
             UNCHANGED <<notes, intents, issuing, rewritten>>
      PROVE  BooksTyped'
  <2>1. invalidating' \in [Invoices -> Invalidation]
    BY <1>0, <1>1
  <2> QED BY <1>0, <1>1, <2>1 DEF MoneyInv, BooksTyped
<1>2. ASSUME NEW i \in Invoices, ReadAdvance(i) PROVE BooksTyped'
  <2> DEFINE v == [invalidating[i] EXCEPT !.phase = "read", !.row = invoices[i]]
  <2>1. invalidating[i] \in Invalidation /\ invoices[i] \in Invoice
    BY <1>0, MoneyTypes
  <2>2. v \in Invalidation
    BY <2>1 DEF Invalidation
  <2>3. /\ invalidating' = [invalidating EXCEPT ![i] = v]
        /\ UNCHANGED <<columns, notes, intents, issuing, rewritten>>
    BY <1>2 DEF ReadAdvance
  <2> HIDE DEF v
  <2> QED BY <1>0, <1>1, <2>2, <2>3
<1>3. ASSUME NEW i \in Invoices, WriteAdvance(i) PROVE BooksTyped'
  <2> DEFINE struck == [invoices EXCEPT ![i] = Invalidated(@)]
             sums == Recomputed(struck, payments, notes, InvoiceCustomer[i])
             v == [invalidating[i] EXCEPT !.phase = "written", !.column = sums]
  <2>1. invalidating[i] \in Invalidation
    BY <1>0
  <2>2. struck \in [Invoices -> Invoice]
    <3>1. Invalidated(invoices[i]) \in Invoice
      BY MoneyTypes DEF Invalidated, Invoice, Finalized
    <3> QED BY <3>1, MoneyTypes
  <2>3. sums \in Column
    <3> HIDE DEF struck
    <3> QED BY <2>2, MoneyTypes, RecomputedTyped
  <2>4. /\ invalidating' = [invalidating EXCEPT ![i] = v]
        /\ UNCHANGED <<columns, notes, intents, issuing, rewritten>>
    BY <1>3 DEF WriteAdvance
  <2> HIDE DEF sums
  <2>5. v \in Invalidation
    BY <2>1, <2>3 DEF Invalidation
  <2> HIDE DEF v
  <2> QED BY <1>0, <1>1, <2>4, <2>5
<1>4. ASSUME NEW i \in Invoices, CommitAdvance(i) PROVE BooksTyped'
  <2> DEFINE v == [invalidating[i] EXCEPT !.phase = "done", !.row = invoices[i]]
  <2>1. invalidating[i] \in Invalidation /\ invoices[i] \in Invoice
    BY <1>0, MoneyTypes
  <2>2. v \in Invalidation
    BY <2>1 DEF Invalidation
  <2>3. /\ invalidating' = [invalidating EXCEPT ![i] = v]
        /\ columns' = [columns EXCEPT ![InvoiceCustomer[i]] = invalidating[i].column]
        /\ UNCHANGED <<notes, intents, issuing, rewritten>>
    BY <1>4 DEF CommitAdvance
  <2>4. invalidating[i].column \in Column
    BY <2>1 DEF Invalidation
  <2>5. columns' \in [Customers -> Column]
    BY <1>0, <2>3, <2>4
  <2> HIDE DEF v
  <2> QED BY <1>1, <2>2, <2>3, <2>5
<1>5. ASSUME NEW i \in Invoices, AbortAdvance(i) PROVE BooksTyped'
  <2>1. NotInvalidating \in Invalidation
    BY DEF NotInvalidating, Invalidation, AbsentInvoice, Invoice, Missing, Column
  <2>2. /\ invalidating' = [invalidating EXCEPT ![i] = NotInvalidating]
        /\ UNCHANGED <<columns, notes, intents, issuing, rewritten>>
    BY <1>5 DEF AbortAdvance
  <2> QED BY <1>0, <1>1, <2>1, <2>2
<1> QED BY <1>2, <1>3, <1>4, <1>5 DEF AdvanceStep

LEMMA BooksNext ==
  ASSUME MoneyInv, Next, InvoiceInv', SourcesSound'
  PROVE  BooksTyped'
<1>0. ledger' \subseteq LedgerEntry
  BY LedgerTypedNext
<1>1. ASSUME UNCHANGED besides, UNCHANGED notes, \E C : RecomputeCustomerAr(C) \/ UNCHANGED columns
      PROVE  BooksTyped'
  BY <1>1, SerializableBooksNext DEF NotesStayAbsent
<1>2. ASSUME NEW i \in Invoices, NEW total, CreateDraft(i, total) \/ FallDue(i)
      PROVE  BooksTyped'
  <2>1. UNCHANGED <<besides, notes, columns>>
    BY <1>2 DEF CreateDraft, FallDue
  <2> QED BY <1>1, <2>1
<1>3. CASE InvoiceStep
  <2>1. ASSUME NEW i \in Invoices, FinalizeWithCredits(i) PROVE BooksTyped'
    <3>1. RecomputeCustomerAr({InvoiceCustomer[i]}) /\ UNCHANGED besides
      BY <2>1 DEF FinalizeWithCredits
    <3>2. PICK C, D : Draws(i, C, D)
      BY <2>1, CreditsAreDrawn
    <3>3. NotesStayAbsent
      <4> SUFFICES ASSUME NEW n \in CreditNotes, notes[n].status = "absent"
                   PROVE  notes'[n].status = "absent"
        BY DEF NotesStayAbsent
      <4>1. ~ (D[n] > 0)
        BY <3>2 DEF Draws, Credits
      <4> QED BY <3>2, <4>1 DEF Draws
    <3> QED BY <3>1, <3>3, SerializableBooksNext
  <2>2. ASSUME NEW i \in Invoices,
               FinalizeInvoice(i) \/ VoidInvoice(i) \/ WriteOffInvoice(i)
        PROVE  BooksTyped'
    <3>1. UNCHANGED <<besides, notes>> /\ RecomputeCustomerAr({InvoiceCustomer[i]})
      BY <2>2 DEF FinalizeInvoice, VoidInvoice, WriteOffInvoice
    <3> QED BY <1>1, <3>1
  <2>3. ASSUME NEW i \in Invoices, SendInvoice(i) \/ MarkOverdue
        PROVE  BooksTyped'
    <3>1. UNCHANGED <<besides, notes, columns>>
      BY <2>3 DEF SendInvoice, MarkOverdue
    <3> QED BY <1>1, <3>1
  <2>4. CASE MarkOverdue
    <3>1. UNCHANGED <<besides, notes, columns>>
      BY <2>4 DEF MarkOverdue
    <3> QED BY <1>1, <3>1
  <2> QED BY <1>3, <2>1, <2>2, <2>3, <2>4 DEF InvoiceStep
<1>4. CASE EditStep
  <2>0. \A e \in edits : e.invoice \in Invoices
    BY DEF MoneyInv, SettlementInv, EditInv, Edit
  <2>1. UNCHANGED <<ledger, columns, notes, intents, issuing, invalidating>> /\ rewritten' \subseteq Invoices
    BY <1>4, <2>0 DEF EditStep, BeginEdit, WriteLines, WriteDates, DeleteDraft, AbandonEdit,
       MoneyInv, BooksTyped
  <2> QED BY <2>1 DEF MoneyInv, BooksTyped
<1>5. CASE PaymentStep
  <2>1. ASSUME NEW p \in Payments, NEW c, NEW amount, NEW alloc,
               \/ CreatePayment(p, c, amount, alloc) \/ UpdatePayment(p, c, amount, alloc)
               \/ ApplyPayment(p, alloc) \/ RefundPayment(p, amount) \/ CancelPayment(p)
        PROVE  BooksTyped'
    <3>1. UNCHANGED <<besides, notes>> /\ \E C : RecomputeCustomerAr(C)
      BY <2>1 DEF CreatePayment, UpdatePayment, ApplyPayment, RefundPayment, CancelPayment
    <3> QED BY <1>1, <3>1
  <2>2. ASSUME NEW p \in Payments, NEW c \in Customers, NEW amount \in Amounts,
               ConfirmIntent(p, c, amount)
        PROVE  BooksTyped'
    <3>1. [payment |-> p, customer |-> c, amount |-> amount] \in Intent
      BY AmountNat DEF Intent
    <3>2. /\ UNCHANGED <<ledger, columns, notes, issuing, invalidating, rewritten>>
          /\ intents' = intents \cup {[payment |-> p, customer |-> c, amount |-> amount]}
      BY <2>2 DEF ConfirmIntent
    <3> QED BY <3>1, <3>2 DEF MoneyInv, BooksTyped
  <2> QED BY <1>5, <2>1, <2>2 DEF PaymentStep
<1>6. CASE CreditNoteStep
  <2>1. ASSUME NEW n \in CreditNotes, NEW total \in Amounts, BeginIssue(n, total)
        PROVE  BooksTyped'
    <3> DEFINE opened == [notes EXCEPT ![n] = [status |-> "OPEN", total |-> total,
                                               balance |-> total, refunded |-> 0]]
               open == [total |-> total,
                        column |-> Recomputed(invoices, payments, opened, NoteCustomer[n])]
    <3>1. /\ notes[n].status = "absent" /\ issuing' = [issuing EXCEPT ![n] = open]
          /\ UNCHANGED <<ledger, columns, notes, intents, invalidating, rewritten>>
      BY <2>1 DEF BeginIssue
    <3>2. opened \in [CreditNotes -> CreditNote] /\ total \in Nat
      BY MoneyTypes, AmountNat DEF CreditNote
    <3>3. open \in [total : Nat, column : Column]
      <4> HIDE DEF opened
      <4>1. Recomputed(invoices, payments, opened, NoteCustomer[n]) \in Column
        BY <3>2, MoneyTypes, RecomputedTyped
      <4> QED BY <3>2, <4>1
    <3> HIDE DEF open
    <3>4. issuing' \in [CreditNotes -> [total : Nat, column : Column] \cup {NotIssuing}]
      BY <3>1, <3>3 DEF MoneyInv, BooksTyped
    <3>5. \A m \in CreditNotes : issuing'[m] # NotIssuing => notes'[m].status = "absent"
      BY <3>1 DEF MoneyInv, BooksTyped
    <3> QED BY <3>1, <3>4, <3>5 DEF MoneyInv, BooksTyped
  <2>2. ASSUME NEW n \in CreditNotes, CommitIssue(n) PROVE BooksTyped'
    <3>1. /\ issuing[n] # NotIssuing /\ UNCHANGED <<intents, invalidating, rewritten>>
          /\ columns' = [columns EXCEPT ![NoteCustomer[n]] = issuing[n].column]
          /\ issuing' = [issuing EXCEPT ![n] = NotIssuing]
      BY <2>2 DEF CommitIssue
    <3>2. issuing[n].column \in Column
      BY <3>1 DEF MoneyInv, BooksTyped
    <3>3. columns' \in [Customers -> Column]
      BY <3>1, <3>2 DEF MoneyInv, BooksTyped
    <3>4. issuing' \in [CreditNotes -> [total : Nat, column : Column] \cup {NotIssuing}]
      BY <3>1 DEF MoneyInv, BooksTyped
    <3>5. \A m \in CreditNotes \ {n} : notes'[m] = notes[m]
      BY <2>2, MoneyTypes DEF CommitIssue
    <3>6. \A m \in CreditNotes : issuing'[m] # NotIssuing => notes'[m].status = "absent"
      BY <3>1, <3>5 DEF MoneyInv, BooksTyped
    <3> QED BY <1>0, <3>1, <3>3, <3>4, <3>6 DEF MoneyInv, BooksTyped
  <2>3. ASSUME NEW n \in CreditNotes, AbortIssue(n) PROVE BooksTyped'
    <3>1. /\ UNCHANGED <<ledger, columns, notes, intents, invalidating, rewritten>>
          /\ issuing' = [issuing EXCEPT ![n] = NotIssuing]
      BY <2>3 DEF AbortIssue
    <3>2. issuing' \in [CreditNotes -> [total : Nat, column : Column] \cup {NotIssuing}]
      BY <3>1 DEF MoneyInv, BooksTyped
    <3>3. \A m \in CreditNotes : issuing'[m] # NotIssuing => notes'[m].status = "absent"
      BY <3>1 DEF MoneyInv, BooksTyped
    <3> QED BY <3>1, <3>2, <3>3 DEF MoneyInv, BooksTyped
  <2>4. ASSUME NEW n \in CreditNotes, NEW amount, NEW alloc,
               \/ ApplyCreditNote(n, alloc) \/ VoidCreditNote(n) \/ RefundCreditNote(n, amount)
        PROVE  BooksTyped'
    <3>1. /\ UNCHANGED besides /\ RecomputeCustomerAr({NoteCustomer[n]})
          /\ notes[n].status \in {"OPEN", "CLOSED"}
      BY <2>4 DEF ApplyCreditNote, VoidCreditNote, RefundCreditNote
    <3>2. NotesStayAbsent
      <4>1. \E note : notes' = [notes EXCEPT ![n] = note]
        <5>1. CASE VoidCreditNote(n)
          <6>1. notes' = [notes EXCEPT ![n] = [notes[n] EXCEPT !.status = "VOID", !.balance = 0]]
            BY <5>1, MoneyTypes DEF VoidCreditNote
          <6> QED BY <6>1
        <5>2. CASE ApplyCreditNote(n, alloc) \/ RefundCreditNote(n, amount)
          BY <5>2 DEF ApplyCreditNote, RefundCreditNote
        <5> QED BY <2>4, <5>1, <5>2
      <4> QED BY <3>1, <4>1, NoteChangedStaysAbsent
    <3> QED BY <3>1, <3>2, SerializableBooksNext
  <2> QED BY <1>6, <2>1, <2>2, <2>3, <2>4 DEF CreditNoteStep
<1>7. CASE AdvanceStep
  BY <1>7, AdvanceBooks
<1> QED BY <1>2, <1>3, <1>4, <1>5, <1>6, <1>7 DEF Next

-----------------------------------------------------------------------------

LEMMA MoneyInvInit == Init => MoneyInv
<1> SUFFICES ASSUME Init PROVE MoneyInv
  OBVIOUS
<1>1. SettlementInv
  BY SettlementInvInit
<1>2. /\ \A s \in Sources : applied[s] = NothingApplied
      /\ \A i \in Invoices : NothingApplied[i].amount = 0
      /\ \A i \in Invoices : invoices[i].paid = 0 /\ invoices[i].credited = 0
  BY DEF Init, NothingApplied, AbsentInvoice
<1>3. Accounted(invoices, applied)
  BY <1>2, NothingPaid DEF Accounted
<1>4. SourcesSound
  <2>1. /\ AbsentPayment \in Payment /\ AbsentPayment.status = "absent"
        /\ AbsentPayment.unapplied = 0
    BY DEF AbsentPayment, Payment
  <2>2. /\ AbsentNote \in CreditNote /\ AbsentNote.status = "absent" /\ AbsentNote.balance = 0
    BY DEF AbsentNote, CreditNote
  <2>3. SoundPayment(AbsentPayment, 0) /\ SoundNote(AbsentNote, 0)
    BY <2>1, <2>2 DEF SoundPayment, SoundNote
  <2>4. /\ \A p \in Payments : payments[p] = AbsentPayment /\ Taken(applied[p]) = 0
        /\ \A n \in CreditNotes : notes[n] = AbsentNote /\ Taken(applied[n]) = 0
    BY <1>2, TakenNothing DEF Init, Sources
  <2>5. payments \in [Payments -> Payment] /\ notes \in [CreditNotes -> CreditNote]
    BY <2>1, <2>2 DEF Init
  <2> QED BY <2>3, <2>4, <2>5 DEF SourcesSound
<1>5. BooksTyped
  <2>1. NotInvalidating \in Invalidation
    BY DEF NotInvalidating, Invalidation, AbsentInvoice, Invoice, Missing, Column
  <2> QED BY <2>1 DEF Init, BooksTyped, Column
<1> QED BY <1>1, <1>3, <1>4, <1>5 DEF MoneyInv

LEMMA MoneyInvNext == MoneyInv /\ [Next]_vars => MoneyInv'
<1> SUFFICES ASSUME MoneyInv, [Next]_vars PROVE MoneyInv'
  OBVIOUS
<1>1. SettlementInv' /\ InvoiceInv'
  BY SettlementInvNext DEF MoneyInv, SettlementInv
<1>2. CASE Next
  <2>1. SourcesSound' /\ Accounted(invoices', applied')
    BY <1>2, SourcesNext, AccountedNext
  <2>2. BooksTyped'
    BY <1>1, <1>2, <2>1, BooksNext
  <2> QED BY <1>1, <2>1, <2>2 DEF MoneyInv
<1>3. CASE UNCHANGED vars
  BY <1>1, <1>3 DEF vars, besides, MoneyInv, Accounted, SourcesSound, BooksTyped
<1> QED BY <1>2, <1>3

LEMMA MoneyInvAlways == Spec => []MoneyInv
BY MoneyInvInit, MoneyInvNext, PTL DEF Spec

(* Every row, ledger entry and column has its type: no amount of a         *)
(* payment, of a credit note or of an invoice ever gets below zero.        *)
THEOREM SettlementTypeCorrect == Spec => []TypeOK
<1>1. MoneyInv => TypeOK
  BY DEF MoneyInv, SettlementInv, InvoiceInv, EditInv, Sound, SourcesSound, BooksTyped, TypeOK
<1> QED BY <1>1, MoneyInvAlways, PTL

(* What an invoice says was paid and credited is the sum of its live       *)
(* allocations, however many sources, corrections and reversals there are. *)
THEOREM AllocationsAddUp == Spec => []AllocationsAccountForInvoice
<1>1. MoneyInv => AllocationsAccountForInvoice
  BY DEF MoneyInv, Accounted, AllocationsAccountForInvoice, PaidBy, CreditedBy
<1> QED BY <1>1, MoneyInvAlways, PTL

(* The money of a payment or of a credit note is in one place.             *)
THEOREM SourcesAreConserved == Spec => []SourceConserved
<1>1. MoneyInv => SourceConserved
  BY DEF MoneyInv, SourcesSound, SoundPayment, SoundNote, SourceConserved, Taken
<1> QED BY <1>1, MoneyInvAlways, PTL
=============================================================================
