----------------------- MODULE ReservationDepositProofs -----------------------
(***************************************************************************)
(* Proofs about ReservationDeposit, for every number of checkouts, of      *)
(* requests of staff and of attempts, and every deposit.                   *)
(***************************************************************************)
EXTENDS ReservationDeposit, FiniteSetTheorems, SequenceTheorems,
        WellFoundedInduction, TLAPS

-----------------------------------------------------------------------------
(* Sums over finite sets.  What is proved by induction is stated as a set, *)
(* Good, of the numbers or sets that satisfy it.                           *)

LEMMA LeastElement ==
    ASSUME NEW T \in SUBSET Nat, T # {}
    PROVE  \E m \in T : \A n \in T : m <= n
<1>1. PICK R : /\ IsWellFoundedOn(R, Nat)
               /\ \A m, n \in Nat : m < n => <<m, n>> \in R
  BY NatLessThanWellFounded DEF OpToRel
<1>2. PICK m \in T : \A n \in T : ~(<<n, m>> \in R)
  <2>1. IsWellFoundedOn(R, Nat) /\ T \subseteq Nat
    BY <1>1
  <2> QED BY <2>1, WFMin, Zenon
<1>3. \A n \in T : ~(n < m)
  BY <1>1, <1>2
<1> QED BY <1>2, <1>3

LEMMA CountingInduction ==
    ASSUME NEW Good, 0 \in Good, \A n \in Nat : n \in Good => n + 1 \in Good
    PROVE  Nat \subseteq Good
<1> SUFFICES ASSUME Nat \ Good # {} PROVE FALSE
  OBVIOUS
<1>1. PICK m \in Nat \ Good : \A n \in Nat \ Good : m <= n
  BY LeastElement
<1>2. m - 1 \in Nat /\ m - 1 \in Good
  BY <1>1
<1> QED BY <1>1, <1>2

LEMMA SubsetInduction ==
    ASSUME NEW S, IsFiniteSet(S), NEW Good,
           \A s \in SUBSET S :
              (\A t \in SUBSET S : Cardinality(t) < Cardinality(s) => t \in Good)
                 => s \in Good
    PROVE  SUBSET S \subseteq Good
<1> SUFFICES ASSUME NEW bad \in SUBSET S, bad \notin Good PROVE FALSE
  OBVIOUS
<1> DEFINE T == {Cardinality(s) : s \in {t \in SUBSET S : t \notin Good}}
<1>1. \A s \in SUBSET S : Cardinality(s) \in Nat
  BY FS_Subset, FS_CardinalityType
<1>2. T \in SUBSET Nat /\ T # {}
  BY <1>1
<1> HIDE DEF T
<1>3. PICK m \in T : \A n \in T : m <= n
  BY <1>2, LeastElement
<1> USE DEF T
<1>4. PICK s \in SUBSET S : s \notin Good /\ m = Cardinality(s)
  OBVIOUS
<1>5. \A t \in SUBSET S : t \notin Good => Cardinality(t) \in T
  OBVIOUS
<1> HIDE DEF T
<1>6. \A t \in SUBSET S : Cardinality(t) < Cardinality(s) => t \in Good
  BY <1>1, <1>3, <1>4, <1>5
<1> QED BY <1>4, <1>6

Pick(s) == CHOOSE x \in s : TRUE
Rest(s) == s \ {Pick(s)}

LEMMA RestSmaller ==
    ASSUME NEW S, IsFiniteSet(S), NEW s \in SUBSET S, s # {}
    PROVE  /\ Pick(s) \in s /\ Rest(s) \in SUBSET S
           /\ Cardinality(s) \in Nat /\ Cardinality(Rest(s)) \in Nat
           /\ Cardinality(Rest(s)) = Cardinality(s) - 1
<1>1. Pick(s) \in s
  BY DEF Pick
<1>2. IsFiniteSet(s)
  BY FS_Subset
<1> QED
  BY <1>1, <1>2, FS_RemoveElement, FS_CardinalityType DEF Rest

LEMMA RemoveSmaller ==
    ASSUME NEW S, IsFiniteSet(S), NEW s \in SUBSET S, NEW x \in s
    PROVE  s \ {x} \in SUBSET S /\ Cardinality(s \ {x}) < Cardinality(s)
<1>1. IsFiniteSet(s)
  BY FS_Subset
<1>2. Cardinality(s) \in Nat /\ Cardinality(s \ {x}) = Cardinality(s) - 1
  BY <1>1, FS_RemoveElement, FS_CardinalityType
<1> QED BY <1>2

\* g sums f over the subsets of S, taking out one element after the other.
Sums(g, f, S) ==
    g = [s \in SUBSET S |-> IF s = {} THEN 0 ELSE f[Pick(s)] + g[Rest(s)]]

LEMMA SumsExist ==
    ASSUME NEW S, IsFiniteSet(S), NEW f \in [S -> Int]
    PROVE  \E g : Sums(g, f, S)
<1> DEFINE Upto(n) == {s \in SUBSET S : Cardinality(s) <= n}
           Next1(g, s) == IF s = {} THEN 0 ELSE f[Pick(s)] + g[Rest(s)]
           Good == {n \in Nat : \E g \in [Upto(n) -> Int] :
                       \A s \in Upto(n) : g[s] = Next1(g, s)}
<1>1. 0 \in Good
  <2> DEFINE g == [s \in Upto(0) |-> 0]
  <2>1. \A s \in Upto(0) : s = {}
    <3> SUFFICES ASSUME NEW s \in Upto(0), s # {} PROVE FALSE
      OBVIOUS
    <3>1. s \in SUBSET S /\ Cardinality(s) <= 0
      OBVIOUS
    <3>2. Cardinality(s) \in Nat /\ Cardinality(Rest(s)) \in Nat
          /\ Cardinality(Rest(s)) = Cardinality(s) - 1
      BY <3>1, RestSmaller
    <3> HIDE DEF Upto
    <3> QED BY <3>1, <3>2
  <2>2. g \in [Upto(0) -> Int] /\ \A s \in Upto(0) : g[s] = Next1(g, s)
    BY <2>1
  <2> QED BY <2>2
<1>2. ASSUME NEW n \in Nat, n \in Good PROVE n + 1 \in Good
  <2>1. PICK g \in [Upto(n) -> Int] : \A s \in Upto(n) : g[s] = Next1(g, s)
    BY <1>2
  <2> DEFINE h == [s \in Upto(n + 1) |-> Next1(g, s)]
  <2>2. ASSUME NEW s \in Upto(n + 1), s # {}
        PROVE  /\ Rest(s) \in Upto(n) /\ Rest(s) \in Upto(n + 1)
               /\ f[Pick(s)] \in Int
    BY <2>2, RestSmaller
  <2>3. h \in [Upto(n + 1) -> Int]
    BY <2>1, <2>2
  <2>4. \A s \in Upto(n) : s \in Upto(n + 1) => h[s] = g[s]
    BY <2>1
  <2>5. \A s \in Upto(n + 1) : h[s] = Next1(h, s)
    BY <2>2, <2>4
  <2>6. n + 1 \in Nat /\ \E k \in [Upto(n + 1) -> Int] :
           \A s \in Upto(n + 1) : k[s] = Next1(k, s)
    <3> HIDE DEF h, Upto, Next1
    <3> QED BY <2>3, <2>5
  <2> QED BY <2>6
<1>3. Cardinality(S) \in Nat
  BY FS_CardinalityType
<1>4. Cardinality(S) \in Good
  <2> HIDE DEF Good
  <2> QED BY <1>1, <1>2, <1>3, CountingInduction
<1>5. PICK g \in [Upto(Cardinality(S)) -> Int] :
         \A s \in Upto(Cardinality(S)) : g[s] = Next1(g, s)
  BY <1>4
<1>6. Upto(Cardinality(S)) = SUBSET S
  BY FS_Subset
<1> QED BY <1>5, <1>6 DEF Sums

LEMMA SumsType ==
    ASSUME NEW S, IsFiniteSet(S), NEW f \in [S -> Int], NEW g, Sums(g, f, S)
    PROVE  g[{}] = 0 /\ \A s \in SUBSET S : g[s] \in Int
<1> DEFINE Good == {s \in SUBSET S : g[s] \in Int}
<1>1. ASSUME NEW s \in SUBSET S,
             \A t \in SUBSET S : Cardinality(t) < Cardinality(s) => t \in Good
      PROVE  s \in Good
  <2>1. CASE s = {}
    BY <2>1 DEF Sums
  <2>2. CASE s # {}
    <3>1. Pick(s) \in S /\ g[Rest(s)] \in Int
      BY <1>1, <2>2, RestSmaller
    <3> QED BY <2>2, <3>1 DEF Sums
  <2> QED BY <2>1, <2>2
<1>2. SUBSET S \subseteq Good
  <2> HIDE DEF Good
  <2> QED BY <1>1, SubsetInduction
<1> QED BY <1>2 DEF Sums

\* The order in which the elements are taken out does not matter.
LEMMA SumsAnyOrder ==
    ASSUME NEW S, IsFiniteSet(S), NEW f \in [S -> Int], NEW g, Sums(g, f, S)
    PROVE  \A s \in SUBSET S : \A x \in s : g[s] = f[x] + g[s \ {x}]
<1> DEFINE Good == {s \in SUBSET S : \A x \in s : g[s] = f[x] + g[s \ {x}]}
<1>1. ASSUME NEW s \in SUBSET S,
             \A t \in SUBSET S : Cardinality(t) < Cardinality(s) => t \in Good,
             NEW x \in s
      PROVE  g[s] = f[x] + g[s \ {x}]
  <2> DEFINE p == Pick(s)
             r == s \ {p, x}
  <2>0. /\ p \in s /\ p \in S /\ x \in S /\ r \in SUBSET S
        /\ g[s] = f[p] + g[s \ {p}]
    BY <1>1, RestSmaller DEF Sums, Rest
  <2>1. CASE x = p
    BY <2>0, <2>1
  <2>2. CASE x # p
    <3>1. s \ {p} \in SUBSET S /\ Cardinality(s \ {p}) < Cardinality(s)
      BY <2>0, RemoveSmaller
    <3>2. s \ {x} \in SUBSET S /\ Cardinality(s \ {x}) < Cardinality(s)
      BY RemoveSmaller
    <3>4. s \ {p} \in Good /\ s \ {x} \in Good
      BY <1>1, <3>1, <3>2
    <3>5. (s \ {p}) \ {x} = r /\ (s \ {x}) \ {p} = r
      OBVIOUS
    <3>6. g[s \ {p}] = f[x] + g[r]
      BY <2>2, <3>4, <3>5
    <3>7. g[s \ {x}] = f[p] + g[r]
      BY <2>0, <2>2, <3>4, <3>5
    <3>8. f[p] \in Int /\ f[x] \in Int /\ g[r] \in Int
      BY <2>0, SumsType
    <3> QED BY <2>0, <3>6, <3>7, <3>8
  <2> QED BY <2>1, <2>2
<1>2. SUBSET S \subseteq Good
  <2>1. \A s \in SUBSET S :
           (\A t \in SUBSET S : Cardinality(t) < Cardinality(s) => t \in Good)
              => s \in Good
    BY <1>1
  <2> HIDE DEF Good
  <2> QED BY <2>1, SubsetInduction
<1> QED BY <1>2

\* Sums of functions that agree are the same.
LEMMA SumsAgree ==
    ASSUME NEW S, IsFiniteSet(S), NEW T \in SUBSET S, NEW f, NEW e,
           NEW g, NEW h, Sums(g, f, S), Sums(h, e, T),
           \A x \in T : f[x] = e[x]
    PROVE  \A t \in SUBSET T : g[t] = h[t]
<1> DEFINE Good == {t \in SUBSET T : g[t] = h[t]}
<1>0. IsFiniteSet(T)
  BY FS_Subset
<1>1. ASSUME NEW s \in SUBSET T,
             \A t \in SUBSET T : Cardinality(t) < Cardinality(s) => t \in Good
      PROVE  s \in Good
  <2>1. CASE s = {}
    BY <2>1 DEF Sums
  <2>2. CASE s # {}
    <3>1. /\ Pick(s) \in T /\ Rest(s) \in SUBSET T
          /\ g[Rest(s)] = h[Rest(s)]
      BY <1>0, <1>1, <2>2, RestSmaller
    <3> QED BY <2>2, <3>1 DEF Sums
  <2> QED BY <2>1, <2>2
<1>2. SUBSET T \subseteq Good
  <2> HIDE DEF Good
  <2> QED BY <1>0, <1>1, SubsetInduction
<1> QED BY <1>2

LEMMA SumsMonotonic ==
    ASSUME NEW S, IsFiniteSet(S), NEW f \in [S -> Int], NEW g, Sums(g, f, S),
           NEW t \in SUBSET S, \A x \in S \ t : f[x] >= 0
    PROVE  g[t] <= g[S]
<1> DEFINE Good == {s \in SUBSET S : t \subseteq s => g[t] <= g[s]}
<1>1. ASSUME NEW s \in SUBSET S,
             \A u \in SUBSET S : Cardinality(u) < Cardinality(s) => u \in Good
      PROVE  s \in Good
  <2>1. CASE s \subseteq t
    <3>1. g[s] \in Int /\ g[t] \in Int
      BY SumsType
    <3> QED BY <2>1, <3>1
  <2>2. CASE ~(s \subseteq t)
    <3>1. PICK x \in s : x \notin t
      BY <2>2
    <3>2. s \ {x} \in SUBSET S
      OBVIOUS
    <3>3. Cardinality(s \ {x}) < Cardinality(s)
      BY RemoveSmaller
    <3>4. t \subseteq s => g[t] <= g[s \ {x}]
      BY <1>1, <3>1, <3>2, <3>3
    <3>5. g[s] = f[x] + g[s \ {x}]
      BY SumsAnyOrder
    <3>6. /\ f[x] \in Int /\ f[x] >= 0 /\ g[t] \in Int
          /\ g[s] \in Int /\ g[s \ {x}] \in Int
      BY <3>1, <3>2, SumsType
    <3>7. t \subseteq s => g[t] <= g[s]
      BY <3>4, <3>5, <3>6
    <3> QED BY <3>7
  <2> QED BY <2>1, <2>2
<1>2. SUBSET S \subseteq Good
  <2> HIDE DEF Good
  <2> QED BY <1>1, SubsetInduction
<1> QED BY <1>2

LEMMA SumsCompare ==
    ASSUME NEW S, IsFiniteSet(S), NEW f \in [S -> Int], NEW g, Sums(g, f, S),
           NEW T \in SUBSET S, NEW e \in [T -> Int], NEW h, Sums(h, e, T),
           \A x \in S \ T : f[x] >= 0, \A x \in T : f[x] = e[x]
    PROVE  h[T] \in Int /\ g[S] \in Int /\ h[T] <= g[S]
<1>1. \A t \in SUBSET T : g[t] = h[t]
  BY SumsAgree
<1>2. g[T] <= g[S]
  BY SumsMonotonic
<1>3. g[T] \in Int /\ g[S] \in Int
  BY SumsType
<1> QED BY <1>1, <1>2, <1>3

-----------------------------------------------------------------------------
(* The sums of the model are such sums *)

LEMMA RowSums ==
    ASSUME NEW S, IsFiniteSet(S), \A r \in S : r.amount \in Int,
           NEW g, Sums(g, [r \in S |-> r.amount], S)
    PROVE  \A T \in SUBSET S : Sum(T) = g[T]
<1> TAKE T \in SUBSET S
<1> DEFINE f == [r \in T |-> r.amount]
           Body(h) == [s \in SUBSET T |->
                         IF s = {} THEN 0
                         ELSE (CHOOSE x \in s : TRUE).amount
                                + h[s \ {CHOOSE x \in s : TRUE}]]
           iter == CHOOSE h : h = Body(h)
<1>1. IsFiniteSet(T) /\ f \in [T -> Int]
  BY FS_Subset
<1>2. \A h : Sums(h, f, T) <=> h = Body(h)
  <2> TAKE h
  <2> DEFINE next == [s \in SUBSET T |->
                        IF s = {} THEN 0 ELSE f[Pick(s)] + h[Rest(s)]]
  <2>1. ASSUME NEW s \in SUBSET T, s # {}
        PROVE  f[Pick(s)] + h[Rest(s)]
                 = (CHOOSE x \in s : TRUE).amount
                     + h[s \ {CHOOSE x \in s : TRUE}]
    BY <2>1 DEF Pick, Rest
  <2>2. next = Body(h)
    BY <2>1
  <2> QED BY <2>2 DEF Sums
<1>3. PICK h : Sums(h, f, T)
  BY <1>1, SumsExist
<1>4. Sums(iter, f, T)
  <2>1. iter = Body(iter)
    <3> HIDE DEF Body
    <3> QED BY <1>2, <1>3
  <2> QED BY <1>2, <2>1
<1>5. g[T] = iter[T]
  <2> DEFINE e == [r \in S |-> r.amount]
  <2>1. \A x \in T : e[x] = f[x]
    OBVIOUS
  <2> HIDE DEF f, e, iter
  <2> QED BY <1>4, <2>1, SumsAgree DEF e
<1>6. Sum(T) = iter[T]
  BY DEF Sum, MapThenSumSet, MapThenFoldSet
<1> QED BY <1>5, <1>6

AttemptSum(at, ns) == MapThenSumSet(LAMBDA n : at[n].amount, ns)

LEMMA AttemptSums ==
    ASSUME NEW S, IsFiniteSet(S), NEW at, \A n \in S : at[n].amount \in Int,
           NEW g, Sums(g, [n \in S |-> at[n].amount], S)
    PROVE  \A T \in SUBSET S : AttemptSum(at, T) = g[T]
<1> TAKE T \in SUBSET S
<1> DEFINE f == [n \in T |-> at[n].amount]
           Body(h) == [s \in SUBSET T |->
                         IF s = {} THEN 0
                         ELSE at[CHOOSE x \in s : TRUE].amount
                                + h[s \ {CHOOSE x \in s : TRUE}]]
           iter == CHOOSE h : h = Body(h)
<1>1. IsFiniteSet(T) /\ f \in [T -> Int]
  BY FS_Subset
<1>2. \A h : Sums(h, f, T) <=> h = Body(h)
  <2> TAKE h
  <2> DEFINE next == [s \in SUBSET T |->
                        IF s = {} THEN 0 ELSE f[Pick(s)] + h[Rest(s)]]
  <2>1. ASSUME NEW s \in SUBSET T, s # {}
        PROVE  f[Pick(s)] + h[Rest(s)]
                 = at[CHOOSE x \in s : TRUE].amount
                     + h[s \ {CHOOSE x \in s : TRUE}]
    BY <2>1 DEF Pick, Rest
  <2>2. next = Body(h)
    BY <2>1
  <2> QED BY <2>2 DEF Sums
<1>3. PICK h : Sums(h, f, T)
  BY <1>1, SumsExist
<1>4. Sums(iter, f, T)
  <2>1. iter = Body(iter)
    <3> HIDE DEF Body
    <3> QED BY <1>2, <1>3
  <2> QED BY <1>2, <2>1
<1>5. g[T] = iter[T]
  <2> DEFINE e == [n \in S |-> at[n].amount]
  <2>1. \A x \in T : e[x] = f[x]
    OBVIOUS
  <2> HIDE DEF f, e, iter
  <2> QED BY <1>4, <2>1, SumsAgree DEF e
<1>6. AttemptSum(at, T) = iter[T]
  BY DEF AttemptSum, MapThenSumSet, MapThenFoldSet
<1> QED BY <1>5, <1>6

\* More attempts have a greater sum, if the amounts that both sum are the same.
LEMMA AttemptSumMonotonic ==
    ASSUME NEW S, IsFiniteSet(S), NEW T \in SUBSET S, NEW at, NEW bt,
           \A n \in S : bt[n].amount \in Nat,
           \A n \in T : at[n].amount = bt[n].amount
    PROVE  /\ AttemptSum(at, T) \in Int /\ AttemptSum(bt, S) \in Int
           /\ AttemptSum(at, T) <= AttemptSum(bt, S)
<1> DEFINE f == [n \in S |-> bt[n].amount]
           e == [n \in T |-> at[n].amount]
<1>1. IsFiniteSet(T) /\ f \in [S -> Int] /\ e \in [T -> Int]
  BY FS_Subset
<1>2. \A n \in S \ T : f[n] >= 0
  OBVIOUS
<1>3. \A n \in T : f[n] = e[n]
  OBVIOUS
<1>4. PICK g : Sums(g, f, S)
  <2> HIDE DEF f
  <2> QED BY <1>1, SumsExist
<1>5. PICK h : Sums(h, e, T)
  <2> HIDE DEF e
  <2> QED BY <1>1, SumsExist
<1>6. AttemptSum(bt, S) = g[S] /\ AttemptSum(at, T) = h[T]
  <2>1. \A n \in S : bt[n].amount \in Int
    OBVIOUS
  <2>2. \A n \in T : at[n].amount \in Int
    OBVIOUS
  <2>3. AttemptSum(bt, S) = g[S]
    BY <1>4, <2>1, AttemptSums
  <2>4. AttemptSum(at, T) = h[T]
    BY <1>1, <1>5, <2>2, AttemptSums
  <2> QED BY <2>3, <2>4
<1>7. h[T] \in Int /\ g[S] \in Int /\ h[T] <= g[S]
  <2> HIDE DEF e, f
  <2> QED BY <1>1, <1>2, <1>3, <1>4, <1>5, SumsCompare
<1> QED BY <1>6, <1>7

Rows(S) == IsFiniteSet(S) /\ \A r \in S : r.amount \in Int

LEMMA RowsSubset == ASSUME NEW S, Rows(S), NEW T \in SUBSET S PROVE Rows(T)
  BY FS_Subset DEF Rows

LEMMA RowsSummed ==
    ASSUME NEW S, Rows(S)
    PROVE  \E g : /\ Sums(g, [r \in S |-> r.amount], S)
                  /\ \A T \in SUBSET S : Sum(T) = g[T]
<1> DEFINE f == [r \in S |-> r.amount]
<1>1. f \in [S -> Int]
  BY DEF Rows
<1>2. PICK g : Sums(g, f, S)
  <2> HIDE DEF f
  <2> QED BY <1>1, SumsExist DEF Rows
<1> QED BY <1>2, RowSums DEF Rows

LEMMA SumType == ASSUME NEW S, Rows(S) PROVE Sum(S) \in Int /\ Sum({}) = 0
<1> DEFINE f == [r \in S |-> r.amount]
<1>1. f \in [S -> Int]
  BY DEF Rows
<1>2. PICK g : Sums(g, f, S) /\ \A T \in SUBSET S : Sum(T) = g[T]
  BY RowsSummed
<1> HIDE DEF f
<1> QED BY <1>1, <1>2, SumsType DEF Rows

LEMMA SumRemove ==
    ASSUME NEW S, Rows(S), NEW x \in S
    PROVE  Sum(S) = x.amount + Sum(S \ {x})
<1> DEFINE f == [r \in S |-> r.amount]
<1>1. f \in [S -> Int] /\ f[x] = x.amount
  BY DEF Rows
<1>2. PICK g : Sums(g, f, S) /\ \A T \in SUBSET S : Sum(T) = g[T]
  BY RowsSummed
<1> HIDE DEF f
<1>3. S \in SUBSET S /\ S \ {x} \in SUBSET S
  OBVIOUS
<1>4. g[S] = f[x] + g[S \ {x}]
  BY <1>1, <1>2, <1>3, SumsAnyOrder DEF Rows
<1> QED BY <1>1, <1>2, <1>3, <1>4

\* A row is new, or there already.
LEMMA SumAdd ==
    ASSUME NEW S, Rows(S), NEW x, x.amount \in Int
    PROVE  /\ Rows(S \cup {x})
           /\ Sum(S \cup {x}) = IF x \in S THEN Sum(S) ELSE Sum(S) + x.amount
<1>1. Rows(S \cup {x})
  BY FS_AddElement DEF Rows
<1>2. CASE x \in S
  <2>1. S \cup {x} = S
    BY <1>2
  <2> QED BY <1>1, <1>2, <2>1
<1>3. CASE x \notin S
  <2>1. (S \cup {x}) \ {x} = S
    BY <1>3
  <2>2. Sum(S \cup {x}) = x.amount + Sum(S)
    BY <1>1, <2>1, SumRemove
  <2>3. Sum(S) \in Int
    BY SumType
  <2> QED BY <1>1, <1>3, <2>2, <2>3
<1> QED BY <1>2, <1>3

LEMMA SumMonotonic ==
    ASSUME NEW S, Rows(S), NEW T \in SUBSET S, \A r \in S \ T : r.amount >= 0
    PROVE  Sum(T) \in Int /\ Sum(S) \in Int /\ Sum(T) <= Sum(S)
<1> DEFINE f == [r \in S |-> r.amount]
<1>1. f \in [S -> Int] /\ \A x \in S \ T : f[x] >= 0
  BY DEF Rows
<1>2. PICK g : Sums(g, f, S) /\ \A U \in SUBSET S : Sum(U) = g[U]
  BY RowsSummed
<1> HIDE DEF f
<1>3. g[T] <= g[S]
  BY <1>1, <1>2, SumsMonotonic DEF Rows
<1> QED BY <1>2, <1>3, RowsSubset, SumType

LEMMA SumNotPositive ==
    ASSUME NEW S, Rows(S), \A r \in S : r.amount <= 0
    PROVE  Sum(S) \in Int /\ Sum(S) <= 0
<1> DEFINE Good == {s \in SUBSET S : Sum(s) <= 0}
<1>1. ASSUME NEW s \in SUBSET S,
             \A t \in SUBSET S : Cardinality(t) < Cardinality(s) => t \in Good
      PROVE  s \in Good
  <2>1. CASE s = {}
    BY <2>1, SumType
  <2>2. CASE s # {}
    <3>1. PICK x \in s : TRUE
      BY <2>2
    <3>2. /\ Rows(s) /\ Rows(s \ {x}) /\ Sum(s) = x.amount + Sum(s \ {x})
      BY <3>1, RowsSubset, SumRemove
    <3>3. s \ {x} \in Good
      BY <1>1, <3>1, RemoveSmaller DEF Rows
    <3>4. x.amount \in Int /\ x.amount <= 0 /\ Sum(s \ {x}) \in Int
      BY <3>1, <3>2, SumType DEF Rows
    <3> QED BY <3>2, <3>3, <3>4
  <2> QED BY <2>1, <2>2
<1>2. SUBSET S \subseteq Good
  <2> HIDE DEF Good
  <2> QED BY <1>1, SubsetInduction DEF Rows
<1> QED BY <1>2, SumType

\* A sum is the sum of two parts.
LEMMA SumSplit ==
    ASSUME NEW S, Rows(S), NEW A
    PROVE  /\ Sum(S) \in Int /\ Sum(S \cap A) \in Int /\ Sum(S \ A) \in Int
           /\ Sum(S) = Sum(S \cap A) + Sum(S \ A)
<1> DEFINE Good == {s \in SUBSET S : Sum(s) = Sum(s \cap A) + Sum(s \ A)}
<1>0. \A s \in SUBSET S : /\ Rows(s) /\ Rows(s \cap A) /\ Rows(s \ A)
                          /\ Sum(s) \in Int /\ Sum(s \cap A) \in Int
                          /\ Sum(s \ A) \in Int
  <2> TAKE s \in SUBSET S
  <2>1. Rows(s) /\ Rows(s \cap A) /\ Rows(s \ A)
    BY RowsSubset
  <2> QED BY <2>1, SumType
<1>1. ASSUME NEW s \in SUBSET S,
             \A t \in SUBSET S : Cardinality(t) < Cardinality(s) => t \in Good
      PROVE  s \in Good
  <2>1. CASE s = {}
    <3>1. s \cap A = {} /\ s \ A = {} /\ Sum({}) = 0
      BY <2>1, SumType
    <3> QED BY <2>1, <3>1
  <2>2. CASE s # {}
    <3>1. PICK x \in s : TRUE
      BY <2>2
    <3> DEFINE t == s \ {x}
    <3>2. t \in SUBSET S /\ t \in Good
      BY <1>1, <3>1, RemoveSmaller DEF Rows
    <3>3. Sum(s) = x.amount + Sum(t) /\ x.amount \in Int
      BY <1>0, <3>1, SumRemove DEF Rows
    <3>4. /\ Sum(t) \in Int /\ Sum(t \cap A) \in Int /\ Sum(t \ A) \in Int
          /\ Sum(t) = Sum(t \cap A) + Sum(t \ A)
      BY <1>0, <3>2
    <3>5. CASE x \in A
      <4>1. s \ A = t \ A /\ x \in s \cap A /\ (s \cap A) \ {x} = t \cap A
        BY <3>1, <3>5
      <4>2. Sum(s \cap A) = x.amount + Sum(t \cap A)
        BY <1>0, <4>1, SumRemove
      <4>3. Sum(s \ A) = Sum(t \ A)
        BY <4>1
      <4> HIDE DEF t
      <4> QED BY <3>3, <3>4, <4>2, <4>3
    <3>6. CASE x \notin A
      <4>1. s \cap A = t \cap A /\ x \in s \ A /\ (s \ A) \ {x} = t \ A
        BY <3>1, <3>6
      <4>2. Sum(s \ A) = x.amount + Sum(t \ A)
        BY <1>0, <4>1, SumRemove
      <4>3. Sum(s \cap A) = Sum(t \cap A)
        BY <4>1
      <4> HIDE DEF t
      <4> QED BY <3>3, <3>4, <4>2, <4>3
    <3> QED BY <3>5, <3>6
  <2> QED BY <2>1, <2>2
<1>2. SUBSET S \subseteq Good
  <2> HIDE DEF Good
  <2> QED BY <1>1, SubsetInduction DEF Rows
<1> QED BY <1>0, <1>2

-----------------------------------------------------------------------------
(* The inductive invariant *)

Staff == {"call"} \X Calls
Corrs == ({"checkout"} \X Attempts) \cup ({"outcome"} \X Outcomes) \cup Staff
LedgerRow == [type : RecordTypes, corr : Corrs, amount : Int \ {0}]
Arrivals == {"arrival"} \X Checks
ApplicationRow ==
    [corr : Staff \cup ({"release"} \X Calls) \cup Arrivals,
     check : Checks, amount : Int \ {0}]
Credit == [corr : Staff \cup Arrivals, check : Checks, amount : Nat \ {0},
           voided : BOOLEAN]
StripeRefund == [key : {<<c>> : c \in Calls}, corr : Calls, from : Attempts,
                 amount : Nat]
Request == [pc : {"start", "lock", "retrieve", "create", "done"},
            open : 0..MaxAttempts, amount : Nat]
StaffCall == [pc : Steps, kind : Kinds, amount : Nat,
              check : Checks \cup {NoCheck}, applied : Nat,
              target : 0..MaxAttempts, holds : BOOLEAN,
              voids : SUBSET Credit]

\* The tables are finite, and their rows have all their columns.
RowsInv ==
    /\ ledger \in SUBSET LedgerRow /\ IsFiniteSet(ledger)
    /\ applications \in SUBSET ApplicationRow /\ IsFiniteSet(applications)
    /\ credits \in SUBSET Credit /\ IsFiniteSet(credits)
    /\ refunds \in SUBSET StripeRefund
    /\ guest \in [Guests -> Request]
    /\ call \in [Calls -> StaffCall]

\* An attempt that succeeded is of a paid session and in the ledger.
AttemptInv ==
    \A n \in Attempts :
        /\ attempt[n].state = "NONE" => session[n] = "none"
        /\ attempt[n].state # "NONE" => attempt[n].amount > 0
        /\ attempt[n].state = "SUCCEEDED" =>
             session[n] = "paid" /\ Exists(ledger, <<"checkout", n>>)

\* One checkout is inside its transaction, and knows which attempt is open.
AtStripe == {"retrieve", "create"}
GuestInv ==
    /\ \A g, h \in Guests :
         guest[g].pc \in AtStripe /\ guest[h].pc \in AtStripe => g = h
    /\ \A g \in Guests : guest[g].pc \in AtStripe =>
         /\ guest[g].amount > 0
         /\ OpenAttempts \subseteq {guest[g].open}
         /\ guest[g].open # 0 => attempt[guest[g].open].state # "NONE"

\* What the step of a request tells about its kind and its amounts.
KindInv(k) ==
    /\ k.pc = "idle" /\ k.kind \notin Outcomes \cup {"arrive"} => k.amount > 0
    /\ k.pc = "summed" => k.kind \in Outcomes /\ k.amount > 0
    /\ k.pc = "closing" => k.kind \in Outcomes
    /\ k.pc = "recording" =>
         k.kind \in RecordTypes \cup Outcomes /\ k.amount > 0
    /\ k.pc = "applying" => k.kind = "apply" /\ k.amount > 0
    /\ k.pc = "arriving" => k.kind = "arrive"
    /\ k.pc = "adjusting" => k.kind = "adjust" /\ k.amount > 0
    /\ k.pc \in RefundSteps =>
         k.kind = "providerRefund" /\ k.amount > 0 /\ k.target \in Attempts
    /\ k.kind \in {"apply", "arrive", "adjust"} => k.check \in Checks
    /\ k.pc \in RefundSteps /\ k.applied > 0 => k.check \in Checks
    /\ k.pc = "release" => k.applied > 0
    /\ k.pc \in {"ask", "asked"} /\ k.applied > 0 => k.holds
    /\ k.holds => k.pc \in {"ask", "asked"} /\ k.applied > 0
    /\ k.voids # {} => k.holds

\* The locks let one request record, one refund, and one hold a check.
HasCheck(k) == k.pc = "adjusting" \/ k.holds
Exclusive ==
    \A c, d \in Calls : c # d =>
        /\ ~(call[c].pc = "recording" /\ call[d].pc = "recording")
        /\ ~(call[c].pc \in RefundSteps /\ call[d].pc \in RefundSteps)
        /\ ~(/\ HasCheck(call[c]) /\ HasCheck(call[d])
             /\ call[c].check = call[d].check)

\* A request that holds a check knows that it is not paid, and its credits.
CreditRows(k) == {x \in credits : x.check = k}
HeldInv ==
    \A c \in Calls :
        /\ call[c].holds => Mutable(call[c].check)
        /\ call[c].voids \subseteq CreditRows(call[c].check)

\* Stripe has the refund that a request is about to write.
AskedInv ==
    \A c \in Calls :
        call[c].pc = "asked" => \E r \in refunds : r.corr = c
KeysInv == \A r \in refunds : r.key = <<r.corr>>

\* What staff's refunds through Stripe, and their records, have taken out.
StripeOut == Outflow(TRUE)
StaffOut == Outflow(FALSE)

\* What a request has read still covers what it is about to write.
FamilyInv ==
    \A c \in Calls :
        /\ call[c].pc = "recording" /\ call[c].kind # "CAPTURE" =>
             StaffOut + call[c].amount <= Inflow
        /\ call[c].pc \in RefundSteps =>
             StripeOut + call[c].amount <= Inflow

Till(k) == {x \in CreditsOn(k) : FromTill(x)}
Paid == {n \in Attempts : session[n] = "paid"}
TillInv ==
    \A k \in Checks, c \in Calls :
        call[c].pc = "adjusting" /\ call[c].check = k =>
            Sum(Till(k)) + call[c].amount <= PaidByGuests

MoneyInv ==
    /\ FamilyInv /\ EachFamilyWithinInflow
    /\ TillInv /\ TillCreditWasPaid

ControlInv ==
    /\ RowsInv /\ AttemptInv /\ GuestInv /\ OneOpenAttempt
    /\ \A c \in Calls : KindInv(call[c])
    /\ Exclusive /\ HeldInv /\ AskedInv /\ KeysInv
    /\ CapturesWerePaid /\ RefundsOncePerRequest

IInv == TypeOK /\ ControlInv /\ MoneyInv

-----------------------------------------------------------------------------
(* The least and the greatest of some numbers *)

LEMMA MinIn ==
    ASSUME NEW T \in SUBSET Attempts, T # {}
    PROVE  Min(T) \in T
<1>1. T \in SUBSET Nat
  BY ReservationDepositAssumption DEF Attempts
<1>2. \E m \in T : \A n \in T : m <= n
  BY <1>1, LeastElement
<1> QED BY <1>2 DEF Min

LEMMA MaxIn ==
    ASSUME NEW N \in Nat, NEW T \in SUBSET (1..N), T # {}
    PROVE  Max(T) \in T
<1> DEFINE U == {N - n : n \in T}
<1>0. \A n \in T : n \in 1..N /\ N - n \in Nat
  OBVIOUS
<1>1. U \in SUBSET Nat /\ U # {}
  BY <1>0
<1>2. PICK m \in U : \A n \in U : m <= n
  <2> HIDE DEF U
  <2> QED BY <1>1, LeastElement
<1>3. PICK x \in T : m = N - x
  OBVIOUS
<1>4. \A y \in T : x >= y
  <2> TAKE y \in T
  <2>1. N - x <= N - y
    BY <1>2, <1>3
  <2> QED BY <1>0, <2>1
<1> QED BY <1>4 DEF Max

-----------------------------------------------------------------------------
(* Who changes what *)

LEMMA GuestFrame ==
    ASSUME NEW g \in Guests, GuestStep(g)
    PROVE  UNCHANGED <<status, money, bill, succeeded, lapsed, refunds, bounced,
                       call>>
  BY DEF GuestStep, GuestStart, GuestLock, GuestRetrieve, GuestCreate,
         GuestAbort, checkout, stripe

LEMMA StripeFrame ==
    ASSUME NEW n \in Attempts, StripeStep(n)
    PROVE  UNCHANGED <<status, applications, credits, bill, refunds, bounced,
                       guest, call>>
  BY DEF StripeStep, Pay, PayLater, Lapse, CaptureSucceededSession,
         MarkProviderTerminal, money, checkout, stripe

LEMMA CallFrame ==
    ASSUME NEW c \in Calls, CallStep(c)
    PROVE  UNCHANGED <<checkout, session, lapsed, bounced, guest>>
  BY DEF CallStep, RecordRead, RecordWrite, CloseRead, CloseUpdate, ApplyRead,
         ApplyWrite, ArriveRead, ArriveWrite, AdjustRead, AdjustWrite,
         RefundRead, RefundRelease, RefundAsk, RefundWrite, Abort, stripe

OtherStep ==
    \/ \E x \in ActiveCredits : VoidAdjustment(x)
    \/ \E k \in Checks : BillStep(k)
    \/ \E r \in refunds \ bounced : RefundFails(r)
    \/ CheckIn

LEMMA OtherFrame ==
    ASSUME OtherStep
    PROVE  UNCHANGED <<ledger, applications, checkout, session, lapsed,
                       refunds, guest, call>>
  BY DEF OtherStep, VoidAdjustment, CheckIn, BillStep, RefundFails, money,
         stripe

-----------------------------------------------------------------------------
(* The requests of staff *)

\* What a step of a request makes of it.
Moved(c, k) ==
    /\ call' = [call EXCEPT ![c] = k]
    /\ k.kind = call[c].kind /\ KindInv(k)
    /\ k.pc = "recording" =>
         /\ ~InRecord(c)
         /\ k.kind # "CAPTURE" => k.amount <= Balance
    /\ k.pc \in RefundSteps =>
         \/ call[c].pc \in RefundSteps /\ k.amount = call[c].amount
         \/ ~Inside(c, RefundSteps) /\ k.amount <= Balance
    /\ k.pc = "adjusting" =>
         ~CheckLocked(k.check) /\ k.amount <= SucceededAmount - Used
    /\ k.holds =>
         \/ /\ call[c].holds
            /\ k.voids = call[c].voids /\ k.check = call[c].check
         \/ /\ ~CheckLocked(k.check) /\ Mutable(k.check)
            /\ k.voids = CreditsOn(k.check)
    /\ k.pc = "asked" => RefundAsk(c)

LEMMA CallType ==
    ASSUME IInv, NEW c \in Calls
    PROVE  call[c] \in StaffCall /\ KindInv(call[c])
  BY DEF IInv, ControlInv, RowsInv

LEMMA GotoMoves ==
    ASSUME IInv, NEW c \in Calls, NEW l \in Steps, Goto(c, l)
    PROVE  \E k \in StaffCall :
              /\ call' = [call EXCEPT ![c] = k]
              /\ k.pc = l /\ k.kind = call[c].kind
              /\ k.amount = call[c].amount /\ k.applied = call[c].applied
              /\ k.target = call[c].target /\ k.holds = call[c].holds
              /\ k.voids = call[c].voids /\ k.check = call[c].check
<1> DEFINE k == [call[c] EXCEPT !.pc = l]
<1>1. call[c] \in StaffCall
  BY CallType
<1>2. /\ k \in StaffCall /\ k.pc = l /\ k.kind = call[c].kind
      /\ k.amount = call[c].amount /\ k.applied = call[c].applied
      /\ k.target = call[c].target /\ k.holds = call[c].holds
      /\ k.voids = call[c].voids /\ k.check = call[c].check
  BY <1>1 DEF StaffCall
<1>3. call' = [call EXCEPT ![c] = k]
  BY DEF Goto
<1> HIDE DEF k
<1> QED BY <1>2, <1>3

LEMMA DoneMoves ==
    ASSUME IInv, NEW c \in Calls, Done(c)
    PROVE  \E k \in StaffCall : Moved(c, k) /\ k.pc = "done"
<1> DEFINE k == [call[c] EXCEPT !.pc = "done", !.holds = FALSE, !.voids = {}]
<1>1. call[c] \in StaffCall /\ KindInv(call[c])
  BY CallType
<1>2. /\ k \in StaffCall /\ k.pc = "done" /\ k.kind = call[c].kind
      /\ k.check = call[c].check /\ k.holds = FALSE /\ k.voids = {}
  BY <1>1 DEF StaffCall, Steps
<1>3. call' = [call EXCEPT ![c] = k]
  BY DEF Done
<1> HIDE DEF k
<1>4. KindInv(k)
  BY <1>1, <1>2 DEF KindInv, RefundSteps
<1>5. Moved(c, k)
  BY <1>2, <1>3, <1>4 DEF Moved, RefundSteps
<1> QED BY <1>2, <1>5

LEMMA RecordMoves ==
    ASSUME IInv, NEW c \in Calls, RecordRead(c) \/ RecordWrite(c)
    PROVE  \E k \in StaffCall : Moved(c, k)
<1>0. /\ call[c] \in StaffCall /\ KindInv(call[c])
      /\ call[c].kind \in RecordTypes \cup Outcomes /\ call[c].amount > 0
      /\ call[c].holds = FALSE /\ call[c].voids = {}
  <2>1. call[c] \in StaffCall /\ KindInv(call[c])
    BY CallType
  <2>2. \/ call[c].pc = "idle" /\ call[c].kind \in RecordTypes
        \/ call[c].pc \in {"summed", "recording"}
    BY DEF RecordRead, RecordWrite
  <2> QED BY <2>1, <2>2 DEF KindInv, StaffCall, RecordTypes, Outcomes
<1>1. CASE Done(c)
  BY <1>1, DoneMoves
<1>2. CASE AfterRecord(c)
  <2> DEFINE l == IF call[c].kind \in Outcomes THEN "closing" ELSE "done"
  <2>1. l \in Steps /\ l \in {"closing", "done"} /\ Goto(c, l)
    BY <1>2 DEF AfterRecord, Steps
  <2>2. l = "closing" => call[c].kind \in Outcomes
    OBVIOUS
  <2> HIDE DEF l
  <2>3. PICK k \in StaffCall :
              /\ call' = [call EXCEPT ![c] = k]
              /\ k.pc = l /\ k.kind = call[c].kind
              /\ k.check = call[c].check
              /\ k.holds = call[c].holds /\ k.voids = call[c].voids
    BY <2>1, GotoMoves
  <2>4. KindInv(k)
    BY <1>0, <2>1, <2>2, <2>3 DEF KindInv, RefundSteps
  <2> QED BY <1>0, <2>1, <2>3, <2>4 DEF Moved, RefundSteps
<1>3. CASE RecordRead(c) /\ Goto(c, "recording")
            /\ ~(Movement(c).amount < 0 /\ Balance + Movement(c).amount < 0)
  <2>1. PICK k \in StaffCall :
              /\ call' = [call EXCEPT ![c] = k]
              /\ k.pc = "recording" /\ k.kind = call[c].kind
              /\ k.amount = call[c].amount /\ k.check = call[c].check
              /\ k.holds = call[c].holds /\ k.voids = call[c].voids
    BY <1>3, GotoMoves DEF Steps
  <2>2. KindInv(k)
    BY <1>0, <2>1 DEF KindInv, RefundSteps
  <2>3. k.kind # "CAPTURE" => k.amount <= Balance
    <3>1. k.kind # "CAPTURE" => Movement(c).amount = -call[c].amount
      BY <2>1 DEF Movement
    <3>2. Balance \in Int
      BY SumType DEF Balance, IInv, ControlInv, RowsInv, LedgerRow, Rows
    <3>3. call[c].amount \in Nat
      BY <1>0 DEF StaffCall
    <3> QED BY <1>0, <1>3, <2>1, <3>1, <3>2, <3>3
  <2> QED BY <1>0, <1>3, <2>1, <2>2, <2>3
       DEF Moved, RefundSteps, RecordRead
<1> QED BY <1>1, <1>2, <1>3 DEF RecordRead, RecordWrite

LEMMA CloseMoves ==
    ASSUME IInv, NEW c \in Calls, CloseRead(c) \/ CloseUpdate(c)
    PROVE  \E k \in StaffCall : Moved(c, k)
<1>1. CASE Done(c)
  BY <1>1, DoneMoves
<1>2. CASE CloseRead(c) /\ ~Done(c)
  <2>0. /\ call[c] \in StaffCall /\ KindInv(call[c])
        /\ call[c].kind \in Outcomes
        /\ call[c].holds = FALSE /\ call[c].voids = {}
    BY <1>2, CallType DEF CloseRead, KindInv, StaffCall
  <2>1. PICK forfeit \in 0..Unapplied :
           call' = [call EXCEPT
              ![c].pc = IF forfeit > 0 THEN "summed" ELSE "closing",
              ![c].amount = forfeit]
    BY <1>2 DEF CloseRead
  <2> DEFINE l == IF forfeit > 0 THEN "summed" ELSE "closing"
             k == [call[c] EXCEPT !.pc = l, !.amount = forfeit]
  <2>2. l \in Steps /\ l \in {"summed", "closing"}
        /\ (l = "summed" => forfeit > 0)
    BY DEF Steps
  <2>3. forfeit \in Nat
    OBVIOUS
  <2>4. /\ k \in StaffCall /\ k.pc = l /\ k.kind = call[c].kind
        /\ k.amount = forfeit /\ k.check = call[c].check
        /\ k.holds = call[c].holds /\ k.voids = call[c].voids
    BY <2>0, <2>2, <2>3 DEF StaffCall
  <2>5. call' = [call EXCEPT ![c] = k]
    BY <2>1
  <2> HIDE DEF k, l
  <2>6. KindInv(k)
    BY <2>0, <2>2, <2>4 DEF KindInv, RefundSteps
  <2>7. Moved(c, k)
    BY <2>0, <2>2, <2>4, <2>5, <2>6 DEF Moved, RefundSteps
  <2> QED BY <2>4, <2>7
<1> QED BY <1>1, <1>2 DEF CloseUpdate

LEMMA ApplyMoves ==
    ASSUME IInv, NEW c \in Calls,
           ApplyRead(c) \/ ApplyWrite(c) \/ ArriveRead(c) \/ ArriveWrite(c)
             \/ AdjustRead(c) \/ AdjustWrite(c)
    PROVE  \E k \in StaffCall : Moved(c, k)
<1>1. CASE Done(c)
  BY <1>1, DoneMoves
<1>0. ASSUME call[c].pc = "idle"
      PROVE  /\ call[c] \in StaffCall /\ KindInv(call[c])
             /\ call[c].holds = FALSE /\ call[c].voids = {}
  BY <1>0, CallType DEF KindInv, StaffCall
<1>2. CASE ApplyRead(c) /\ ~Done(c)
  <2>0. /\ call[c].pc = "idle" /\ call[c].kind = "apply"
        /\ Goto(c, "applying")
    BY <1>2 DEF ApplyRead
  <2>1. PICK k \in StaffCall :
              /\ call' = [call EXCEPT ![c] = k]
              /\ k.pc = "applying" /\ k.kind = call[c].kind
              /\ k.amount = call[c].amount /\ k.check = call[c].check
              /\ k.holds = call[c].holds /\ k.voids = call[c].voids
    BY <2>0, GotoMoves DEF Steps
  <2>2. KindInv(k)
    BY <1>0, <2>0, <2>1 DEF KindInv, RefundSteps, Outcomes
  <2> QED BY <1>0, <2>0, <2>1, <2>2 DEF Moved, RefundSteps
<1>3. CASE ArriveRead(c) /\ ~Done(c)
  <2>0. /\ call[c].pc = "idle" /\ call[c].kind = "arrive"
        /\ call' = [call EXCEPT
              ![c].pc = "arriving",
              ![c].amount = IF Exists(applications,
                                      <<"arrival", call[c].check>>)
                              THEN 0 ELSE Unapplied]
    BY <1>3 DEF ArriveRead
  <2> DEFINE a == IF Exists(applications, <<"arrival", call[c].check>>)
                    THEN 0 ELSE Unapplied
             k == [call[c] EXCEPT !.pc = "arriving", !.amount = a]
  <2>1. a \in Nat
    <3>1. Balance \in Int /\ Applied \in Int
      BY SumType DEF Balance, Applied, IInv, ControlInv, RowsInv, LedgerRow,
                     ApplicationRow, Rows
    <3> QED BY <3>1 DEF Unapplied, AtLeastZero
  <2>2. call' = [call EXCEPT ![c] = k]
    BY <2>0
  <2> HIDE DEF a
  <2>3. /\ k \in StaffCall /\ k.pc = "arriving" /\ k.kind = call[c].kind
        /\ k.check = call[c].check
        /\ k.holds = call[c].holds /\ k.voids = call[c].voids
    BY <1>0, <2>0, <2>1 DEF StaffCall, Steps
  <2> HIDE DEF k
  <2>4. KindInv(k)
    BY <1>0, <2>0, <2>3 DEF KindInv, RefundSteps
  <2>5. Moved(c, k)
    BY <1>0, <2>0, <2>2, <2>3, <2>4 DEF Moved, RefundSteps
  <2> QED BY <2>3, <2>5
<1>4. CASE AdjustRead(c) /\ ~Done(c)
  <2>0. /\ call[c].pc = "idle" /\ call[c].kind = "adjust"
        /\ ~CheckLocked(call[c].check)
        /\ call[c].amount <= SucceededAmount - Used
        /\ Goto(c, "adjusting")
    BY <1>4 DEF AdjustRead
  <2>1. PICK k \in StaffCall :
              /\ call' = [call EXCEPT ![c] = k]
              /\ k.pc = "adjusting" /\ k.kind = call[c].kind
              /\ k.amount = call[c].amount /\ k.check = call[c].check
              /\ k.holds = call[c].holds /\ k.voids = call[c].voids
    BY <2>0, GotoMoves DEF Steps
  <2>2. KindInv(k)
    BY <1>0, <2>0, <2>1 DEF KindInv, RefundSteps, Outcomes
  <2> QED BY <1>0, <2>0, <2>1, <2>2 DEF Moved, RefundSteps
<1> QED BY <1>1, <1>2, <1>3, <1>4 DEF ApplyWrite, ArriveWrite, AdjustWrite

LEMMA RefundReadMoves ==
    ASSUME IInv, NEW c \in Calls, RefundRead(c)
    PROVE  \E k \in StaffCall : Moved(c, k)
<1> DEFINE payments == {i \in DOMAIN succeeded :
                           attempt[succeeded[i]].state = "SUCCEEDED"}
           releases == call[c].amount > Unapplied
           a == IF releases THEN AtLeastZero(Applied) ELSE 0
           l == IF a > 0 THEN "release" ELSE "ask"
           t == succeeded[Max(payments)]
           appliedTo == {r.check : r \in {x \in applications : x.amount > 0}}
<1>1. CASE Done(c)
  BY <1>1, DoneMoves
<1>2. CASE ~Done(c)
  <2>0. /\ call[c].pc = "idle" /\ call[c].kind = "providerRefund"
        /\ ~Inside(c, RefundSteps)
        /\ ~(call[c].amount > Balance) /\ payments # {}
        /\ \E q \in Checks \cup {NoCheck} :
              /\ IF a > 0 THEN appliedTo = {q} ELSE q = NoCheck
              /\ call' = [call EXCEPT ![c].pc = l, ![c].check = q,
                                      ![c].applied = a, ![c].target = t]
    BY <1>2 DEF RefundRead
  <2>1. /\ call[c] \in StaffCall /\ KindInv(call[c])
        /\ call[c].holds = FALSE /\ call[c].voids = {}
        /\ call[c].amount > 0
    BY <2>0, CallType DEF KindInv, StaffCall, Outcomes
  <2>2. Balance \in Int /\ Applied \in Int
    BY SumType DEF Balance, Applied, IInv, ControlInv, RowsInv, LedgerRow,
                   ApplicationRow, Rows
  <2>3. t \in Attempts
    <3>1. succeeded \in Seq(Attempts)
      BY DEF IInv, TypeOK
    <3>2. Len(succeeded) \in Nat /\ DOMAIN succeeded = 1..Len(succeeded)
      BY <3>1, LenProperties
    <3>3. payments \in SUBSET (1..Len(succeeded))
      BY <3>2
    <3> HIDE DEF payments
    <3>4. Max(payments) \in 1..Len(succeeded)
      BY <2>0, <3>2, <3>3, MaxIn
    <3> QED BY <3>1, <3>4, ElementOfSeq
  <2>4. /\ a \in Nat /\ l \in Steps /\ l \in {"release", "ask"}
        /\ l = "release" => a > 0
        /\ l = "ask" => a = 0
    <3>1. a \in Nat
      BY <2>2 DEF AtLeastZero
    <3> HIDE DEF a
    <3> QED BY <3>1 DEF Steps, RefundSteps
  <2>11. PICK q \in Checks \cup {NoCheck} :
            /\ IF a > 0 THEN appliedTo = {q} ELSE q = NoCheck
            /\ call' = [call EXCEPT ![c].pc = l, ![c].check = q,
                                    ![c].applied = a, ![c].target = t]
    BY <2>0
  <2>12. a > 0 => q \in Checks
    <3> HAVE a > 0
    <3>1. q \in appliedTo
      BY <2>11
    <3> QED BY <3>1 DEF IInv, ControlInv, RowsInv, ApplicationRow
  <2> HIDE DEF l, a, t, payments, releases, appliedTo
  <2>5. t \in 0..MaxAttempts
    BY <2>3, ReservationDepositAssumption DEF Attempts
  <2> DEFINE k == [call[c] EXCEPT !.pc = l, !.check = q, !.applied = a,
                                  !.target = t]
  <2>6. call' = [call EXCEPT ![c] = k]
    BY <2>11
  <2>7. /\ k \in StaffCall /\ k.pc = l /\ k.kind = call[c].kind
        /\ k.applied = a /\ k.target = t /\ k.amount = call[c].amount
        /\ k.holds = call[c].holds /\ k.voids = call[c].voids
        /\ k.check = q
    BY <2>1, <2>4, <2>5 DEF StaffCall
  <2> HIDE DEF k
  <2>8. KindInv(k)
    BY <2>0, <2>1, <2>3, <2>4, <2>7, <2>12 DEF KindInv, RefundSteps
  <2>9. k.amount <= Balance
    <3>1. call[c].amount \in Nat
      BY <2>1 DEF StaffCall
    <3> QED BY <2>0, <2>2, <2>7, <3>1
  <2>10. Moved(c, k)
    BY <2>0, <2>1, <2>4, <2>6, <2>7, <2>8, <2>9 DEF Moved
  <2> QED BY <2>7, <2>10
<1> QED BY <1>1, <1>2

LEMMA RefundMoves ==
    ASSUME IInv, NEW c \in Calls,
           RefundRelease(c) \/ RefundAsk(c) \/ RefundWrite(c)
    PROVE  \E k \in StaffCall : Moved(c, k)
<1>0. call[c] \in StaffCall /\ KindInv(call[c])
  BY CallType
<1>1. CASE Done(c)
  BY <1>1, DoneMoves
<1>2. CASE RefundRelease(c) /\ ~Done(c)
  <2> DEFINE q == call[c].check
  <2>0. /\ call[c].pc = "release" /\ ~CheckLocked(q) /\ Mutable(q)
        /\ call' = [call EXCEPT ![c].pc = "ask", ![c].holds = Holds(c),
                                ![c].voids = CreditsOn(q)]
    BY <1>2 DEF RefundRelease
  <2>1. Holds(c) = TRUE
    BY <1>0, <2>0 DEF Holds, Releases, KindInv
  <2>2. CreditsOn(q) \in SUBSET Credit
    BY DEF CreditsOn, ActiveCredits, IInv, ControlInv, RowsInv
  <2> DEFINE k == [call[c] EXCEPT !.pc = "ask", !.holds = TRUE,
                                  !.voids = CreditsOn(q)]
  <2>3. call' = [call EXCEPT ![c] = k]
    BY <2>0, <2>1
  <2>4. /\ k \in StaffCall /\ k.pc = "ask" /\ k.kind = call[c].kind
        /\ k.target = call[c].target /\ k.amount = call[c].amount
        /\ k.holds = TRUE /\ k.voids = CreditsOn(q) /\ k.check = q
        /\ k.applied = call[c].applied
    BY <1>0, <2>2 DEF StaffCall, Steps, RefundSteps
  <2> HIDE DEF k
  <2>5. KindInv(k)
    BY <1>0, <2>0, <2>4 DEF KindInv, RefundSteps
  <2>6. Moved(c, k)
    BY <2>0, <2>3, <2>4, <2>5 DEF Moved, RefundSteps
  <2> QED BY <2>4, <2>6
<1>3. CASE RefundAsk(c)
  <2>0. call[c].pc = "ask" /\ Goto(c, "asked")
    BY <1>3 DEF RefundAsk
  <2>1. PICK k \in StaffCall :
              /\ call' = [call EXCEPT ![c] = k]
              /\ k.pc = "asked" /\ k.kind = call[c].kind
              /\ k.amount = call[c].amount /\ k.applied = call[c].applied
              /\ k.target = call[c].target /\ k.holds = call[c].holds
              /\ k.voids = call[c].voids /\ k.check = call[c].check
    BY <2>0, GotoMoves DEF Steps, RefundSteps
  <2>2. KindInv(k)
    BY <1>0, <2>0, <2>1 DEF KindInv, RefundSteps
  <2> QED BY <1>3, <2>0, <2>1, <2>2 DEF Moved, RefundSteps
<1> QED BY <1>1, <1>2, <1>3 DEF RefundRelease, RefundWrite

LEMMA AbortMoves ==
    ASSUME IInv, NEW c \in Calls, Abort(c)
    PROVE  \E k \in StaffCall : Moved(c, k)
<1>0. call[c] \in StaffCall /\ KindInv(call[c])
  BY CallType
<1>1. CASE call[c].kind \in Outcomes
  <2> DEFINE k == [call[c] EXCEPT !.pc = "done"]
  <2>1. call' = [call EXCEPT ![c] = k]
    BY <1>1 DEF Abort
  <2>2. call[c].holds = FALSE /\ call[c].voids = {}
    BY <1>0, <1>1 DEF Abort, KindInv, StaffCall, Outcomes, RefundSteps
  <2>3. /\ k \in StaffCall /\ k.pc = "done" /\ k.kind = call[c].kind
        /\ k.check = call[c].check /\ k.holds = FALSE /\ k.voids = {}
    BY <1>0, <2>2 DEF StaffCall, Steps
  <2> HIDE DEF k
  <2>4. KindInv(k)
    BY <1>0, <2>3 DEF KindInv, RefundSteps
  <2>5. Moved(c, k)
    BY <2>1, <2>3, <2>4 DEF Moved, RefundSteps
  <2> QED BY <2>3, <2>5
<1>2. CASE call[c].kind \notin Outcomes
  <2> DEFINE a == IF call[c].kind = "arrive" THEN 0 ELSE call[c].amount
             q == IF call[c].kind = "providerRefund" THEN NoCheck
                  ELSE call[c].check
             k == NewCall(call[c].kind, a, q)
  <2>1. call' = [call EXCEPT ![c] = k]
    BY <1>2 DEF Abort
  <2>2. a \in Nat /\ (call[c].kind # "arrive" => a > 0)
    <3>1. call[c].kind # "arrive" => call[c].amount > 0
      BY <1>0, <1>2 DEF Abort, KindInv, RefundSteps
    <3>2. call[c].amount \in Nat
      BY <1>0 DEF StaffCall
    <3> QED BY <3>1, <3>2
  <2>6. /\ q \in Checks \cup {NoCheck}
        /\ call[c].kind # "providerRefund" => q = call[c].check
    BY <1>0 DEF StaffCall
  <2> HIDE DEF a, q
  <2>3. /\ k \in StaffCall /\ k.pc = "idle" /\ k.kind = call[c].kind
        /\ k.amount = a /\ k.holds = FALSE /\ k.voids = {} /\ k.check = q
    BY <1>0, <2>2, <2>6, ReservationDepositAssumption
       DEF StaffCall, Steps, NewCall
  <2> HIDE DEF k
  <2>4. KindInv(k)
    BY <1>0, <2>2, <2>3, <2>6 DEF KindInv, RefundSteps
  <2>5. Moved(c, k)
    BY <2>1, <2>3, <2>4 DEF Moved, RefundSteps
  <2> QED BY <2>3, <2>5
<1> QED BY <1>1, <1>2

LEMMA CallMoves ==
    ASSUME IInv, NEW c \in Calls, CallStep(c)
    PROVE  \E k \in StaffCall : Moved(c, k)
  BY RecordMoves, CloseMoves, ApplyMoves, RefundReadMoves, RefundMoves,
     AbortMoves DEF CallStep

\* At most one request of staff moves.
LEMMA OneMoves ==
    ASSUME IInv, [Next]_vars
    PROVE  \/ UNCHANGED call
           \/ \E c \in Calls, k \in StaffCall : CallStep(c) /\ Moved(c, k)
<1>1. CASE \E g \in Guests : GuestStep(g)
  BY <1>1, GuestFrame
<1>2. CASE \E n \in Attempts : StripeStep(n)
  BY <1>2, StripeFrame
<1>3. CASE \E c \in Calls : CallStep(c)
  BY <1>3, CallMoves
<1>4. CASE OtherStep
  BY <1>4, OtherFrame
<1>5. CASE UNCHANGED vars
  BY <1>5 DEF vars
<1> QED BY <1>1, <1>2, <1>3, <1>4, <1>5 DEF Next, OtherStep

LEMMA MovedIs ==
    ASSUME IInv, NEW c \in Calls, NEW k, Moved(c, k)
    PROVE  call'[c] = k /\ \A d \in Calls : d # c => call'[d] = call[d]
<1>1. call \in [Calls -> StaffCall]
  BY DEF IInv, ControlInv, RowsInv
<1> QED BY <1>1 DEF Moved

LEMMA CallsStep ==
    ASSUME IInv, [Next]_vars
    PROVE  /\ call' \in [Calls -> StaffCall]
           /\ \A c \in Calls : /\ KindInv(call'[c])
                               /\ call'[c].kind = call[c].kind
<1>0. call \in [Calls -> StaffCall] /\ \A c \in Calls : KindInv(call[c])
  BY DEF IInv, ControlInv, RowsInv
<1>1. CASE UNCHANGED call
  BY <1>0, <1>1
<1>2. ASSUME NEW c \in Calls, NEW k \in StaffCall, Moved(c, k)
      PROVE  /\ call' \in [Calls -> StaffCall]
             /\ \A d \in Calls : /\ KindInv(call'[d])
                                 /\ call'[d].kind = call[d].kind
  <2>1. call' = [call EXCEPT ![c] = k] /\ k.kind = call[c].kind /\ KindInv(k)
    BY <1>2 DEF Moved
  <2>2. call' \in [Calls -> StaffCall]
    BY <1>0, <2>1
  <2> QED BY <1>0, <1>2, <2>1, <2>2, MovedIs
<1> QED BY <1>1, <1>2, OneMoves

LEMMA ExclusiveStep ==
    ASSUME IInv, [Next]_vars
    PROVE  Exclusive'
<1>0. Exclusive
  BY DEF IInv, ControlInv
<1>1. CASE UNCHANGED call
  BY <1>0, <1>1 DEF Exclusive, HasCheck
<1>2. ASSUME NEW c \in Calls, NEW k \in StaffCall, Moved(c, k)
      PROVE  Exclusive'
  <2>0. call'[c] = k /\ \A d \in Calls : d # c => call'[d] = call[d]
    BY <1>2, MovedIs
  <2>1. ASSUME NEW d \in Calls, d # c
        PROVE  /\ ~(k.pc = "recording" /\ call[d].pc = "recording")
               /\ ~(k.pc \in RefundSteps /\ call[d].pc \in RefundSteps)
               /\ ~(/\ HasCheck(k) /\ HasCheck(call[d])
                    /\ k.check = call[d].check)
    <3>1. ~(k.pc = "recording" /\ call[d].pc = "recording")
      BY <1>2, <2>1 DEF Moved, InRecord, Inside
    <3>2. ~(k.pc \in RefundSteps /\ call[d].pc \in RefundSteps)
      BY <1>0, <1>2, <2>1 DEF Moved, Inside, Exclusive
    <3>3. ~(/\ HasCheck(k) /\ HasCheck(call[d])
            /\ k.check = call[d].check)
      <4>1. HasCheck(k) => \/ HasCheck(call[c]) /\ k.check = call[c].check
                           \/ ~CheckLocked(k.check)
        BY <1>2 DEF Moved, HasCheck
      <4> QED BY <1>0, <2>1, <4>1 DEF Exclusive, HasCheck, CheckLocked
    <3> QED BY <3>1, <3>2, <3>3
  <2> QED BY <1>0, <2>0, <2>1 DEF Exclusive
<1> QED BY <1>1, <1>2, OneMoves

-----------------------------------------------------------------------------
(* The tables *)

\* What a capture, and what staff, write in the ledger.
CaptureRow(n) == [type |-> "CAPTURE", corr |-> <<"checkout", n>>,
                  amount |-> attempt[n].amount]
RefundRow(c) == [type |-> "REFUND", corr |-> Corr(c),
                 amount |-> -call[c].amount]

LEMMA LedgerChanges ==
    ASSUME [Next]_vars
    PROVE  \/ UNCHANGED ledger
           \/ \E n \in Attempts :
                 /\ CaptureSucceededSession(n) /\ AmountMatches(n)
                 /\ ledger' = ledger \cup {CaptureRow(n)}
           \/ \E c \in Calls : /\ RecordWrite(c)
                               /\ ledger' = ledger \cup {Movement(c)}
           \/ \E c \in Calls : /\ RefundWrite(c)
                               /\ ledger' = ledger \cup {RefundRow(c)}
<1>1. CASE \E g \in Guests : GuestStep(g)
  BY <1>1, GuestFrame DEF money
<1>2. ASSUME NEW n \in Attempts, StripeStep(n)
      PROVE  \/ UNCHANGED ledger
             \/ /\ CaptureSucceededSession(n) /\ AmountMatches(n)
                /\ ledger' = ledger \cup {CaptureRow(n)}
  BY <1>2 DEF StripeStep, Pay, PayLater, Lapse, CaptureSucceededSession,
              MarkProviderTerminal, money, CaptureRow
<1>3. ASSUME NEW c \in Calls, CallStep(c)
      PROVE  \/ UNCHANGED ledger
             \/ RecordWrite(c) /\ ledger' = ledger \cup {Movement(c)}
             \/ RefundWrite(c) /\ ledger' = ledger \cup {RefundRow(c)}
  BY <1>3
     DEF CallStep, RecordRead, RecordWrite, CloseRead, CloseUpdate, ApplyRead,
         ApplyWrite, ArriveRead, ArriveWrite, AdjustRead, AdjustWrite,
         RefundRead, RefundRelease, RefundAsk, RefundWrite, Abort, money,
         RefundRow
<1>4. CASE OtherStep
  BY <1>4, OtherFrame
<1>5. CASE UNCHANGED vars
  BY <1>5 DEF vars, money
<1> QED BY <1>1, <1>2, <1>3, <1>4, <1>5 DEF Next, OtherStep

LEMMA CorrType == ASSUME IInv, NEW c \in Calls PROVE Corr(c) \in Corrs
<1>1. CASE call[c].kind \in Outcomes
  BY <1>1 DEF Corr, Corrs
<1>2. CASE call[c].kind \notin Outcomes
  BY <1>2 DEF Corr, Corrs, Staff
<1> QED BY <1>1, <1>2

LEMMA MovementType ==
    ASSUME IInv, NEW c \in Calls, RecordWrite(c)
    PROVE  /\ Movement(c) \in LedgerRow
           /\ Movement(c).corr = Corr(c)
           /\ call[c].kind = "CAPTURE" =>
                Movement(c).amount = call[c].amount /\ Movement(c).amount > 0
           /\ call[c].kind # "CAPTURE" =>
                Movement(c).amount = -call[c].amount /\ Movement(c).amount < 0
<1>0. call[c].amount \in Nat /\ call[c].amount > 0
  BY CallType DEF RecordWrite, KindInv, StaffCall
<1>1. Corr(c) \in Corrs
  BY CorrType
<1>2. CASE call[c].kind = "CAPTURE"
  BY <1>0, <1>1, <1>2 DEF Movement, LedgerRow, RecordTypes
<1>3. CASE call[c].kind # "CAPTURE"
  <2>1. -call[c].amount \in Int \ {0} /\ -call[c].amount < 0
    BY <1>0
  <2>2. (IF call[c].kind = "REFUND" THEN "REFUND" ELSE "FORFEIT")
           \in RecordTypes
    BY DEF RecordTypes
  <2> QED BY <1>1, <1>3, <2>1, <2>2 DEF Movement, LedgerRow
<1> QED BY <1>2, <1>3

LEMMA RefundRowType ==
    ASSUME IInv, NEW c \in Calls, RefundWrite(c)
    PROVE  /\ RefundRow(c) \in LedgerRow /\ RefundRow(c).amount < 0
           /\ RefundRow(c).amount = -call[c].amount
           /\ RefundRow(c).corr = <<"call", c>>
<1>0. /\ call[c].amount \in Nat /\ call[c].amount > 0
      /\ call[c].kind = "providerRefund"
  BY CallType DEF RefundWrite, KindInv, StaffCall, RefundSteps
<1>1. Corr(c) \in Corrs /\ Corr(c) = <<"call", c>>
  BY <1>0, CorrType DEF Corr, Outcomes
<1>2. -call[c].amount \in Int \ {0} /\ -call[c].amount < 0
  BY <1>0
<1> QED BY <1>1, <1>2 DEF RefundRow, LedgerRow, RecordTypes

LEMMA CaptureRowType ==
    ASSUME IInv, NEW n \in Attempts, session[n] = "paid"
    PROVE  CaptureRow(n) \in LedgerRow /\ CaptureRow(n).amount > 0
<1>1. attempt[n].amount \in Nat /\ attempt[n].amount > 0
  BY DEF IInv, TypeOK, ControlInv, AttemptInv
<1> QED BY <1>1 DEF CaptureRow, LedgerRow, RecordTypes, Corrs

LEMMA LedgerType ==
    ASSUME IInv, [Next]_vars
    PROVE  ledger' \in SUBSET LedgerRow /\ IsFiniteSet(ledger')
<1>0. ledger \in SUBSET LedgerRow /\ IsFiniteSet(ledger)
  BY DEF IInv, ControlInv, RowsInv
<1>1. ASSUME NEW r \in LedgerRow, ledger' = ledger \cup {r}
      PROVE  ledger' \in SUBSET LedgerRow /\ IsFiniteSet(ledger')
  BY <1>0, <1>1, FS_AddElement
<1>2. CASE UNCHANGED ledger
  BY <1>0, <1>2
<1> QED BY <1>1, <1>2, LedgerChanges, MovementType, RefundRowType,
           CaptureRowType DEF AmountMatches

LEMMA ApplicationsType ==
    ASSUME IInv, [Next]_vars
    PROVE  /\ applications' \in SUBSET ApplicationRow
           /\ IsFiniteSet(applications')
<1>0. applications \in SUBSET ApplicationRow /\ IsFiniteSet(applications)
  BY DEF IInv, ControlInv, RowsInv
<1>1. ASSUME NEW r \in ApplicationRow, applications' = applications \cup {r}
      PROVE  /\ applications' \in SUBSET ApplicationRow
             /\ IsFiniteSet(applications')
  BY <1>0, <1>1, FS_AddElement
<1>2. CASE UNCHANGED applications
  BY <1>0, <1>2
<1>3. ASSUME NEW c \in Calls, CallStep(c)
      PROVE  \/ UNCHANGED applications
             \/ \E r \in ApplicationRow : applications' = applications \cup {r}
  <2>0. call[c] \in StaffCall /\ KindInv(call[c])
    BY CallType
  <2>1. CASE ApplyWrite(c)
    <3>1. /\ call[c].kind = "apply" /\ call[c].amount \in Nat \ {0}
          /\ call[c].check \in Checks
      BY <2>0, <2>1 DEF ApplyWrite, KindInv, StaffCall
    <3>2. [corr |-> Corr(c), check |-> call[c].check,
           amount |-> call[c].amount] \in ApplicationRow
      BY <3>1 DEF Corr, Outcomes, ApplicationRow, Staff
    <3> QED BY <2>1, <3>2 DEF ApplyWrite
  <2>2. CASE ArriveWrite(c)
    <3>1. call[c].amount \in Nat /\ call[c].check \in Checks
      BY <2>0, <2>2 DEF ArriveWrite, KindInv, StaffCall
    <3>2. call[c].amount > 0 =>
            [corr |-> <<"arrival", call[c].check>>, check |-> call[c].check,
             amount |-> call[c].amount] \in ApplicationRow
      BY <3>1 DEF ApplicationRow, Arrivals
    <3> QED BY <2>2, <3>2 DEF ArriveWrite
  <2>3. CASE RefundWrite(c)
    <3>1. Releases(c) => /\ call[c].applied \in Nat \ {0}
                         /\ call[c].check \in Checks
      BY <2>0, <2>3
         DEF RefundWrite, Releases, KindInv, StaffCall, RefundSteps
    <3>2. Releases(c) =>
            [corr |-> <<"release", c>>, check |-> call[c].check,
             amount |-> -call[c].applied] \in ApplicationRow
      BY <3>1 DEF ApplicationRow
    <3> QED BY <2>3, <3>2 DEF RefundWrite
  <2> QED BY <1>3, <2>1, <2>2, <2>3
     DEF CallStep, RecordRead, RecordWrite, CloseRead, CloseUpdate, ApplyRead,
         ArriveRead, AdjustRead, AdjustWrite, RefundRead, RefundRelease,
         RefundAsk, Abort, money
<1>4. CASE \E g \in Guests : GuestStep(g)
  BY <1>2, <1>4, GuestFrame DEF money
<1>5. CASE \E n \in Attempts : StripeStep(n)
  BY <1>2, <1>5, StripeFrame
<1>6. CASE OtherStep
  BY <1>2, <1>6, OtherFrame
<1>7. CASE UNCHANGED vars
  BY <1>2, <1>7 DEF vars, money
<1> QED BY <1>1, <1>2, <1>3, <1>4, <1>5, <1>6, <1>7 DEF Next, OtherStep

ArrivalCredit(c) ==
    [corr |-> <<"arrival", call[c].check>>, check |-> call[c].check,
     amount |-> call[c].amount, voided |-> FALSE]
TillCredit(c) == [corr |-> Corr(c), check |-> call[c].check,
                  amount |-> call[c].amount, voided |-> FALSE]
TakenBack(vs) == {Voided(x) : x \in vs}

LEMMA CreditChanges ==
    ASSUME [Next]_vars
    PROVE  \/ UNCHANGED credits
           \/ \E c \in Calls :
                 /\ ArriveWrite(c) /\ call[c].amount > 0
                 /\ credits' = credits \cup {ArrivalCredit(c)}
           \/ \E c \in Calls :
                 /\ AdjustWrite(c)
                 /\ credits' = credits \cup {TillCredit(c)}
           \/ \E x \in ActiveCredits :
                 /\ VoidAdjustment(x)
                 /\ credits' = (credits \ {x}) \cup {Voided(x)}
           \/ \E c \in Calls :
                 /\ RefundWrite(c) /\ Releases(c)
                 /\ credits' = (credits \ call[c].voids)
                                  \cup TakenBack(call[c].voids)
<1>1. CASE \E g \in Guests : GuestStep(g)
  BY <1>1, GuestFrame DEF money
<1>2. CASE \E n \in Attempts : StripeStep(n)
  BY <1>2, StripeFrame
<1>3. ASSUME NEW c \in Calls, CallStep(c)
      PROVE  \/ UNCHANGED credits
             \/ /\ ArriveWrite(c) /\ call[c].amount > 0
                /\ credits' = credits \cup {ArrivalCredit(c)}
             \/ /\ AdjustWrite(c)
                /\ credits' = credits \cup {TillCredit(c)}
             \/ /\ RefundWrite(c) /\ Releases(c)
                /\ credits' = (credits \ call[c].voids)
                                 \cup TakenBack(call[c].voids)
  <2>1. CASE ArriveWrite(c)
    BY <2>1 DEF ArriveWrite, ArrivalCredit
  <2>2. CASE AdjustWrite(c)
    BY <2>2 DEF AdjustWrite, TillCredit
  <2>3. CASE RefundWrite(c)
    BY <2>3 DEF RefundWrite, TakenBack
  <2> QED BY <1>3, <2>1, <2>2, <2>3
     DEF CallStep, RecordRead, RecordWrite, CloseRead, CloseUpdate, ApplyRead,
         ApplyWrite, ArriveRead, AdjustRead, RefundRead, RefundRelease,
         RefundAsk, Abort, money
<1>4. CASE OtherStep
  BY <1>4 DEF OtherStep, VoidAdjustment, CheckIn, BillStep, RefundFails, money
<1>5. CASE UNCHANGED vars
  BY <1>5 DEF vars, money
<1> QED BY <1>1, <1>2, <1>3, <1>4, <1>5 DEF Next, OtherStep

LEMMA VoidedIs ==
    ASSUME NEW x \in Credit
    PROVE  /\ Voided(x) \in Credit /\ Voided(x).voided = TRUE
           /\ Voided(x).corr = x.corr /\ Voided(x).amount = x.amount
           /\ Voided(x).check = x.check
  BY DEF Credit, Voided

LEMMA CreditsType ==
    ASSUME IInv, [Next]_vars
    PROVE  credits' \in SUBSET Credit /\ IsFiniteSet(credits')
<1>0. credits \in SUBSET Credit /\ IsFiniteSet(credits)
  BY DEF IInv, ControlInv, RowsInv
<1>1. ASSUME NEW x \in Credit, credits' = credits \cup {x}
      PROVE  credits' \in SUBSET Credit /\ IsFiniteSet(credits')
  BY <1>0, <1>1, FS_AddElement
<1>2. CASE UNCHANGED credits
  BY <1>0, <1>2
<1>3. ASSUME NEW c \in Calls, ArriveWrite(c), call[c].amount > 0,
             credits' = credits \cup {ArrivalCredit(c)}
      PROVE  credits' \in SUBSET Credit /\ IsFiniteSet(credits')
  <2>1. call[c].amount \in Nat \ {0} /\ call[c].check \in Checks
    BY <1>3, CallType DEF ArriveWrite, StaffCall, KindInv
  <2>2. ArrivalCredit(c) \in Credit
    BY <2>1 DEF ArrivalCredit, Credit, Arrivals
  <2> QED BY <1>1, <1>3, <2>2
<1>4. ASSUME NEW c \in Calls, AdjustWrite(c),
             credits' = credits \cup {TillCredit(c)}
      PROVE  credits' \in SUBSET Credit /\ IsFiniteSet(credits')
  <2>1. /\ call[c].amount \in Nat \ {0} /\ call[c].kind = "adjust"
        /\ call[c].check \in Checks
    BY <1>4, CallType DEF AdjustWrite, StaffCall, KindInv
  <2>2. TillCredit(c) \in Credit
    BY <2>1 DEF TillCredit, Credit, Staff, Corr, Outcomes
  <2> QED BY <1>1, <1>4, <2>2
<1>5. ASSUME NEW x \in ActiveCredits,
             credits' = (credits \ {x}) \cup {Voided(x)}
      PROVE  credits' \in SUBSET Credit /\ IsFiniteSet(credits')
  <2>1. x \in Credit
    BY <1>0 DEF ActiveCredits
  <2>2. IsFiniteSet(credits \ {x})
    BY <1>0, FS_RemoveElement
  <2>3. Voided(x) \in Credit
    BY <2>1, VoidedIs
  <2>4. IsFiniteSet(credits')
    BY <1>5, <2>2, FS_AddElement
  <2> QED BY <1>0, <1>5, <2>3, <2>4
<1>6. ASSUME NEW vs \in SUBSET Credit, vs \subseteq credits,
             credits' = (credits \ vs) \cup TakenBack(vs)
      PROVE  credits' \in SUBSET Credit /\ IsFiniteSet(credits')
  <2> DEFINE f == [x \in vs |-> Voided(x)]
  <2>1. IsFiniteSet(vs) /\ IsFiniteSet(credits \ vs)
    BY <1>0, <1>6, FS_Subset
  <2>2. f \in Surjection(vs, TakenBack(vs))
    BY DEF Surjection, TakenBack
  <2>3. IsFiniteSet(TakenBack(vs))
    BY <2>1, <2>2, FS_Surjection
  <2>4. IsFiniteSet(credits')
    BY <1>6, <2>1, <2>3, FS_Union
  <2>5. TakenBack(vs) \in SUBSET Credit
    BY VoidedIs DEF TakenBack
  <2> QED BY <1>0, <1>6, <2>4, <2>5
<1>7. \A c \in Calls : call[c].voids \in SUBSET Credit
                       /\ call[c].voids \subseteq credits
  BY CallType DEF StaffCall, IInv, ControlInv, HeldInv, CreditRows
<1> QED BY <1>2, <1>3, <1>4, <1>5, <1>6, <1>7, CreditChanges

LEMMA RefundChanges ==
    ASSUME [Next]_vars
    PROVE  \/ UNCHANGED refunds
           \/ \E c \in Calls : RefundAsk(c)
<1>1. CASE \E g \in Guests : GuestStep(g)
  BY <1>1, GuestFrame
<1>2. CASE \E n \in Attempts : StripeStep(n)
  BY <1>2, StripeFrame
<1>3. ASSUME NEW c \in Calls, CallStep(c)
      PROVE  UNCHANGED refunds \/ RefundAsk(c)
  BY <1>3
     DEF CallStep, RecordRead, RecordWrite, CloseRead, CloseUpdate, ApplyRead,
         ApplyWrite, ArriveRead, ArriveWrite, AdjustRead, AdjustWrite,
         RefundRead, RefundRelease, RefundWrite, Abort, stripe
<1>4. CASE OtherStep
  BY <1>4, OtherFrame DEF stripe
<1>5. CASE UNCHANGED vars
  BY <1>5 DEF vars, stripe
<1> QED BY <1>1, <1>2, <1>3, <1>4, <1>5 DEF Next, OtherStep

\* The refund that a request asks for.
Wanted(c) == [key |-> <<c>>, corr |-> c, from |-> call[c].target,
              amount |-> call[c].amount]

LEMMA AskIs ==
    ASSUME IInv, NEW c \in Calls, RefundAsk(c)
    PROVE  /\ Wanted(c) \in StripeRefund
           /\ refunds' = refunds \cup {Wanted(c)}
           /\ Wanted(c) \in refunds \/ \A r \in refunds : r.corr # c
<1>1. call[c].target \in Attempts /\ call[c].amount \in Nat
  BY CallType DEF RefundAsk, KindInv, StaffCall, RefundSteps
<1>2. Wanted(c) \in StripeRefund
  BY <1>1 DEF Wanted, StripeRefund
<1>3. \/ Wanted(c) \in refunds /\ UNCHANGED refunds
      \/ /\ ~\E old \in refunds : old.key = <<c>>
         /\ refunds' = refunds \cup {Wanted(c)}
  BY DEF RefundAsk, RefundKey, Wanted
<1>4. (~\E old \in refunds : old.key = <<c>>) => \A r \in refunds : r.corr # c
  BY DEF IInv, ControlInv, KeysInv
<1> QED BY <1>2, <1>3, <1>4

LEMMA RefundsStep ==
    ASSUME IInv, [Next]_vars
    PROVE  /\ refunds' \in SUBSET StripeRefund
           /\ refunds \subseteq refunds'
           /\ KeysInv'
           /\ \A r, s \in refunds' : r.corr = s.corr => r = s
<1>0. /\ refunds \in SUBSET StripeRefund /\ KeysInv
      /\ \A r, s \in refunds : r.corr = s.corr => r = s
  <2>1. \A r \in refunds : r.corr \in Calls
    BY DEF IInv, TypeOK
  <2>2. \A c \in Calls : \A r, s \in {t \in refunds : t.corr = c} : r = s
    BY DEF IInv, ControlInv, RefundsOncePerRequest
  <2>3. \A r, s \in refunds : r.corr = s.corr => r = s
    BY <2>1, <2>2
  <2> QED BY <2>3 DEF IInv, ControlInv, RowsInv
<1>1. CASE UNCHANGED refunds
  BY <1>0, <1>1 DEF KeysInv
<1>2. ASSUME NEW c \in Calls, RefundAsk(c)
      PROVE  /\ refunds' \in SUBSET StripeRefund
             /\ refunds \subseteq refunds'
             /\ KeysInv'
             /\ \A r, s \in refunds' : r.corr = s.corr => r = s
  <2>1. /\ Wanted(c) \in StripeRefund
        /\ refunds' = refunds \cup {Wanted(c)}
        /\ Wanted(c) \in refunds \/ \A r \in refunds : r.corr # c
    BY <1>2, AskIs
  <2>2. Wanted(c).corr = c /\ Wanted(c).key = <<c>>
    BY DEF Wanted
  <2> QED BY <1>0, <2>1, <2>2 DEF KeysInv
<1> QED BY <1>1, <1>2, RefundChanges

LEMMA AskedStep ==
    ASSUME IInv, [Next]_vars
    PROVE  AskedInv'
<1>0. AskedInv /\ refunds \subseteq refunds'
  BY RefundsStep DEF IInv, ControlInv
<1>1. CASE UNCHANGED call
  BY <1>0, <1>1 DEF AskedInv
<1>2. ASSUME NEW c \in Calls, NEW k \in StaffCall, Moved(c, k)
      PROVE  AskedInv'
  <2>0. call'[c] = k /\ \A d \in Calls : d # c => call'[d] = call[d]
    BY <1>2, MovedIs
  <2>1. k.pc = "asked" => \E r \in refunds' : r.corr = c
    <3> HAVE k.pc = "asked"
    <3>1. refunds' = refunds \cup {Wanted(c)}
      BY <1>2, AskIs DEF Moved
    <3>2. Wanted(c) \in refunds' /\ Wanted(c).corr = c
      BY <3>1 DEF Wanted
    <3> QED BY <3>2
  <2> QED BY <1>0, <2>0, <2>1 DEF AskedInv
<1> QED BY <1>1, <1>2, OneMoves

LEMMA OncePerRequestStep ==
    ASSUME IInv, [Next]_vars
    PROVE  RefundsOncePerRequest'
<1> SUFFICES ASSUME NEW c \in Calls,
                    call'[c].kind = "providerRefund",
                    NEW r \in ledger', r.corr = Corr(c)'
             PROVE  \E q \in refunds' : q.corr = c
  <2>1. \A q, t \in refunds' : q.corr = t.corr => q = t
    BY RefundsStep
  <2> QED BY <2>1 DEF RefundsOncePerRequest, Exists
<1>0. /\ call[c].kind = "providerRefund"
      /\ Corr(c) = <<"call", c>> /\ r.corr = <<"call", c>>
  BY CallsStep DEF Corr, Outcomes
<1>1. refunds \subseteq refunds'
  BY RefundsStep
<1>2. CASE r \in ledger
  <2>1. {q \in refunds : q.corr = c} # {}
    BY <1>0, <1>2 DEF IInv, ControlInv, RefundsOncePerRequest, Exists
  <2> QED BY <1>1, <2>1
<1>3. ASSUME NEW n \in Attempts, r = CaptureRow(n) PROVE FALSE
  BY <1>0, <1>3 DEF CaptureRow
<1>4. ASSUME NEW d \in Calls, RecordWrite(d), r = Movement(d) PROVE FALSE
  <2>1. call[d].kind \in RecordTypes \cup Outcomes
    BY <1>4, CallType DEF RecordWrite, KindInv
  <2>2. Corr(d) = <<"call", c>>
    BY <1>0, <1>4, MovementType
  <2>3. d = c
    BY <2>2 DEF Corr
  <2> QED BY <1>0, <2>1, <2>3 DEF RecordTypes, Outcomes
<1>5. ASSUME NEW d \in Calls, RefundWrite(d), r = RefundRow(d)
      PROVE  \E q \in refunds' : q.corr = c
  <2>1. d = c
    BY <1>0, <1>5, RefundRowType
  <2> QED BY <1>1, <1>5, <2>1 DEF RefundWrite, IInv, ControlInv, AskedInv
<1> QED BY <1>2, <1>3, <1>4, <1>5, LedgerChanges

\* A request of staff makes a check payable again, or leaves it.
LEMMA CallBill ==
    ASSUME IInv, NEW c \in Calls, CallStep(c), NEW k \in Checks
    PROVE  bill'[k] \in {bill[k], "open"}
<1>0. bill \in [Checks -> {"open", "paid", "closed"}]
  BY DEF IInv, TypeOK
<1>1. \/ UNCHANGED bill
      \/ bill' = [bill EXCEPT ![call[c].check] = "open"]
  BY DEF CallStep, RecordRead, RecordWrite, CloseRead, CloseUpdate, ApplyRead,
         ApplyWrite, ArriveRead, ArriveWrite, AdjustRead, AdjustWrite,
         RefundRead, RefundRelease, RefundAsk, RefundWrite, Abort
<1> QED BY <1>0, <1>1

LEMMA BillChanges ==
    ASSUME IInv, [Next]_vars, NEW k \in Checks
    PROVE  \/ bill'[k] \in {bill[k], "open"}
           \/ ~CheckLocked(k) /\ UNCHANGED call
<1>0. bill \in [Checks -> {"open", "paid", "closed"}]
  BY DEF IInv, TypeOK
<1>1. CASE \E g \in Guests : GuestStep(g)
  BY <1>1, GuestFrame
<1>2. CASE \E n \in Attempts : StripeStep(n)
  BY <1>2, StripeFrame
<1>3. CASE \E c \in Calls : CallStep(c)
  BY <1>3, CallBill
<1>4. ASSUME NEW x \in ActiveCredits, VoidAdjustment(x)
      PROVE  bill'[k] \in {bill[k], "open"}
  BY <1>0, <1>4 DEF VoidAdjustment
<1>5. ASSUME NEW j \in Checks, BillStep(j)
      PROVE  \/ bill'[k] \in {bill[k], "open"}
             \/ ~CheckLocked(k) /\ UNCHANGED call
  <2>1. /\ ~CheckLocked(j) /\ UNCHANGED call
        /\ \E s \in {"paid", "closed"} : bill' = [bill EXCEPT ![j] = s]
    BY <1>5 DEF BillStep
  <2> QED BY <1>0, <2>1
<1>6. CASE CheckIn \/ \E r \in refunds \ bounced : RefundFails(r)
  BY <1>6 DEF CheckIn, RefundFails
<1>7. CASE UNCHANGED vars
  BY <1>7 DEF vars
<1> QED BY <1>1, <1>2, <1>3, <1>4, <1>5, <1>6, <1>7 DEF Next

\* Without the check's lock nothing is held.
LEMMA Unlocked ==
    ASSUME IInv, NEW c \in Calls, ~call[c].holds
    PROVE  call[c].voids = {}
  BY CallType DEF KindInv

\* Who holds a check holds one that there is.
LEMMA HeldCheck ==
    ASSUME IInv, NEW c \in Calls, HasCheck(call[c])
    PROVE  call[c].check \in Checks
  BY CallType DEF KindInv, HasCheck, RefundSteps

\* The request that takes a credit back holds the check, alone.
LEMMA TakesBack ==
    ASSUME IInv, NEW c \in Calls, RefundWrite(c), Releases(c)
    PROVE  /\ call[c].holds /\ call[c].check \in Checks
           /\ Mutable(call[c].check)
           /\ call[c].voids \subseteq CreditRows(call[c].check)
           /\ call'[c].voids = {} /\ ~call'[c].holds
           /\ \A d \in Calls : d # c =>
                 /\ call'[d] = call[d]
                 /\ ~(HasCheck(call[d]) /\ call[d].check = call[c].check)
                 /\ call[d].voids \cap call[c].voids = {}
<1>1. call[c].holds
  BY CallType DEF RefundWrite, Releases, KindInv
<1>2. /\ Mutable(call[c].check)
      /\ \A d \in Calls : call[d].voids \subseteq CreditRows(call[d].check)
  BY <1>1 DEF IInv, ControlInv, HeldInv
<1>3. \A d \in Calls : d # c =>
          ~(HasCheck(call[d]) /\ call[d].check = call[c].check)
  BY <1>1 DEF IInv, ControlInv, Exclusive, HasCheck
<1>4. call \in [Calls -> StaffCall]
  BY DEF IInv, ControlInv, RowsInv
<1>5. /\ call'[c].voids = {} /\ ~call'[c].holds
      /\ \A d \in Calls : d # c => call'[d] = call[d]
  BY <1>4 DEF RefundWrite, Done, StaffCall
<1>6. ASSUME NEW d \in Calls, d # c
      PROVE  call[d].voids \cap call[c].voids = {}
  <2>1. CASE ~call[d].holds
    BY <2>1, Unlocked
  <2>2. CASE call[d].check # call[c].check
    BY <1>2, <2>2 DEF CreditRows
  <2> QED BY <1>3, <1>6, <2>1, <2>2 DEF HasCheck
<1>7. call[c].check \in Checks
  BY <1>1, HeldCheck DEF HasCheck
<1> QED BY <1>1, <1>2, <1>3, <1>5, <1>6, <1>7

LEMMA HeldStep ==
    ASSUME IInv, [Next]_vars
    PROVE  HeldInv'
<1>0. HeldInv
  BY DEF IInv, ControlInv
<1>1. ASSUME NEW d \in Calls, call'[d].holds
      PROVE  bill'[call'[d].check] = "open"
  <2>1. CASE UNCHANGED call
    <3>1. /\ bill[call[d].check] = "open" /\ call[d].check \in Checks
          /\ CheckLocked(call[d].check)
      BY <1>0, <1>1, <2>1, HeldCheck
         DEF HeldInv, CheckLocked, HasCheck, Mutable
    <3> QED BY <2>1, <3>1, BillChanges
  <2>2. ASSUME NEW c \in Calls, NEW k \in StaffCall, CallStep(c), Moved(c, k)
        PROVE  bill'[call'[d].check] = "open"
    <3>1. call'[c] = k /\ (d # c => call'[d] = call[d])
      BY <2>2, MovedIs
    <3>2. bill[call'[d].check] = "open"
      BY <1>0, <1>1, <2>2, <3>1 DEF Moved, HeldInv, Mutable
    <3>3. KindInv(call'[d])
      BY CallsStep
    <3>4. call'[d].check \in Checks
      BY <1>1, <3>3 DEF KindInv, RefundSteps
    <3>5. bill'[call'[d].check] \in {bill[call'[d].check], "open"}
      BY <2>2, <3>4, CallBill
    <3> QED BY <3>2, <3>5
  <2> QED BY <2>1, <2>2, OneMoves
<1>2. ASSUME NEW d \in Calls
      PROVE  call'[d].voids \subseteq
                {x \in credits' : x.check = call'[d].check}
  <2>0. call[d].voids \subseteq {x \in credits : x.check = call[d].check}
    BY <1>0 DEF HeldInv, CreditRows
  <2>1. call'[d].voids \subseteq {x \in credits : x.check = call'[d].check}
    <3>1. CASE UNCHANGED call
      BY <2>0, <3>1
    <3>2. ASSUME NEW c \in Calls, NEW k \in StaffCall, Moved(c, k)
          PROVE  call'[d].voids \subseteq
                    {x \in credits : x.check = call'[d].check}
      <4>1. call'[c] = k /\ (d # c => call'[d] = call[d])
        BY <3>2, MovedIs
      <4>2. \/ k.voids = call[c].voids /\ k.check = call[c].check
            \/ k.voids = CreditsOn(k.check)
            \/ k.voids = {}
        BY <3>2 DEF Moved, KindInv
      <4>3. CASE d = c
        BY <2>0, <4>1, <4>2, <4>3 DEF CreditsOn, ActiveCredits
      <4> QED BY <2>0, <4>1, <4>3
    <3> QED BY <3>1, <3>2, OneMoves
  <2>2. CASE credits \subseteq credits'
    BY <2>1, <2>2
  <2>3. ASSUME NEW x \in ActiveCredits, VoidAdjustment(x),
               credits' = (credits \ {x}) \cup {Voided(x)}
        PROVE  x \notin call'[d].voids
    <3>1. UNCHANGED call /\ ~CheckLocked(x.check)
      BY <2>3 DEF VoidAdjustment
    <3>2. CASE call[d].holds
      BY <2>0, <3>1, <3>2 DEF CheckLocked
    <3>3. CASE ~call[d].holds
      BY <3>1, <3>3, Unlocked
    <3> QED BY <3>2, <3>3
  <2>4. ASSUME NEW c \in Calls, RefundWrite(c), Releases(c)
        PROVE  call'[d].voids \cap call[c].voids = {}
    <3>1. /\ call'[c].voids = {}
          /\ d # c => /\ call[d].voids \cap call[c].voids = {}
                      /\ call'[d] = call[d]
      BY <2>4, TakesBack
    <3> QED BY <3>1
  <2> QED BY <2>1, <2>2, <2>3, <2>4, CreditChanges
<1>3. \A d \in Calls : (CreditRows(call[d].check))' =
                          {x \in credits' : x.check = call'[d].check}
  BY DEF CreditRows
<1> QED BY <1>1, <1>2, <1>3 DEF HeldInv, Mutable

-----------------------------------------------------------------------------
(* The guests and the attempts *)

\* A guest's step that creates no session.
Browses(g) == GuestStart(g) \/ GuestLock(g) \/ GuestRetrieve(g) \/ GuestAbort(g)

LEMMA AtRestType == AtRest \in Request /\ AtRest.pc = "done"
  BY ReservationDepositAssumption DEF AtRest, Request

LEMMA GuestGotoMoves ==
    ASSUME IInv, NEW g \in Guests, NEW l \in {"lock", "create", "done"},
           GuestGoto(g, l)
    PROVE  \E r \in Request :
              /\ guest' = [guest EXCEPT ![g] = r] /\ r.pc = l
              /\ r.open = guest[g].open /\ r.amount = guest[g].amount
<1> DEFINE r == [guest[g] EXCEPT !.pc = l]
<1>1. guest[g] \in Request
  BY DEF IInv, ControlInv, RowsInv
<1>2. /\ r \in Request /\ r.pc = l
      /\ r.open = guest[g].open /\ r.amount = guest[g].amount
  BY <1>1 DEF Request
<1>3. guest' = [guest EXCEPT ![g] = r]
  BY DEF GuestGoto
<1> HIDE DEF r
<1> QED BY <1>2, <1>3

LEMMA OpenIn ==
    ASSUME IInv, OpenAttempts # {}
    PROVE  /\ Max(OpenAttempts) \in OpenAttempts
           /\ OpenAttempts \subseteq {Max(OpenAttempts)}
<1>1. OpenAttempts \in SUBSET Attempts
  BY DEF OpenAttempts
<1>2. Max(OpenAttempts) \in OpenAttempts
  BY <1>1, MaxIn, ReservationDepositAssumption DEF Attempts
<1>3. \A n, k \in OpenAttempts : n = k
  BY DEF IInv, ControlInv, OneOpenAttempt
<1> QED BY <1>2, <1>3

LEMMA BrowseMoves ==
    ASSUME IInv, NEW g \in Guests, Browses(g)
    PROVE  \E r \in Request :
              /\ guest' = [guest EXCEPT ![g] = r]
              /\ UNCHANGED <<attempt, session, lapsed>>
              /\ r.pc \in AtStripe =>
                   \/ /\ guest[g].pc \in AtStripe
                      /\ r.open = guest[g].open /\ r.amount = guest[g].amount
                   \/ /\ ~InCheckout(g) /\ r.amount > 0
                      /\ OpenAttempts \subseteq {r.open}
                      /\ r.open # 0 => attempt[r.open].state # "NONE"
<1>0. UNCHANGED <<attempt, session, lapsed>>
  BY DEF Browses, GuestStart, GuestLock, GuestRetrieve, GuestAbort, checkout,
         stripe
<1>1. CASE GuestStart(g)
  <2>1. PICK l \in {"lock", "done"} : GuestGoto(g, l)
    BY <1>1 DEF GuestStart
  <2> QED BY <1>0, <2>1, GuestGotoMoves DEF AtStripe
<1>2. CASE GuestRetrieve(g)
  <2>1. PICK l \in {"create", "done"} : GuestGoto(g, l)
    BY <1>2 DEF GuestRetrieve
  <2>2. guest[g].pc \in AtStripe
    BY <1>2 DEF GuestRetrieve, AtStripe
  <2> QED BY <1>0, <2>1, <2>2, GuestGotoMoves
<1>3. CASE guest' = [guest EXCEPT ![g] = AtRest]
  BY <1>0, <1>3, AtRestType DEF AtStripe
<1>4. CASE GuestLock(g) /\ ~(guest' = [guest EXCEPT ![g] = AtRest])
  <2> DEFINE remaining == AtLeastZero(Required - Balance)
  <2>1. remaining \in Nat
    <3>1. Balance \in Int
      BY SumType DEF Balance, IInv, ControlInv, RowsInv, LedgerRow, Rows
    <3> QED BY <3>1, ReservationDepositAssumption DEF AtLeastZero
  <2>2. /\ ~InCheckout(g) /\ remaining # 0
        /\ guest' = [guest EXCEPT ![g] =
             IF OpenAttempts = {}
             THEN [pc |-> "create", open |-> 0, amount |-> remaining]
             ELSE [pc |-> "retrieve", open |-> Max(OpenAttempts),
                   amount |-> remaining]]
    BY <1>4 DEF GuestLock
  <2> HIDE DEF remaining
  <2>3. CASE OpenAttempts = {}
    <3> DEFINE r == [pc |-> "create", open |-> 0, amount |-> remaining]
    <3>1. /\ guest' = [guest EXCEPT ![g] = r]
          /\ r \in Request /\ r.open = 0 /\ r.amount = remaining
      BY <2>1, <2>2, <2>3, ReservationDepositAssumption DEF Request
    <3> HIDE DEF r
    <3>2. /\ r.amount > 0 /\ OpenAttempts \subseteq {r.open}
          /\ r.open # 0 => attempt[r.open].state # "NONE"
      BY <2>1, <2>2, <2>3, <3>1
    <3> QED BY <1>0, <2>2, <3>1, <3>2
  <2>4. CASE OpenAttempts # {}
    <3> DEFINE r == [pc |-> "retrieve", open |-> Max(OpenAttempts),
                     amount |-> remaining]
    <3>1. /\ Max(OpenAttempts) \in OpenAttempts
          /\ OpenAttempts \subseteq {Max(OpenAttempts)}
      BY <2>4, OpenIn
    <3>2. /\ Max(OpenAttempts) \in 0..MaxAttempts
          /\ attempt[Max(OpenAttempts)].state # "NONE"
      BY <3>1, ReservationDepositAssumption DEF OpenAttempts, Attempts
    <3>3. /\ guest' = [guest EXCEPT ![g] = r]
          /\ r \in Request /\ r.open = Max(OpenAttempts)
          /\ r.amount = remaining
      BY <2>1, <2>2, <2>4, <3>2 DEF Request
    <3> HIDE DEF r
    <3>4. /\ r.amount > 0 /\ OpenAttempts \subseteq {r.open}
          /\ r.open # 0 => attempt[r.open].state # "NONE"
      BY <2>1, <2>2, <3>1, <3>2, <3>3
    <3> QED BY <1>0, <2>2, <3>3, <3>4
  <2> QED BY <2>3, <2>4
<1> QED BY <1>1, <1>2, <1>3, <1>4 DEF Browses, GuestAbort

AttemptType == [state : States, amount : Nat]

\* A new session is of an attempt that was none, and expires the open one.
LEMMA CreateIs ==
    ASSUME IInv, NEW g \in Guests, GuestCreate(g)
    PROVE  \E new \in Attempts :
              /\ attempt[new].state = "NONE" /\ new # guest[g].open
              /\ attempt' \in [Attempts -> AttemptType]
              /\ attempt'[new] = [state |-> "OPEN", amount |-> guest[g].amount]
              /\ \A n \in Attempts \ {new} :
                    /\ attempt'[n].amount = attempt[n].amount
                    /\ attempt'[n].state =
                         IF n = guest[g].open THEN "EXPIRED"
                         ELSE attempt[n].state
              /\ session' = [session EXCEPT ![new] = "open"]
              /\ guest' = [guest EXCEPT ![g] = AtRest]
              /\ UNCHANGED lapsed /\ guest[g].pc = "create"
<1> DEFINE open == guest[g].open
           unused == {n \in Attempts : attempt[n].state = "NONE"}
           new == Min(unused)
           expired == IF open = 0 THEN attempt
                      ELSE [attempt EXCEPT ![open].state = "EXPIRED"]
           row == [state |-> "OPEN", amount |-> guest[g].amount]
<1>0. /\ guest[g].pc = "create" /\ unused # {}
      /\ attempt' = [expired EXCEPT ![new] = row]
      /\ session' = [session EXCEPT ![new] = "open"]
      /\ guest' = [guest EXCEPT ![g] = AtRest]
      /\ UNCHANGED lapsed
  BY DEF GuestCreate
<1>1. new \in unused
  BY <1>0, MinIn
<1>2. /\ attempt \in [Attempts -> AttemptType]
      /\ open \in 0..MaxAttempts /\ guest[g].amount \in Nat
      /\ open # 0 => attempt[open].state # "NONE"
  BY <1>0 DEF IInv, TypeOK, AttemptType, ControlInv, GuestInv, AtStripe
<1>3. new \in Attempts /\ attempt[new].state = "NONE" /\ new # open
  <2>1. new \in Attempts /\ attempt[new].state = "NONE"
    BY <1>1
  <2>2. new # 0
    BY <2>1, ReservationDepositAssumption DEF Attempts
  <2> HIDE DEF new, open
  <2> QED BY <1>2, <2>1, <2>2
<1>4. /\ expired \in [Attempts -> AttemptType]
      /\ \A n \in Attempts : /\ expired[n].amount = attempt[n].amount
                             /\ expired[n].state = IF n = open THEN "EXPIRED"
                                                   ELSE attempt[n].state
  <2>1. CASE open = 0
    <3>1. \A n \in Attempts : n # open
      BY <2>1, ReservationDepositAssumption DEF Attempts
    <3> QED BY <1>2, <2>1, <3>1
  <2>2. CASE open # 0
    <3>1. open \in Attempts
      BY <1>2, <2>2, ReservationDepositAssumption DEF Attempts
    <3> DEFINE ex == [attempt[open] EXCEPT !.state = "EXPIRED"]
    <3>2. ex \in AttemptType /\ ex.state = "EXPIRED"
          /\ ex.amount = attempt[open].amount
      BY <1>2, <3>1 DEF AttemptType, States
    <3>3. expired = [attempt EXCEPT ![open] = ex]
      BY <2>2
    <3> HIDE DEF ex, expired, open
    <3> QED BY <1>2, <3>1, <3>2, <3>3
  <2> QED BY <2>1, <2>2
<1>5. row \in AttemptType
  BY <1>2 DEF AttemptType, States
<1> HIDE DEF new, open, expired, unused
<1>6. /\ attempt' \in [Attempts -> AttemptType] /\ attempt'[new] = row
      /\ \A n \in Attempts \ {new} : attempt'[n] = expired[n]
  BY <1>0, <1>3, <1>4, <1>5
<1> QED BY <1>0, <1>3, <1>4, <1>6 DEF open

SessionStates == {"none", "open", "processing", "paid", "failed", "differs",
                  "expired"}

\* What a step makes of an attempt and its session.
Ages(n) ==
    /\ attempt[n].state # "NONE" =>
         attempt'[n].state # "NONE" /\ attempt'[n].amount = attempt[n].amount
    /\ session[n] = "paid" => session'[n] = "paid"
    /\ attempt'[n].state = "NONE" => session'[n] = "none"
    /\ attempt'[n].state # "NONE" => attempt'[n].amount > 0
    /\ attempt'[n].state = "SUCCEEDED" =>
         attempt[n].state = "SUCCEEDED" \/ Exists(ledger', <<"checkout", n>>)
    /\ attempt'[n].state = "SUCCEEDED" => session'[n] = "paid"
    /\ n \in lapsed => n \in lapsed'
    /\ attempt'[n].state = "OPEN" =>
         attempt[n].state = "OPEN" \/ \E g \in Guests : GuestCreate(g)

AttemptTypes ==
    /\ attempt \in [Attempts -> AttemptType]
    /\ session \in [Attempts -> SessionStates] /\ lapsed \subseteq Attempts

LEMMA AttemptFacts ==
    ASSUME IInv
    PROVE  /\ AttemptTypes
           /\ \A n \in Attempts :
                /\ attempt[n].state = "NONE" => session[n] = "none"
                /\ attempt[n].state # "NONE" => attempt[n].amount > 0
                /\ attempt[n].state = "SUCCEEDED" => session[n] = "paid"
  BY DEF IInv, TypeOK, AttemptTypes, AttemptType, SessionStates, ControlInv,
         AttemptInv

LEMMA CreateAges ==
    ASSUME IInv, NEW g \in Guests, GuestCreate(g)
    PROVE  AttemptTypes' /\ \A n \in Attempts : Ages(n)
<1>0. /\ AttemptTypes
      /\ \A n \in Attempts :
           /\ attempt[n].state = "NONE" => session[n] = "none"
           /\ attempt[n].state # "NONE" => attempt[n].amount > 0
           /\ attempt[n].state = "SUCCEEDED" => session[n] = "paid"
  BY AttemptFacts
<1>1. PICK new \in Attempts :
              /\ attempt[new].state = "NONE" /\ new # guest[g].open
              /\ attempt' \in [Attempts -> AttemptType]
              /\ attempt'[new] = [state |-> "OPEN", amount |-> guest[g].amount]
              /\ \A n \in Attempts \ {new} :
                    /\ attempt'[n].amount = attempt[n].amount
                    /\ attempt'[n].state =
                         IF n = guest[g].open THEN "EXPIRED"
                         ELSE attempt[n].state
              /\ session' = [session EXCEPT ![new] = "open"]
              /\ UNCHANGED lapsed /\ guest[g].pc = "create"
  BY CreateIs
<1>2. guest[g].amount > 0
      /\ (guest[g].open # 0 => attempt[guest[g].open].state # "NONE")
  BY <1>1 DEF IInv, ControlInv, GuestInv, AtStripe
<1>3. \A n \in Attempts : n # 0
  BY ReservationDepositAssumption DEF Attempts
<1>4. AttemptTypes'
  BY <1>0, <1>1 DEF AttemptTypes, SessionStates
<1>5. session \in [Attempts -> SessionStates]
  BY <1>0 DEF AttemptTypes
<1>6. Ages(new)
  <2>1. session[new] = "none" /\ session'[new] = "open"
    BY <1>0, <1>1, <1>5
  <2>2. attempt'[new].state = "OPEN" /\ attempt'[new].amount = guest[g].amount
    BY <1>1
  <2> QED BY <1>1, <1>2, <2>1, <2>2 DEF Ages
<1>7. ASSUME NEW n \in Attempts, n # new PROVE Ages(n)
  <2>1. session'[n] = session[n]
    BY <1>1, <1>5, <1>7
  <2>2. /\ attempt'[n].amount = attempt[n].amount
        /\ attempt'[n].state = IF n = guest[g].open THEN "EXPIRED"
                               ELSE attempt[n].state
    BY <1>1, <1>7
  <2>3. n = guest[g].open => attempt[n].state # "NONE"
    BY <1>2, <1>3
  <2> QED BY <1>0, <1>1, <2>1, <2>2, <2>3 DEF Ages
<1> QED BY <1>4, <1>6, <1>7

LEMMA StripeAges ==
    ASSUME IInv, NEW m \in Attempts, StripeStep(m)
    PROVE  AttemptTypes' /\ \A n \in Attempts : Ages(n)
<1>0. /\ attempt \in [Attempts -> AttemptType]
      /\ session \in [Attempts -> SessionStates] /\ lapsed \subseteq Attempts
      /\ \A n \in Attempts :
           /\ attempt[n].state = "NONE" => session[n] = "none"
           /\ attempt[n].state # "NONE" => attempt[n].amount > 0
           /\ attempt[n].state = "SUCCEEDED" => session[n] = "paid"
  BY AttemptFacts DEF AttemptTypes
<1>1. ASSUME NEW v \in SessionStates, session[m] # "none", session[m] # "paid",
             session' = [session EXCEPT ![m] = v], UNCHANGED attempt,
             lapsed \subseteq lapsed', lapsed' \subseteq Attempts
      PROVE  AttemptTypes' /\ \A n \in Attempts : Ages(n)
  <2>1. AttemptTypes'
    BY <1>0, <1>1 DEF AttemptTypes
  <2>2. ASSUME NEW n \in Attempts PROVE Ages(n)
    BY <1>0, <1>1 DEF Ages
  <2> QED BY <2>1, <2>2
<1>2. CASE Pay(m) \/ PayLater(m)
  <2>1. PICK v \in SessionStates : session' = [session EXCEPT ![m] = v]
    BY <1>2 DEF Pay, PayLater, SessionStates
  <2>2. session[m] \in {"open", "processing"} /\ UNCHANGED <<attempt, lapsed>>
    BY <1>2 DEF Pay, PayLater, checkout
  <2> QED BY <1>0, <1>1, <2>1, <2>2
<1>3. CASE Lapse(m)
  <2>0. /\ attempt[m].state # "NONE" /\ lapsed' = lapsed \cup {m}
        /\ session' = [session EXCEPT ![m] =
              IF @ = "open" THEN "expired" ELSE @]
        /\ UNCHANGED attempt
    BY <1>3 DEF Lapse, checkout
  <2>1. CASE session[m] = "open"
    BY <1>0, <1>1, <2>0, <2>1 DEF SessionStates
  <2>2. CASE session[m] # "open"
    <3>1. session' = session
      BY <1>0, <2>0, <2>2
    <3>2. AttemptTypes'
      BY <1>0, <2>0, <3>1 DEF AttemptTypes
    <3>3. ASSUME NEW n \in Attempts PROVE Ages(n)
      BY <1>0, <2>0, <3>1 DEF Ages
    <3> QED BY <3>2, <3>3
  <2> QED BY <2>1, <2>2
<1>4. ASSUME NEW st \in States \ {"NONE", "OPEN"}, attempt[m].state # "NONE",
             attempt' = [attempt EXCEPT ![m].state = st],
             UNCHANGED <<session, lapsed>>,
             st = "SUCCEEDED" => /\ session[m] = "paid"
                                 /\ \/ attempt[m].state = "SUCCEEDED"
                                    \/ Exists(ledger', <<"checkout", m>>)
      PROVE  AttemptTypes' /\ \A n \in Attempts : Ages(n)
  <2> DEFINE row == [attempt[m] EXCEPT !.state = st]
  <2>1. /\ row \in AttemptType /\ row.state = st
        /\ row.amount = attempt[m].amount
    BY <1>0 DEF AttemptType
  <2>2. attempt' = [attempt EXCEPT ![m] = row]
    BY <1>4
  <2> HIDE DEF row
  <2>3. AttemptTypes'
    BY <1>0, <1>4, <2>1, <2>2 DEF AttemptTypes
  <2>4. ASSUME NEW n \in Attempts, n # m PROVE Ages(n)
    <3>1. attempt'[n] = attempt[n]
      BY <1>0, <2>2, <2>4
    <3> QED BY <1>0, <1>4, <3>1 DEF Ages
  <2>5. Ages(m)
    <3>1. attempt'[m] = row
      BY <1>0, <2>2
    <3> QED BY <1>0, <1>4, <2>1, <3>1 DEF Ages
  <2> QED BY <2>3, <2>4, <2>5
<1>5. CASE CaptureSucceededSession(m)
  <2>0. session[m] \in {"paid", "differs"} /\ UNCHANGED <<session, lapsed>>
    BY <1>5 DEF CaptureSucceededSession, stripe
  <2>1. attempt[m].state # "NONE"
    BY <1>0, <2>0
  <2>2. CASE AmountMatches(m)
    <3>1. /\ attempt' = [attempt EXCEPT ![m].state = "SUCCEEDED"]
          /\ ledger' = IF Exists(ledger, <<"checkout", m>>) THEN ledger
                       ELSE ledger \cup {CaptureRow(m)}
      BY <1>5, <2>2 DEF CaptureSucceededSession, CaptureRow
    <3>2. CaptureRow(m).corr = <<"checkout", m>>
      BY DEF CaptureRow
    <3>3. Exists(ledger', <<"checkout", m>>)
      BY <3>1, <3>2 DEF Exists
    <3> QED BY <1>4, <2>0, <2>1, <2>2, <3>1, <3>3 DEF AmountMatches, States
  <2>3. CASE ~AmountMatches(m)
    <3>1. attempt' = [attempt EXCEPT ![m].state = "PROVIDER_MISMATCH"]
      BY <1>5, <2>3 DEF CaptureSucceededSession
    <3> QED BY <1>4, <2>0, <2>1, <3>1 DEF States
  <2> QED BY <2>2, <2>3
<1>6. CASE MarkProviderTerminal(m)
  <2>0. session[m] \in {"expired", "failed"} /\ UNCHANGED <<session, lapsed>>
    BY <1>6 DEF MarkProviderTerminal, stripe
  <2>1. attempt[m].state # "NONE"
    BY <1>0, <2>0
  <2>2. PICK st \in {"EXPIRED", "FAILED"} :
           attempt' = [attempt EXCEPT ![m].state = st]
    BY <1>6 DEF MarkProviderTerminal
  <2> QED BY <1>4, <2>0, <2>1, <2>2 DEF States
<1> QED BY <1>2, <1>3, <1>5, <1>6 DEF StripeStep

LEMMA AttemptsStep ==
    ASSUME IInv, [Next]_vars
    PROVE  AttemptTypes' /\ \A n \in Attempts : Ages(n)
<1>1. ASSUME UNCHANGED <<attempt, session, lapsed>>
      PROVE  AttemptTypes' /\ \A n \in Attempts : Ages(n)
  <2>1. AttemptTypes'
    BY <1>1, AttemptFacts DEF AttemptTypes
  <2> QED BY <1>1, <2>1, AttemptFacts DEF Ages
<1>2. ASSUME NEW g \in Guests, GuestStep(g)
      PROVE  AttemptTypes' /\ \A n \in Attempts : Ages(n)
  BY <1>1, <1>2, BrowseMoves, CreateAges DEF GuestStep, Browses
<1>3. CASE \E n \in Attempts : StripeStep(n)
  BY <1>3, StripeAges
<1>4. CASE \E c \in Calls : CallStep(c)
  BY <1>1, <1>4, CallFrame DEF checkout
<1>5. CASE OtherStep
  BY <1>1, <1>5, OtherFrame DEF checkout, stripe
<1>6. CASE UNCHANGED vars
  BY <1>1, <1>6 DEF vars, checkout, stripe
<1> QED BY <1>2, <1>3, <1>4, <1>5, <1>6 DEF Next, OtherStep

\* Only a new session opens an attempt, and its checkout was the only one.
LEMMA OpenStep ==
    ASSUME IInv, [Next]_vars
    PROVE  \/ OpenAttempts' \subseteq OpenAttempts
           \/ \E g \in Guests :
                 /\ GuestCreate(g)
                 /\ \E n \in Attempts : OpenAttempts' \subseteq {n}
<1>1. ASSUME NEW g \in Guests, GuestCreate(g)
      PROVE  \E n \in Attempts : OpenAttempts' \subseteq {n}
  <2>1. PICK new \in Attempts :
              /\ attempt[new].state = "NONE" /\ new # guest[g].open
              /\ attempt' \in [Attempts -> AttemptType]
              /\ attempt'[new] = [state |-> "OPEN", amount |-> guest[g].amount]
              /\ \A n \in Attempts \ {new} :
                    /\ attempt'[n].amount = attempt[n].amount
                    /\ attempt'[n].state =
                         IF n = guest[g].open THEN "EXPIRED"
                         ELSE attempt[n].state
              /\ session' = [session EXCEPT ![new] = "open"]
              /\ UNCHANGED lapsed /\ guest[g].pc = "create"
    BY <1>1, CreateIs
  <2>2. OpenAttempts \subseteq {guest[g].open}
    BY <2>1 DEF IInv, ControlInv, GuestInv, AtStripe
  <2>3. ASSUME NEW n \in OpenAttempts', n # new PROVE FALSE
    <3>1. n \in Attempts \ lapsed /\ attempt'[n].state = "OPEN"
      BY <2>1, <2>3 DEF OpenAttempts
    <3>2. attempt[n].state = "OPEN" /\ n # guest[g].open
      BY <2>1, <2>3, <3>1
    <3> QED BY <2>2, <3>1, <3>2 DEF OpenAttempts
  <2>4. OpenAttempts' \subseteq {new}
    BY <2>3
  <2> QED BY <2>4
<1>2. CASE ~\E g \in Guests : GuestCreate(g)
  BY <1>2, AttemptsStep DEF Ages, OpenAttempts
<1> QED BY <1>1, <1>2

LEMMA GuestsStep ==
    ASSUME IInv, [Next]_vars
    PROVE  /\ guest' \in [Guests -> Request]
           /\ GuestInv' /\ OneOpenAttempt'
<1>0. /\ guest \in [Guests -> Request]
      /\ \A g, h \in Guests :
           guest[g].pc \in AtStripe /\ guest[h].pc \in AtStripe => g = h
      /\ \A g \in Guests : guest[g].pc \in AtStripe =>
           /\ guest[g].amount > 0 /\ OpenAttempts \subseteq {guest[g].open}
           /\ guest[g].open # 0 => attempt[guest[g].open].state # "NONE"
      /\ OneOpenAttempt
  BY DEF IInv, ControlInv, RowsInv, GuestInv
<1>1. OneOpenAttempt'
  BY <1>0, OpenStep DEF OneOpenAttempt
<1>2. ASSUME NEW g \in Guests, GuestCreate(g)
      PROVE  guest' \in [Guests -> Request] /\ GuestInv'
  <2>1. guest' = [guest EXCEPT ![g] = AtRest] /\ guest[g].pc = "create"
    BY <1>2 DEF GuestCreate
  <2>2. guest' \in [Guests -> Request]
    BY <1>0, <2>1, AtRestType
  <2>3. \A h \in Guests : guest'[h].pc \notin AtStripe
    BY <1>0, <2>1, AtRestType DEF AtStripe
  <2> QED BY <2>2, <2>3 DEF GuestInv
<1>3. ASSUME NEW g \in Guests, Browses(g)
      PROVE  guest' \in [Guests -> Request] /\ GuestInv'
  <2>1. PICK r \in Request :
              /\ guest' = [guest EXCEPT ![g] = r]
              /\ UNCHANGED <<attempt, session, lapsed>>
              /\ r.pc \in AtStripe =>
                   \/ /\ guest[g].pc \in AtStripe
                      /\ r.open = guest[g].open /\ r.amount = guest[g].amount
                   \/ /\ ~InCheckout(g) /\ r.amount > 0
                      /\ OpenAttempts \subseteq {r.open}
                      /\ r.open # 0 => attempt[r.open].state # "NONE"
    BY <1>3, BrowseMoves
  <2>2. /\ guest' \in [Guests -> Request] /\ guest'[g] = r
        /\ \A h \in Guests : h # g => guest'[h] = guest[h]
    BY <1>0, <2>1
  <2>3. r.pc \in AtStripe =>
          \A h \in Guests : h # g => guest[h].pc \notin AtStripe
    BY <1>0, <2>1 DEF InCheckout, AtStripe
  <2>4. r.pc \in AtStripe =>
          /\ r.amount > 0 /\ OpenAttempts \subseteq {r.open}
          /\ r.open # 0 => attempt[r.open].state # "NONE"
    BY <1>0, <2>1
  <2>5. OpenAttempts' = OpenAttempts
    BY <2>1 DEF OpenAttempts
  <2>6. \A h, i \in Guests :
           guest'[h].pc \in AtStripe /\ guest'[i].pc \in AtStripe => h = i
    BY <1>0, <2>2, <2>3
  <2>7. \A h \in Guests : guest'[h].pc \in AtStripe =>
           /\ guest'[h].amount > 0 /\ OpenAttempts' \subseteq {guest'[h].open}
           /\ guest'[h].open # 0 => attempt'[guest'[h].open].state # "NONE"
    BY <1>0, <2>1, <2>2, <2>4, <2>5
  <2> QED BY <2>2, <2>6, <2>7 DEF GuestInv
<1>4. ASSUME UNCHANGED guest, ~\E g \in Guests : GuestCreate(g)
      PROVE  guest' \in [Guests -> Request] /\ GuestInv'
  <2>1. OpenAttempts' \subseteq OpenAttempts
    BY <1>4, OpenStep
  <2>2. \A g \in Guests :
           guest[g].open # 0 /\ attempt[guest[g].open].state # "NONE" =>
              attempt'[guest[g].open].state # "NONE"
    <3> TAKE g \in Guests
    <3>1. guest[g].open # 0 => guest[g].open \in Attempts
      BY <1>0, ReservationDepositAssumption DEF Request, Attempts
    <3> QED BY <3>1, AttemptsStep DEF Ages
  <2> QED BY <1>0, <1>4, <2>1, <2>2 DEF GuestInv
<1>5. UNCHANGED guest \/ \E g \in Guests : Browses(g) \/ GuestCreate(g)
  <2>1. CASE \E g \in Guests : GuestStep(g)
    BY <2>1 DEF GuestStep, Browses
  <2>2. CASE \E n \in Attempts : StripeStep(n)
    BY <2>2, StripeFrame
  <2>3. CASE \E c \in Calls : CallStep(c)
    BY <2>3, CallFrame
  <2>4. CASE OtherStep
    BY <2>4, OtherFrame
  <2>5. CASE UNCHANGED vars
    BY <2>5 DEF vars
  <2> QED BY <2>1, <2>2, <2>3, <2>4, <2>5 DEF Next, OtherStep
<1> QED BY <1>1, <1>2, <1>3, <1>4, <1>5

LEMMA LedgerGrows ==
    ASSUME [Next]_vars
    PROVE  ledger \subseteq ledger'
  BY LedgerChanges

LEMMA AttemptStep ==
    ASSUME IInv, [Next]_vars
    PROVE  AttemptInv' /\ CapturesWerePaid'
<1>0. AttemptInv /\ CapturesWerePaid /\ ledger \in SUBSET LedgerRow
  BY DEF IInv, ControlInv, RowsInv
<1>1. AttemptInv'
  <2> SUFFICES ASSUME NEW n \in Attempts
               PROVE  /\ attempt'[n].state = "NONE" => session'[n] = "none"
                      /\ attempt'[n].state # "NONE" => attempt'[n].amount > 0
                      /\ attempt'[n].state = "SUCCEEDED" =>
                           /\ session'[n] = "paid"
                           /\ Exists(ledger', <<"checkout", n>>)
    BY DEF AttemptInv
  <2>1. Ages(n)
    BY AttemptsStep
  <2>2. attempt[n].state = "SUCCEEDED" => Exists(ledger', <<"checkout", n>>)
    BY <1>0, LedgerGrows DEF AttemptInv, Exists
  <2> QED BY <2>1, <2>2 DEF Ages
<1>2. ASSUME NEW r \in ledger', r.corr[1] = "checkout"
      PROVE  /\ session'[r.corr[2]] = "paid"
             /\ r.amount = attempt'[r.corr[2]].amount
  <2>1. CASE r \in ledger
    <3>1. r.corr \in Corrs
      BY <1>0, <2>1 DEF LedgerRow
    <3>2. r.corr[2] \in Attempts
      BY <1>2, <3>1 DEF Corrs, Staff
    <3>3. session[r.corr[2]] = "paid" /\ r.amount = attempt[r.corr[2]].amount
      BY <1>0, <1>2, <2>1 DEF CapturesWerePaid
    <3>4. attempt[r.corr[2]].state # "NONE"
      BY <1>0, <3>2, <3>3 DEF AttemptInv
    <3> QED BY <3>2, <3>3, <3>4, AttemptsStep DEF Ages
  <2>2. ASSUME NEW n \in Attempts, AmountMatches(n), r = CaptureRow(n)
        PROVE  /\ session'[r.corr[2]] = "paid"
               /\ r.amount = attempt'[r.corr[2]].amount
    <3>1. r.corr[2] = n /\ r.amount = attempt[n].amount
      BY <2>2 DEF CaptureRow
    <3>2. session[n] = "paid" /\ attempt[n].state # "NONE"
      BY <1>0, <2>2 DEF AmountMatches, AttemptInv
    <3> QED BY <3>1, <3>2, AttemptsStep DEF Ages
  <2>3. ASSUME NEW c \in Calls, RecordWrite(c), r = Movement(c)
        PROVE  FALSE
    <3>1. r.corr = Corr(c)
      BY <2>3, MovementType
    <3> QED BY <1>2, <3>1 DEF Corr
  <2>4. ASSUME NEW c \in Calls, RefundWrite(c), r = RefundRow(c)
        PROVE  FALSE
    <3>1. r.corr = <<"call", c>>
      BY <2>4, RefundRowType
    <3> QED BY <1>2, <3>1
  <2> QED BY <2>1, <2>2, <2>3, <2>4, LedgerChanges
<1> QED BY <1>1, <1>2 DEF CapturesWerePaid

-----------------------------------------------------------------------------
(* Everything but the sums *)

LEMMA StatusType ==
    ASSUME IInv, [Next]_vars
    PROVE  status' \in Active \cup Outcomes
<1>0. status \in Active \cup Outcomes
  BY DEF IInv, TypeOK
<1>1. CASE \E g \in Guests : GuestStep(g)
  BY <1>0, <1>1, GuestFrame
<1>2. CASE \E n \in Attempts : StripeStep(n)
  BY <1>0, <1>2, StripeFrame
<1>3. ASSUME NEW c \in Calls, CallStep(c)
      PROVE  status' \in Active \cup Outcomes
  <2>1. CASE CloseUpdate(c)
    <3>1. call[c].kind \in Outcomes
      BY <2>1, CallType DEF CloseUpdate, KindInv
    <3> QED BY <2>1, <3>1 DEF CloseUpdate
  <2>2. CASE ArriveWrite(c)
    BY <2>2 DEF ArriveWrite, Active
  <2> QED BY <1>0, <1>3, <2>1, <2>2
     DEF CallStep, RecordRead, RecordWrite, CloseRead, ApplyRead, ApplyWrite,
         ArriveRead, AdjustRead, AdjustWrite, RefundRead, RefundRelease,
         RefundAsk, RefundWrite, Abort
<1>4. CASE OtherStep
  BY <1>0, <1>4
     DEF OtherStep, VoidAdjustment, CheckIn, BillStep, RefundFails, Active
<1>5. CASE UNCHANGED vars
  BY <1>0, <1>5 DEF vars
<1> QED BY <1>1, <1>2, <1>3, <1>4, <1>5 DEF Next, OtherStep

LEMMA BillType ==
    ASSUME IInv, [Next]_vars
    PROVE  bill' \in [Checks -> {"open", "paid", "closed"}]
<1>0. bill \in [Checks -> {"open", "paid", "closed"}]
  BY DEF IInv, TypeOK
<1>1. CASE UNCHANGED bill
  BY <1>0, <1>1
<1>2. ASSUME NEW k, NEW s \in {"open", "paid", "closed"},
             bill' = [bill EXCEPT ![k] = s]
      PROVE  bill' \in [Checks -> {"open", "paid", "closed"}]
  BY <1>0, <1>2
<1>3. CASE OtherStep
  BY <1>1, <1>2, <1>3
     DEF OtherStep, VoidAdjustment, CheckIn, BillStep, RefundFails
<1>4. CASE \E g \in Guests : GuestStep(g)
  BY <1>1, <1>4, GuestFrame
<1>5. CASE \E n \in Attempts : StripeStep(n)
  BY <1>1, <1>5, StripeFrame
<1>6. CASE \E c \in Calls : CallStep(c)
  BY <1>1, <1>2, <1>6
     DEF CallStep, RecordRead, RecordWrite, CloseRead, CloseUpdate, ApplyRead,
         ApplyWrite, ArriveRead, ArriveWrite, AdjustRead, AdjustWrite,
         RefundRead, RefundRelease, RefundAsk, RefundWrite, Abort
<1>7. CASE UNCHANGED vars
  BY <1>1, <1>7 DEF vars
<1> QED BY <1>3, <1>4, <1>5, <1>6, <1>7 DEF Next, OtherStep

LEMMA BouncedType ==
    ASSUME IInv, [Next]_vars
    PROVE  bounced' \subseteq refunds'
<1>0. bounced \subseteq refunds /\ refunds \subseteq refunds'
  BY RefundsStep DEF IInv, TypeOK
<1>1. CASE \E g \in Guests : GuestStep(g)
  BY <1>0, <1>1, GuestFrame
<1>2. CASE \E n \in Attempts : StripeStep(n)
  BY <1>0, <1>2, StripeFrame
<1>3. CASE \E c \in Calls : CallStep(c)
  BY <1>0, <1>3, CallFrame
<1>4. CASE OtherStep
  BY <1>0, <1>4
     DEF OtherStep, VoidAdjustment, CheckIn, BillStep, RefundFails, stripe
<1>5. CASE UNCHANGED vars
  BY <1>0, <1>5 DEF vars, stripe
<1> QED BY <1>1, <1>2, <1>3, <1>4, <1>5 DEF Next, OtherStep

LEMMA SucceededType ==
    ASSUME IInv, [Next]_vars
    PROVE  succeeded' \in Seq(Attempts)
<1>0. succeeded \in Seq(Attempts)
  BY DEF IInv, TypeOK
<1>1. CASE \E g \in Guests : GuestStep(g)
  BY <1>0, <1>1, GuestFrame
<1>2. ASSUME NEW n \in Attempts, StripeStep(n)
      PROVE  succeeded' \in Seq(Attempts)
  <2>1. succeeded' = succeeded \/ succeeded' = Append(succeeded, n)
    BY <1>2 DEF StripeStep, Pay, PayLater, Lapse, CaptureSucceededSession,
                MarkProviderTerminal, checkout
  <2> QED BY <1>0, <2>1, AppendProperties
<1>3. CASE \E c \in Calls : CallStep(c)
  BY <1>0, <1>3, CallFrame DEF checkout
<1>4. CASE OtherStep
  BY <1>0, <1>4, OtherFrame DEF checkout
<1>5. CASE UNCHANGED vars
  BY <1>0, <1>5 DEF vars, checkout
<1> QED BY <1>1, <1>2, <1>3, <1>4, <1>5 DEF Next, OtherStep

LEMMA RowsStep ==
    ASSUME IInv, [Next]_vars
    PROVE  RowsInv'
  BY LedgerType, ApplicationsType, CreditsType, RefundsStep, GuestsStep,
     CallsStep DEF RowsInv

LEMMA TypeStep ==
    ASSUME IInv, [Next]_vars
    PROVE  TypeOK'
<1>1. RowsInv' /\ HeldInv' /\ AttemptTypes'
  BY RowsStep, HeldStep, AttemptsStep
<1>2. /\ \A r \in ledger' : r.type \in RecordTypes /\ r.amount \in Int \ {0}
      /\ \A r \in applications' \cup credits' :
           r.amount \in Int \ {0} /\ r.check \in Checks
      /\ \A r \in refunds' : r.corr \in Calls /\ r.from \in Attempts
  BY <1>1 DEF RowsInv, LedgerRow, ApplicationRow, Credit, StripeRefund
<1>3. \A g \in Guests :
         /\ guest'[g].pc \in {"start", "lock", "retrieve", "create", "done"}
         /\ guest'[g].open \in 0..MaxAttempts /\ guest'[g].amount \in Nat
  BY <1>1 DEF RowsInv, Request
<1>4. \A c \in Calls :
         /\ call'[c].pc \in Steps /\ call'[c].kind \in Kinds
         /\ call'[c].amount \in Nat /\ call'[c].applied \in Nat
         /\ call'[c].check \in Checks \cup {NoCheck}
  BY <1>1 DEF RowsInv, StaffCall
<1>6. \A c \in Calls : call'[c].voids \subseteq credits'
  BY <1>1 DEF HeldInv, CreditRows
<1>5. /\ attempt' \in [Attempts -> [state : States, amount : Nat]]
      /\ session' \in [Attempts -> {"none", "open", "processing", "paid",
                                    "failed", "differs", "expired"}]
      /\ lapsed' \subseteq Attempts
  BY <1>1 DEF AttemptTypes, AttemptType, SessionStates
<1> QED BY <1>2, <1>3, <1>4, <1>5, <1>6, StatusType, BillType, SucceededType,
           BouncedType DEF TypeOK

LEMMA ControlStep ==
    ASSUME IInv, [Next]_vars
    PROVE  ControlInv'
<1>1. \A c \in Calls : KindInv(call'[c])
  BY CallsStep
<1>2. KeysInv'
  BY RefundsStep
<1> QED BY <1>1, <1>2, RowsStep, AttemptStep, GuestsStep, ExclusiveStep,
           HeldStep, AskedStep, OncePerRequestStep DEF ControlInv

-----------------------------------------------------------------------------
(* The families of outgoing money *)

Ins(L) == {r \in L : r.amount > 0}
Outs(L) == {r \in L : r.amount < 0}

\* The rows that a refund through Stripe writes.
Refunders == {c \in Calls : call[c].kind = "providerRefund"}
StripeRows == {r \in LedgerRow : r.corr \in {<<"call", c>> : c \in Refunders}}

LEMMA SumBalanced ==
    ASSUME NEW L, Rows(L), \A r \in L : r.amount # 0, NEW B
    PROVE  /\ Sum(L) \in Int /\ Sum(Ins(L)) \in Int
           /\ Sum(Outs(L) \cap B) \in Int /\ Sum(Outs(L) \ B) \in Int
           /\ Sum(Ins(L)) >= 0
           /\ Sum(Outs(L) \cap B) <= 0 /\ Sum(Outs(L) \ B) <= 0
           /\ Sum(L) = Sum(Ins(L)) + Sum(Outs(L) \cap B) + Sum(Outs(L) \ B)
<1>0. \A r \in L : r.amount \in Int
  BY DEF Rows
<1>1. L \cap Ins(L) = Ins(L) /\ L \ Ins(L) = Outs(L)
  BY <1>0 DEF Ins, Outs
<1>2. Rows(Ins(L)) /\ Rows(Outs(L))
  BY RowsSubset DEF Ins, Outs
<1>3. Rows(Outs(L) \cap B) /\ Rows(Outs(L) \ B)
  BY <1>2, RowsSubset
<1>4. /\ Sum(L) \in Int /\ Sum(Ins(L)) \in Int /\ Sum(Outs(L)) \in Int
      /\ Sum(L) = Sum(Ins(L)) + Sum(Outs(L))
  <2>1. /\ Sum(L) \in Int /\ Sum(L \cap Ins(L)) \in Int
        /\ Sum(L \ Ins(L)) \in Int
        /\ Sum(L) = Sum(L \cap Ins(L)) + Sum(L \ Ins(L))
    BY SumSplit
  <2> QED BY <1>1, <2>1
<1>5. /\ Sum(Outs(L) \cap B) \in Int /\ Sum(Outs(L) \ B) \in Int
      /\ Sum(Outs(L)) = Sum(Outs(L) \cap B) + Sum(Outs(L) \ B)
  BY <1>2, SumSplit
<1>6. Sum(Ins(L)) >= 0
  <2>1. {} \in SUBSET Ins(L) /\ \A r \in Ins(L) \ {} : r.amount >= 0
    BY <1>0 DEF Ins
  <2>2. Sum({}) <= Sum(Ins(L))
    BY <1>2, <2>1, SumMonotonic
  <2>3. Sum({}) = 0
    BY <1>2, SumType
  <2> QED BY <1>4, <2>2, <2>3
<1>7. \A r \in Outs(L) : r.amount <= 0
  BY <1>0 DEF Outs
<1>8. Sum(Outs(L) \cap B) <= 0 /\ Sum(Outs(L) \ B) <= 0
  BY <1>3, <1>7, SumNotPositive
<1> QED BY <1>4, <1>5, <1>6, <1>8

\* A row adds to the part that it belongs to, and changes no other.
LEMMA RowAdded ==
    ASSUME NEW L, Rows(L), \A r \in L : r.amount # 0, NEW B,
           NEW x, x.amount \in Int \ {0}, NEW M, M = L \cup {x}
    PROVE  /\ x.amount > 0 =>
                /\ Sum(Ins(L)) <= Sum(Ins(M)) /\ Outs(M) = Outs(L)
           /\ x.amount < 0 => Ins(M) = Ins(L)
           /\ x.amount < 0 /\ x \in B =>
                /\ Outs(M) \ B = Outs(L) \ B
                /\ Sum(Outs(L) \cap B) + x.amount <= Sum(Outs(M) \cap B)
           /\ x.amount < 0 /\ x \notin B =>
                /\ Outs(M) \cap B = Outs(L) \cap B
                /\ Sum(Outs(L) \ B) + x.amount <= Sum(Outs(M) \ B)
<1>1. Rows(Ins(L)) /\ Rows(Outs(L) \cap B) /\ Rows(Outs(L) \ B)
  BY RowsSubset DEF Ins, Outs
<1>2. x.amount > 0 => Ins(M) = Ins(L) \cup {x} /\ Outs(M) = Outs(L)
  BY DEF Ins, Outs
<1>3. x.amount < 0 => Ins(M) = Ins(L) /\ Outs(M) = Outs(L) \cup {x}
  BY DEF Ins, Outs
<1>4. ASSUME x.amount > 0 PROVE Sum(Ins(L)) <= Sum(Ins(M))
  <2>1. Sum(Ins(L) \cup {x}) =
          IF x \in Ins(L) THEN Sum(Ins(L)) ELSE Sum(Ins(L)) + x.amount
    BY <1>1, SumAdd
  <2>2. Sum(Ins(L)) \in Int
    BY <1>1, SumType
  <2>3. Sum(Ins(L)) <= Sum(Ins(L) \cup {x})
    BY <1>4, <2>1, <2>2
  <2>4. Ins(M) = Ins(L) \cup {x}
    BY <1>2, <1>4
  <2> QED BY <2>3, <2>4
<1>5. ASSUME x.amount < 0, NEW T, Rows(T)
      PROVE  Sum(T) + x.amount <= Sum(T \cup {x})
  <2>1. Sum(T \cup {x}) = IF x \in T THEN Sum(T) ELSE Sum(T) + x.amount
    BY <1>5, SumAdd
  <2>2. Sum(T) \in Int
    BY <1>5, SumType
  <2> QED BY <1>5, <2>1, <2>2
<1>6. ASSUME x.amount < 0, x \in B
      PROVE  /\ Outs(M) \ B = Outs(L) \ B
             /\ Sum(Outs(L) \cap B) + x.amount <= Sum(Outs(M) \cap B)
  <2>1. /\ Outs(M) \ B = Outs(L) \ B
        /\ Outs(M) \cap B = (Outs(L) \cap B) \cup {x}
    BY <1>3, <1>6
  <2> QED BY <1>1, <1>5, <1>6, <2>1
<1>7. ASSUME x.amount < 0, x \notin B
      PROVE  /\ Outs(M) \cap B = Outs(L) \cap B
             /\ Sum(Outs(L) \ B) + x.amount <= Sum(Outs(M) \ B)
  <2>1. /\ Outs(M) \cap B = Outs(L) \cap B
        /\ Outs(M) \ B = (Outs(L) \ B) \cup {x}
    BY <1>3, <1>7
  <2> QED BY <1>1, <1>5, <1>7, <2>1
<1> QED BY <1>2, <1>3, <1>4, <1>6, <1>7

\* The last two cases, in the form in which they are cited.
LEMMA StripeRowAdded ==
    ASSUME NEW L, Rows(L), \A r \in L : r.amount # 0, NEW B,
           NEW x, x.amount \in Int \ {0}, x.amount < 0, x \in B,
           NEW M, M = L \cup {x}
    PROVE  /\ Ins(M) = Ins(L) /\ Outs(M) \ B = Outs(L) \ B
           /\ Sum(Outs(L) \cap B) + x.amount <= Sum(Outs(M) \cap B)
  BY RowAdded

LEMMA OtherRowAdded ==
    ASSUME NEW L, Rows(L), \A r \in L : r.amount # 0, NEW B,
           NEW x, x.amount \in Int \ {0}, x.amount < 0, x \notin B,
           NEW M, M = L \cup {x}
    PROVE  /\ Ins(M) = Ins(L) /\ Outs(M) \cap B = Outs(L) \cap B
           /\ Sum(Outs(L) \ B) + x.amount <= Sum(Outs(M) \ B)
  BY RowAdded

LEMMA FamiliesAre ==
    ASSUME IInv
    PROVE  /\ Inflow = Sum(Ins(ledger))
           /\ StripeOut = -Sum(Outs(ledger) \cap StripeRows)
           /\ StaffOut = -Sum(Outs(ledger) \ StripeRows)
<1>0. ledger \in SUBSET LedgerRow
  BY DEF IInv, ControlInv, RowsInv
<1>1. ASSUME NEW r \in ledger
      PROVE  ByStripe(r) \in BOOLEAN /\ (ByStripe(r) <=> r \in StripeRows)
  <2>1. r \in LedgerRow /\ r.corr \in Corrs
    BY <1>0 DEF LedgerRow
  <2>2. r.corr[1] = "call" <=> r.corr \in Staff
    BY <2>1 DEF Corrs, Staff
  <2>3. ASSUME NEW c \in Calls, r.corr = <<"call", c>>
        PROVE  ByStripe(r) <=> r \in StripeRows
    BY <2>1, <2>3 DEF ByStripe, StripeRows, Refunders
  <2>4. CASE r.corr \in Staff
    BY <2>3, <2>4 DEF Staff, ByStripe
  <2>5. CASE r.corr \notin Staff
    BY <2>2, <2>5 DEF Staff, ByStripe, StripeRows, Refunders
  <2> QED BY <2>4, <2>5 DEF ByStripe
<1>2. {r \in ledger : r.amount < 0 /\ ByStripe(r) = TRUE}
         = Outs(ledger) \cap StripeRows
  BY <1>1 DEF Outs
<1>3. {r \in ledger : r.amount < 0 /\ ByStripe(r) = FALSE}
         = Outs(ledger) \ StripeRows
  BY <1>1 DEF Outs
<1> QED BY <1>2, <1>3 DEF Inflow, StripeOut, StaffOut, Outflow, Ins

LEMMA FamiliesWillBe ==
    ASSUME IInv, [Next]_vars
    PROVE  /\ Inflow' = Sum(Ins(ledger'))
           /\ StripeOut' = -Sum(Outs(ledger') \cap StripeRows)
           /\ StaffOut' = -Sum(Outs(ledger') \ StripeRows)
<1>0. ledger' \in SUBSET LedgerRow
  BY LedgerType
<1>1. ASSUME NEW r \in ledger'
      PROVE  ByStripe(r)' \in BOOLEAN /\ (ByStripe(r)' <=> r \in StripeRows)
  <2>1. r \in LedgerRow /\ r.corr \in Corrs
    BY <1>0 DEF LedgerRow
  <2>2. r.corr[1] = "call" <=> r.corr \in Staff
    BY <2>1 DEF Corrs, Staff
  <2>3. ASSUME NEW c \in Calls, r.corr = <<"call", c>>
        PROVE  ByStripe(r)' <=> r \in StripeRows
    BY <2>1, <2>3, CallsStep DEF ByStripe, StripeRows, Refunders
  <2>4. CASE r.corr \in Staff
    BY <2>3, <2>4 DEF Staff, ByStripe
  <2>5. CASE r.corr \notin Staff
    BY <2>2, <2>5 DEF Staff, ByStripe, StripeRows, Refunders
  <2> QED BY <2>4, <2>5 DEF ByStripe
<1>2. {r \in ledger' : r.amount < 0 /\ ByStripe(r)' = TRUE}
         = Outs(ledger') \cap StripeRows
  BY <1>1 DEF Outs
<1>3. {r \in ledger' : r.amount < 0 /\ ByStripe(r)' = FALSE}
         = Outs(ledger') \ StripeRows
  BY <1>1 DEF Outs
<1> QED BY <1>2, <1>3 DEF Inflow, StripeOut, StaffOut, Outflow, Ins

\* A step adds to one family at most: what staff record, or the refund that a
\* request was asked for.
LEMMA FamilyChanges ==
    ASSUME IInv, [Next]_vars
    PROVE  /\ Inflow <= Inflow'
           /\ \/ StripeOut' = StripeOut
              \/ \E c \in Calls :
                    /\ RefundWrite(c)
                    /\ StripeOut' <= StripeOut + call[c].amount
           /\ \/ StaffOut' = StaffOut
              \/ \E c \in Calls :
                    /\ RecordWrite(c) /\ call[c].kind # "CAPTURE"
                    /\ StaffOut' <= StaffOut + call[c].amount
<1> DEFINE B == StripeRows
<1>0. /\ Rows(ledger) /\ \A r \in ledger : r.amount # 0
      /\ Rows(ledger') /\ \A r \in ledger' : r.amount # 0
  BY LedgerType DEF Rows, IInv, ControlInv, RowsInv, LedgerRow
<1>1. /\ Inflow = Sum(Ins(ledger)) /\ Inflow' = Sum(Ins(ledger'))
      /\ StripeOut = -Sum(Outs(ledger) \cap B)
      /\ StripeOut' = -Sum(Outs(ledger') \cap B)
      /\ StaffOut = -Sum(Outs(ledger) \ B)
      /\ StaffOut' = -Sum(Outs(ledger') \ B)
  BY FamiliesAre, FamiliesWillBe
<1>2. /\ Sum(Ins(ledger)) \in Int /\ Sum(Ins(ledger')) \in Int
      /\ Sum(Outs(ledger) \cap B) \in Int /\ Sum(Outs(ledger') \cap B) \in Int
      /\ Sum(Outs(ledger) \ B) \in Int /\ Sum(Outs(ledger') \ B) \in Int
  <2> HIDE DEF B
  <2> QED BY <1>0, SumBalanced
<1> HIDE DEF B
<1>3. CASE UNCHANGED ledger
  BY <1>1, <1>2, <1>3
<1>4. ASSUME NEW x \in LedgerRow, x.amount > 0, ledger' = ledger \cup {x}
      PROVE  /\ Inflow <= Inflow'
             /\ StripeOut' = StripeOut
             /\ StaffOut' = StaffOut
  <2>1. x.amount \in Int \ {0}
    BY DEF LedgerRow
  <2>2. /\ Sum(Ins(ledger)) <= Sum(Ins(ledger'))
        /\ Outs(ledger') = Outs(ledger)
    BY <1>0, <1>4, <2>1, RowAdded
  <2> QED BY <1>1, <2>2
<1>5. ASSUME NEW x \in LedgerRow, x.amount < 0, x \in B,
             ledger' = ledger \cup {x}
      PROVE  /\ Inflow <= Inflow'
             /\ StripeOut' <= StripeOut - x.amount
             /\ StaffOut' = StaffOut
  <2>1. x.amount \in Int \ {0}
    BY DEF LedgerRow
  <2>2. /\ Ins(ledger') = Ins(ledger) /\ Outs(ledger') \ B = Outs(ledger) \ B
        /\ Sum(Outs(ledger) \cap B) + x.amount <= Sum(Outs(ledger') \cap B)
    BY <1>0, <1>5, <2>1, StripeRowAdded
  <2>3. Inflow <= Inflow' /\ StaffOut' = StaffOut
    BY <1>1, <1>2, <2>2
  <2>4. StripeOut' <= StripeOut - x.amount
    <3>1. /\ Sum(Outs(ledger) \cap B) \in Int /\ Sum(Outs(ledger') \cap B) \in Int
          /\ Sum(Outs(ledger) \cap B) + x.amount <= Sum(Outs(ledger') \cap B)
      BY <1>2, <2>2
    <3>2. -Sum(Outs(ledger') \cap B) <= -Sum(Outs(ledger) \cap B) - x.amount
      BY <2>1, <3>1
    <3> QED BY <1>1, <3>2
  <2> QED BY <2>3, <2>4
<1>6. ASSUME NEW x \in LedgerRow, x.amount < 0, x \notin B,
             ledger' = ledger \cup {x}
      PROVE  /\ Inflow <= Inflow'
             /\ StripeOut' = StripeOut
             /\ StaffOut' <= StaffOut - x.amount
  <2>1. x.amount \in Int \ {0}
    BY DEF LedgerRow
  <2>2. /\ Ins(ledger') = Ins(ledger)
        /\ Outs(ledger') \cap B = Outs(ledger) \cap B
        /\ Sum(Outs(ledger) \ B) + x.amount <= Sum(Outs(ledger') \ B)
    BY <1>0, <1>6, <2>1, OtherRowAdded
  <2>3. Inflow <= Inflow' /\ StripeOut' = StripeOut
    BY <1>1, <1>2, <2>2
  <2>4. StaffOut' <= StaffOut - x.amount
    <3>1. /\ Sum(Outs(ledger) \ B) \in Int /\ Sum(Outs(ledger') \ B) \in Int
          /\ Sum(Outs(ledger) \ B) + x.amount <= Sum(Outs(ledger') \ B)
      BY <1>2, <2>2
    <3>2. -Sum(Outs(ledger') \ B) <= -Sum(Outs(ledger) \ B) - x.amount
      BY <2>1, <3>1
    <3> QED BY <1>1, <3>2
  <2> QED BY <2>3, <2>4
<1>7. ASSUME NEW n \in Attempts, AmountMatches(n),
             ledger' = ledger \cup {CaptureRow(n)}
      PROVE  /\ Inflow <= Inflow'
             /\ StripeOut' = StripeOut
             /\ StaffOut' = StaffOut
  BY <1>4, <1>7, CaptureRowType DEF AmountMatches
<1>8. ASSUME NEW c \in Calls, RecordWrite(c),
             ledger' = ledger \cup {Movement(c)}
      PROVE  /\ Inflow <= Inflow'
             /\ StripeOut' = StripeOut
             /\ \/ StaffOut' = StaffOut
                \/ /\ call[c].kind # "CAPTURE"
                   /\ StaffOut' <= StaffOut + call[c].amount
  <2>1. CASE call[c].kind = "CAPTURE"
    <3>1. Movement(c) \in LedgerRow /\ Movement(c).amount > 0
      BY <1>8, <2>1, MovementType
    <3> QED BY <1>4, <1>8, <3>1
  <2>2. CASE call[c].kind # "CAPTURE"
    <3>1. /\ Movement(c) \in LedgerRow /\ Movement(c).amount < 0
          /\ Movement(c).amount = -call[c].amount
          /\ Movement(c).corr = Corr(c)
      BY <1>8, <2>2, MovementType
    <3>2. call[c].kind \in RecordTypes \cup Outcomes
      BY <1>8, CallType DEF RecordWrite, KindInv
    <3>3. c \notin Refunders
      BY <3>2 DEF Refunders, RecordTypes, Outcomes
    <3>4. Movement(c) \notin B
      BY <3>1, <3>3 DEF B, StripeRows, Corr
    <3>5. call[c].amount \in Nat
      BY CallType DEF StaffCall
    <3>6. /\ Inflow <= Inflow' /\ StripeOut' = StripeOut
          /\ StaffOut' <= StaffOut - Movement(c).amount
      BY <1>6, <1>8, <3>1, <3>4
    <3>7. StaffOut - Movement(c).amount = StaffOut + call[c].amount
      BY <1>1, <1>2, <3>1, <3>5
    <3> QED BY <2>2, <3>6, <3>7
  <2> QED BY <2>1, <2>2
<1>9. ASSUME NEW c \in Calls, RefundWrite(c),
             ledger' = ledger \cup {RefundRow(c)}
      PROVE  /\ Inflow <= Inflow'
             /\ StripeOut' <= StripeOut + call[c].amount
             /\ StaffOut' = StaffOut
  <2>1. /\ RefundRow(c) \in LedgerRow /\ RefundRow(c).amount < 0
        /\ RefundRow(c).amount = -call[c].amount
        /\ RefundRow(c).corr = <<"call", c>>
    BY <1>9, RefundRowType
  <2>2. c \in Refunders
    BY <1>9, CallType DEF Refunders, RefundWrite, KindInv, RefundSteps
  <2>3. RefundRow(c) \in B
    BY <2>1, <2>2 DEF B, StripeRows
  <2>4. call[c].amount \in Nat
    BY CallType DEF StaffCall
  <2>5. /\ Inflow <= Inflow' /\ StaffOut' = StaffOut
        /\ StripeOut' <= StripeOut - RefundRow(c).amount
    BY <1>5, <1>9, <2>1, <2>3
  <2>6. StripeOut - RefundRow(c).amount = StripeOut + call[c].amount
    BY <1>1, <1>2, <2>1, <2>4
  <2> QED BY <2>5, <2>6
<1> QED BY <1>3, <1>7, <1>8, <1>9, LedgerChanges

LEMMA EachFamilyIs ==
    /\ EachFamilyWithinInflow <=> StripeOut <= Inflow /\ StaffOut <= Inflow
    /\ EachFamilyWithinInflow' <=> StripeOut' <= Inflow' /\ StaffOut' <= Inflow'
  BY Zenon DEF EachFamilyWithinInflow, StripeOut, StaffOut

LEMMA FamilyTypes ==
    ASSUME IInv
    PROVE  /\ Inflow \in Int /\ StripeOut \in Int /\ StaffOut \in Int
           /\ StripeOut >= 0 /\ StaffOut >= 0
           /\ Balance = Inflow - StripeOut - StaffOut
<1> DEFINE B == StripeRows
<1>1. Rows(ledger) /\ \A r \in ledger : r.amount # 0
  BY DEF Rows, IInv, ControlInv, RowsInv, LedgerRow
<1>2. /\ Inflow = Sum(Ins(ledger)) /\ StripeOut = -Sum(Outs(ledger) \cap B)
      /\ StaffOut = -Sum(Outs(ledger) \ B) /\ Balance = Sum(ledger)
  BY FamiliesAre DEF Balance
<1> HIDE DEF B
<1>3. /\ Sum(ledger) \in Int /\ Sum(Ins(ledger)) \in Int
      /\ Sum(Outs(ledger) \cap B) \in Int /\ Sum(Outs(ledger) \ B) \in Int
      /\ Sum(Outs(ledger) \cap B) <= 0 /\ Sum(Outs(ledger) \ B) <= 0
      /\ Sum(ledger) = Sum(Ins(ledger)) + Sum(Outs(ledger) \cap B)
                          + Sum(Outs(ledger) \ B)
  BY <1>1, SumBalanced
<1> QED BY <1>2, <1>3

LEMMA FamilyWillBeInt ==
    ASSUME IInv, [Next]_vars
    PROVE  Inflow' \in Int /\ StripeOut' \in Int /\ StaffOut' \in Int
<1>1. Rows(ledger') /\ \A r \in ledger' : r.amount # 0
  BY LedgerType DEF Rows, LedgerRow
<1>2. /\ Sum(Ins(ledger')) \in Int
      /\ Sum(Outs(ledger') \cap StripeRows) \in Int
      /\ Sum(Outs(ledger') \ StripeRows) \in Int
  BY <1>1, SumBalanced
<1> QED BY <1>2, FamiliesWillBe

\* A writer leaves the step that let nobody else in.
LEMMA WriterLeaves ==
    ASSUME IInv, [Next]_vars, NEW c \in Calls, NEW d \in Calls
    PROVE  /\ RefundWrite(c) => call'[d].pc \notin RefundSteps
           /\ RecordWrite(c) => call'[d].pc # "recording"
           /\ AdjustWrite(c) => ~(/\ call'[d].pc = "adjusting"
                                  /\ call'[d].check = call[c].check)
<1>0. call \in [Calls -> StaffCall]
  BY DEF IInv, ControlInv, RowsInv
<1>1. ASSUME RefundWrite(c) PROVE call'[d].pc \notin RefundSteps
  <2>1. /\ call'[c].pc = "done" /\ (d # c => call'[d] = call[d])
        /\ call[c].pc \in RefundSteps
    BY <1>0, <1>1 DEF RefundWrite, Done, StaffCall, RefundSteps
  <2>2. d # c => call[d].pc \notin RefundSteps
    BY <2>1 DEF IInv, ControlInv, Exclusive
  <2> QED BY <2>1, <2>2 DEF RefundSteps
<1>2. ASSUME RecordWrite(c) PROVE call'[d].pc # "recording"
  <2>1. /\ call'[c].pc \in {"closing", "done"}
        /\ (d # c => call'[d] = call[d]) /\ call[c].pc = "recording"
    BY <1>0, <1>2 DEF RecordWrite, AfterRecord, Goto, StaffCall
  <2>2. d # c => call[d].pc # "recording"
    BY <2>1 DEF IInv, ControlInv, Exclusive
  <2> QED BY <2>1, <2>2
<1>3. ASSUME AdjustWrite(c)
      PROVE  ~(/\ call'[d].pc = "adjusting"
               /\ call'[d].check = call[c].check)
  <2>1. /\ call'[c].pc = "done" /\ (d # c => call'[d] = call[d])
        /\ call[c].pc = "adjusting"
    BY <1>0, <1>3 DEF AdjustWrite, Done, StaffCall
  <2>2. d # c => ~(/\ call[d].pc = "adjusting"
                   /\ call[d].check = call[c].check)
    BY <2>1 DEF IInv, ControlInv, Exclusive, HasCheck
  <2> QED BY <2>1, <2>2
<1> QED BY <1>1, <1>2, <1>3

LEMMA FamilyStep ==
    ASSUME IInv, [Next]_vars
    PROVE  FamilyInv' /\ EachFamilyWithinInflow'
<1>0. /\ FamilyInv /\ StripeOut <= Inflow /\ StaffOut <= Inflow
      /\ Inflow \in Int /\ StripeOut \in Int /\ StaffOut \in Int
      /\ Inflow' \in Int /\ StripeOut' \in Int /\ StaffOut' \in Int
      /\ StripeOut >= 0 /\ StaffOut >= 0
      /\ Balance = Inflow - StripeOut - StaffOut
      /\ Inflow <= Inflow'
  BY FamilyTypes, FamilyWillBeInt, FamilyChanges, EachFamilyIs
     DEF IInv, MoneyInv
<1>1. EachFamilyWithinInflow'
  <2>1. ASSUME NEW c \in Calls, RefundWrite(c),
               StripeOut' <= StripeOut + call[c].amount
        PROVE  StripeOut' <= Inflow'
    <3>1. StripeOut + call[c].amount <= Inflow /\ call[c].amount \in Nat
      BY <1>0, <2>1, CallType DEF RefundWrite, FamilyInv, RefundSteps, StaffCall
    <3> QED BY <1>0, <2>1, <3>1
  <2>2. ASSUME NEW c \in Calls, RecordWrite(c), call[c].kind # "CAPTURE",
               StaffOut' <= StaffOut + call[c].amount
        PROVE  StaffOut' <= Inflow'
    <3>1. StaffOut + call[c].amount <= Inflow /\ call[c].amount \in Nat
      BY <1>0, <2>2, CallType DEF RecordWrite, FamilyInv, StaffCall
    <3> QED BY <1>0, <2>2, <3>1
  <2>3. StripeOut <= Inflow' /\ StaffOut <= Inflow'
    BY <1>0
  <2> QED BY <2>1, <2>2, <2>3, FamilyChanges, EachFamilyIs
<1>2. ASSUME NEW d \in Calls, call'[d].pc \in RefundSteps
      PROVE  StripeOut' + call'[d].amount <= Inflow'
  <2>1. StripeOut' = StripeOut
    BY <1>2, FamilyChanges, WriterLeaves
  <2>2. call'[d].amount \in Nat
    BY CallsStep DEF StaffCall
  <2>3. \/ call[d].pc \in RefundSteps /\ call'[d].amount = call[d].amount
        \/ call'[d].amount <= Balance
    <3>1. CASE UNCHANGED call
      BY <1>2, <3>1
    <3>2. ASSUME NEW c \in Calls, NEW k \in StaffCall, Moved(c, k)
          PROVE  \/ /\ call[d].pc \in RefundSteps
                    /\ call'[d].amount = call[d].amount
                 \/ call'[d].amount <= Balance
      <4>1. call'[c] = k /\ (d # c => call'[d] = call[d])
        BY <3>2, MovedIs
      <4>2. CASE d = c
        BY <1>2, <3>2, <4>1, <4>2 DEF Moved
      <4> QED BY <1>2, <4>1, <4>2
    <3> QED BY <3>1, <3>2, OneMoves
  <2>4. CASE call'[d].amount <= Balance
    BY <1>0, <2>1, <2>2, <2>4
  <2>5. CASE call[d].pc \in RefundSteps /\ call'[d].amount = call[d].amount
    <3>1. StripeOut + call[d].amount <= Inflow
      BY <1>0, <2>5 DEF FamilyInv
    <3> QED BY <1>0, <2>1, <2>2, <2>5, <3>1
  <2> QED BY <2>3, <2>4, <2>5
<1>3. ASSUME NEW d \in Calls, call'[d].pc = "recording",
             call'[d].kind # "CAPTURE"
      PROVE  StaffOut' + call'[d].amount <= Inflow'
  <2>1. StaffOut' = StaffOut
    BY <1>3, FamilyChanges, WriterLeaves
  <2>2. call'[d].amount \in Nat
    BY CallsStep DEF StaffCall
  <2>3. \/ call'[d] = call[d]
        \/ call'[d].amount <= Balance
    <3>1. CASE UNCHANGED call
      BY <3>1
    <3>2. ASSUME NEW c \in Calls, NEW k \in StaffCall, Moved(c, k)
          PROVE  call'[d] = call[d] \/ call'[d].amount <= Balance
      <4>1. call'[c] = k /\ (d # c => call'[d] = call[d])
        BY <3>2, MovedIs
      <4>2. CASE d = c
        BY <1>3, <3>2, <4>1, <4>2 DEF Moved
      <4> QED BY <4>1, <4>2
    <3> QED BY <3>1, <3>2, OneMoves
  <2>4. CASE call'[d].amount <= Balance
    BY <1>0, <2>1, <2>2, <2>4
  <2>5. CASE call'[d] = call[d]
    <3>1. StaffOut + call[d].amount <= Inflow
      BY <1>0, <1>3, <2>5 DEF FamilyInv
    <3> QED BY <1>0, <2>1, <2>2, <2>5, <3>1
  <2> QED BY <2>3, <2>4, <2>5
<1> QED BY <1>1, <1>2, <1>3 DEF FamilyInv

-----------------------------------------------------------------------------
(* The credit of the till *)

LEMMA TillIs ==
    /\ TillCreditWasPaid <=> \A k \in Checks : Sum(Till(k)) <= PaidByGuests
    /\ TillCreditWasPaid' <=>
         \A k \in Checks : Sum(Till(k))' <= PaidByGuests'
  BY Zenon DEF TillCreditWasPaid, Till

\* The tables of credits, and what the till, the check and the guest have.
LEMMA TillTypes ==
    ASSUME IInv, NEW k \in Checks
    PROVE  /\ Rows(Till(k)) /\ \A x \in Till(k) : x.amount >= 0
           /\ Sum(Till(k)) \in Int /\ Used \in Int /\ Sum(Till(k)) <= Used
<1>1. credits \in SUBSET Credit /\ IsFiniteSet(credits)
  BY DEF IInv, ControlInv, RowsInv
<1>2. Rows(credits) /\ \A x \in credits : x.amount >= 0
  BY <1>1 DEF Rows, Credit
<1>3. ActiveCredits \in SUBSET credits /\ Till(k) \in SUBSET ActiveCredits
  BY DEF ActiveCredits, Till, CreditsOn
<1>4. /\ Rows(ActiveCredits) /\ \A x \in ActiveCredits : x.amount >= 0
      /\ Rows(Till(k)) /\ \A x \in Till(k) : x.amount >= 0
  BY <1>2, <1>3, RowsSubset
<1>5. /\ Sum(Till(k)) \in Int /\ Sum(ActiveCredits) \in Int
      /\ Sum(Till(k)) <= Sum(ActiveCredits)
  BY <1>3, <1>4, SumMonotonic
<1> QED BY <1>4, <1>5 DEF Used

\* What succeeded was paid.
LEMMA SucceededWithinPaid ==
    ASSUME IInv
    PROVE  /\ SucceededAmount \in Int /\ PaidByGuests \in Int
           /\ SucceededAmount <= PaidByGuests
<1> DEFINE S == {n \in Attempts : attempt[n].state = "SUCCEEDED"}
<1>1. IsFiniteSet(Attempts)
  BY FS_Interval, ReservationDepositAssumption DEF Attempts
<1>2. IsFiniteSet(Paid)
  BY <1>1, FS_Subset DEF Paid
<1>3. S \in SUBSET Paid
  BY AttemptFacts DEF Paid
<1>4. \A n \in Paid : attempt[n].amount \in Nat
  BY AttemptFacts DEF AttemptTypes, AttemptType, Paid
<1>5. /\ AttemptSum(attempt, S) \in Int /\ AttemptSum(attempt, Paid) \in Int
      /\ AttemptSum(attempt, S) <= AttemptSum(attempt, Paid)
  <2> HIDE DEF S
  <2> QED BY <1>2, <1>3, <1>4, AttemptSumMonotonic
<1>6. SucceededAmount = AttemptSum(attempt, S)
  BY Zenon DEF SucceededAmount, AttemptSum
<1>7. PaidByGuests = AttemptSum(attempt, Paid)
  BY Zenon DEF PaidByGuests, Paid, AttemptSum
<1> QED BY <1>5, <1>6, <1>7

\* What was paid stays paid.
LEMMA PaidGrows ==
    ASSUME IInv, [Next]_vars
    PROVE  /\ PaidByGuests \in Int /\ PaidByGuests' \in Int
           /\ PaidByGuests <= PaidByGuests'
<1>1. IsFiniteSet(Attempts)
  BY FS_Interval, ReservationDepositAssumption DEF Attempts
<1>2. IsFiniteSet(Paid')
  BY <1>1, FS_Subset DEF Paid
<1>3. Paid \in SUBSET Paid'
  BY AttemptsStep DEF Paid, Ages
<1>4. \A n \in Paid' : attempt'[n].amount \in Nat
  BY AttemptsStep DEF AttemptTypes, AttemptType, Paid
<1>5. \A n \in Paid : attempt[n].amount = attempt'[n].amount
  <2> TAKE n \in Paid
  <2>1. n \in Attempts /\ session[n] = "paid"
    BY DEF Paid
  <2>2. attempt[n].state # "NONE"
    BY <2>1, AttemptFacts
  <2> QED BY <2>1, <2>2, AttemptsStep DEF Ages
<1>6. /\ AttemptSum(attempt, Paid) \in Int
      /\ AttemptSum(attempt', Paid') \in Int
      /\ AttemptSum(attempt, Paid) <= AttemptSum(attempt', Paid')
  BY <1>2, <1>3, <1>4, <1>5, AttemptSumMonotonic
<1>7. PaidByGuests = AttemptSum(attempt, Paid)
  BY Zenon DEF PaidByGuests, Paid, AttemptSum
<1>8. PaidByGuests' = AttemptSum(attempt', Paid')
  BY Zenon DEF PaidByGuests, Paid, AttemptSum, MapThenSumSet, MapThenFoldSet
<1> QED BY <1>6, <1>7, <1>8

\* Only the till adds to its credit on a check.
LEMMA TillChanges ==
    ASSUME IInv, [Next]_vars, NEW k \in Checks
    PROVE  \/ Till(k)' \subseteq Till(k)
           \/ \E c \in Calls :
                 /\ AdjustWrite(c) /\ call[c].check = k
                 /\ Till(k)' \subseteq Till(k) \cup {TillCredit(c)}
<1>0. credits \in SUBSET Credit
  BY DEF IInv, ControlInv, RowsInv
<1>1. CASE UNCHANGED credits
  BY <1>1 DEF Till, CreditsOn, ActiveCredits
<1>2. ASSUME NEW c \in Calls, credits' = credits \cup {ArrivalCredit(c)}
      PROVE  Till(k)' \subseteq Till(k)
  BY <1>2 DEF Till, CreditsOn, ActiveCredits, ArrivalCredit, FromTill
<1>3. ASSUME NEW c \in Calls, credits' = credits \cup {TillCredit(c)}
      PROVE  \/ Till(k)' \subseteq Till(k)
             \/ /\ call[c].check = k
                /\ Till(k)' \subseteq Till(k) \cup {TillCredit(c)}
  <2>1. TillCredit(c).check = call[c].check
    BY DEF TillCredit
  <2> QED BY <1>3, <2>1 DEF Till, CreditsOn, ActiveCredits
<1>4. ASSUME NEW x \in ActiveCredits,
             credits' = (credits \ {x}) \cup {Voided(x)}
      PROVE  Till(k)' \subseteq Till(k)
  <2>1. Voided(x).voided = TRUE
    BY <1>0, VoidedIs DEF ActiveCredits
  <2> QED BY <1>4, <2>1 DEF Till, CreditsOn, ActiveCredits
<1>5. ASSUME NEW c \in Calls,
             credits' = (credits \ call[c].voids) \cup TakenBack(call[c].voids)
      PROVE  Till(k)' \subseteq Till(k)
  <2>1. call[c].voids \in SUBSET Credit
    BY CallType DEF StaffCall
  <2>2. \A x \in TakenBack(call[c].voids) : x.voided = TRUE
    BY <2>1, VoidedIs DEF TakenBack
  <2> QED BY <1>5, <2>2 DEF Till, CreditsOn, ActiveCredits
<1> QED BY <1>1, <1>2, <1>3, <1>4, <1>5, CreditChanges

LEMMA TillCheckStep ==
    ASSUME IInv, [Next]_vars, NEW k \in Checks
    PROVE  /\ Sum(Till(k))' <= PaidByGuests'
           /\ \A d \in Calls :
                call'[d].pc = "adjusting" /\ call'[d].check = k =>
                    Sum(Till(k))' + call'[d].amount <= PaidByGuests'
<1> DEFINE T == Till(k)
           Covered == \A d \in Calls :
              call[d].pc = "adjusting" /\ call[d].check = k =>
                  Sum(T) + call[d].amount <= PaidByGuests
<1>0. /\ Covered /\ Sum(T) <= PaidByGuests
      /\ Rows(T) /\ \A x \in T : x.amount >= 0
      /\ Sum(T) \in Int /\ Used \in Int /\ Sum(T) <= Used
      /\ SucceededAmount \in Int /\ SucceededAmount <= PaidByGuests
      /\ PaidByGuests \in Int /\ PaidByGuests' \in Int
      /\ PaidByGuests <= PaidByGuests'
  BY TillTypes, TillIs, SucceededWithinPaid, PaidGrows
     DEF IInv, MoneyInv, TillInv
<1>1. \/ T' \subseteq T
      \/ \E c \in Calls : /\ AdjustWrite(c) /\ call[c].check = k
                          /\ T' \subseteq T \cup {TillCredit(c)}
  BY TillChanges
<1> HIDE DEF T
<1>2. ASSUME T' \subseteq T
      PROVE  Sum(T') \in Int /\ Sum(T') <= Sum(T)
  <2>1. T' \in SUBSET T /\ \A x \in T \ T' : x.amount >= 0
    BY <1>0, <1>2
  <2> QED BY <1>0, <2>1, SumMonotonic
<1>3. ASSUME NEW c \in Calls, AdjustWrite(c), call[c].check = k,
             T' \subseteq T \cup {TillCredit(c)}
      PROVE  /\ Sum(T') <= PaidByGuests'
             /\ \A d \in Calls :
                  ~(call'[d].pc = "adjusting" /\ call'[d].check = k)
  <2>1. call[c].pc = "adjusting" /\ call[c].amount \in Nat
    BY <1>3, CallType DEF AdjustWrite, StaffCall
  <2>2. TillCredit(c).amount = call[c].amount
    BY DEF TillCredit
  <2> DEFINE U == T \cup {TillCredit(c)}
  <2>3. /\ Rows(U) /\ Sum(U) = IF TillCredit(c) \in T THEN Sum(T)
                               ELSE Sum(T) + TillCredit(c).amount
    BY <1>0, <2>1, <2>2, SumAdd
  <2>4. T' \in SUBSET U /\ \A x \in U \ T' : x.amount >= 0
    BY <1>0, <1>3, <2>1, <2>2
  <2> HIDE DEF U
  <2>5. Sum(T') \in Int /\ Sum(T') <= Sum(U) /\ Sum(U) \in Int
    BY <2>3, <2>4, SumMonotonic
  <2>6. Sum(T) + call[c].amount <= PaidByGuests
    BY <1>0, <1>3, <2>1
  <2>7. Sum(T') <= PaidByGuests'
    BY <1>0, <2>1, <2>2, <2>3, <2>5, <2>6
  <2> QED BY <1>3, <2>7, WriterLeaves
<1>4. ASSUME T' \subseteq T, NEW d \in Calls,
             call'[d].pc = "adjusting", call'[d].check = k
      PROVE  Sum(T') + call'[d].amount <= PaidByGuests'
  <2>1. call'[d].amount \in Nat
    BY CallsStep DEF StaffCall
  <2>2. call'[d] = call[d] \/ call'[d].amount <= SucceededAmount - Used
    <3>1. CASE UNCHANGED call
      BY <3>1
    <3>2. ASSUME NEW c \in Calls, NEW q \in StaffCall, Moved(c, q)
          PROVE  \/ call'[d] = call[d]
                 \/ call'[d].amount <= SucceededAmount - Used
      <4>1. call'[c] = q /\ (d # c => call'[d] = call[d])
        BY <3>2, MovedIs
      <4>2. CASE d = c
        BY <1>4, <3>2, <4>1, <4>2 DEF Moved
      <4> QED BY <4>1, <4>2
    <3> QED BY <3>1, <3>2, OneMoves
  <2>3. CASE call'[d] = call[d]
    <3>1. Sum(T) + call[d].amount <= PaidByGuests
      BY <1>0, <1>4, <2>3
    <3> QED BY <1>0, <1>2, <1>4, <2>1, <2>3, <3>1
  <2>4. CASE call'[d].amount <= SucceededAmount - Used
    BY <1>0, <1>2, <1>4, <2>1, <2>4
  <2> QED BY <2>2, <2>3, <2>4
<1>5. T' \subseteq T => Sum(T') <= PaidByGuests'
  BY <1>0, <1>2
<1>6. /\ Sum(T') <= PaidByGuests'
      /\ \A d \in Calls :
           call'[d].pc = "adjusting" /\ call'[d].check = k =>
               Sum(T') + call'[d].amount <= PaidByGuests'
  BY <1>1, <1>3, <1>4, <1>5
<1>7. Sum(T') = Sum(Till(k))'
  BY Zenon DEF T
<1> QED BY <1>6, <1>7

LEMMA TillStep ==
    ASSUME IInv, [Next]_vars
    PROVE  TillInv' /\ TillCreditWasPaid'
<1>1. \A k \in Checks :
        /\ Sum(Till(k))' <= PaidByGuests'
        /\ \A d \in Calls :
             call'[d].pc = "adjusting" /\ call'[d].check = k =>
                 Sum(Till(k))' + call'[d].amount <= PaidByGuests'
  BY TillCheckStep
<1>2. TillCreditWasPaid'
  BY <1>1, TillIs
<1>3. TillInv'
  BY <1>1 DEF TillInv
<1> QED BY <1>2, <1>3

-----------------------------------------------------------------------------
(* The invariant *)

LEMMA NewCallType ==
    ASSUME NEW kind \in Kinds, NEW a \in Amounts(kind), NEW q \in Named(kind)
    PROVE  /\ NewCall(kind, a, q) \in StaffCall
           /\ KindInv(NewCall(kind, a, q)) /\ NewCall(kind, a, q).pc = "idle"
           /\ NewCall(kind, a, q).voids = {}
           /\ NewCall(kind, a, q).holds = FALSE
<1> DEFINE k == NewCall(kind, a, q)
<1>1. /\ a \in Nat /\ (kind \notin Outcomes \cup {"arrive"} => a > 0)
      /\ q \in Checks \cup {NoCheck}
      /\ kind \in {"apply", "arrive", "adjust"} => q \in Checks
  BY ReservationDepositAssumption DEF Amounts, Named
<1>2. /\ k \in StaffCall /\ k.pc = "idle" /\ k.kind = kind /\ k.amount = a
      /\ k.check = q /\ k.holds = FALSE /\ k.voids = {}
  BY <1>1, ReservationDepositAssumption DEF NewCall, StaffCall, Steps
<1> HIDE DEF k
<1>3. KindInv(k)
  BY <1>1, <1>2 DEF KindInv, RefundSteps
<1> QED BY <1>2, <1>3 DEF k

LEMMA InitCalls ==
    ASSUME Init
    PROVE  /\ call \in [Calls -> StaffCall]
           /\ \A c \in Calls :
                /\ KindInv(call[c]) /\ call[c].pc = "idle"
                /\ call[c].voids = {} /\ call[c].holds = FALSE
<1> DEFINE K ==
       UNION {{NewCall(kind, x[1], x[2]) : x \in Amounts(kind) \X Named(kind)}
                 : kind \in Kinds}
<1>1. call \in [Calls -> K]
  BY DEF Init
<1>2. \A k \in K : /\ k \in StaffCall /\ KindInv(k) /\ k.pc = "idle"
                   /\ k.voids = {} /\ k.holds = FALSE
  <2> TAKE k \in K
  <2>1. PICK kind \in Kinds :
           \E x \in Amounts(kind) \X Named(kind) : k = NewCall(kind, x[1], x[2])
    OBVIOUS
  <2>2. PICK a \in Amounts(kind), q \in Named(kind) : k = NewCall(kind, a, q)
    BY <2>1
  <2> QED BY <2>2, NewCallType
<1> HIDE DEF K
<1> QED BY <1>1, <1>2

LEMMA InitControl ==
    ASSUME Init
    PROVE  TypeOK /\ ControlInv
<1>0. /\ status = "active" /\ bill = [k \in Checks |-> "open"]
      /\ ledger = {} /\ applications = {} /\ credits = {}
      /\ refunds = {} /\ bounced = {}
      /\ attempt = [n \in Attempts |-> NoAttempt] /\ succeeded = <<>>
      /\ session = [n \in Attempts |-> "none"] /\ lapsed = {}
      /\ guest = [g \in Guests |-> NewRequest]
  BY DEF Init
<1>1. /\ call \in [Calls -> StaffCall]
      /\ \A c \in Calls :
           /\ KindInv(call[c]) /\ call[c].pc = "idle"
           /\ call[c].voids = {} /\ call[c].holds = FALSE
  BY InitCalls
<1>2. NewRequest \in Request /\ NewRequest.pc = "start"
  BY ReservationDepositAssumption DEF NewRequest, AtRest, Request
<1>3. guest \in [Guests -> Request] /\ \A g \in Guests : guest[g].pc = "start"
  BY <1>0, <1>2
<1>4. RowsInv
  BY <1>0, <1>1, <1>3, FS_EmptySet DEF RowsInv
<1>5. \A n \in Attempts : attempt[n].state = "NONE" /\ session[n] = "none"
  BY <1>0 DEF NoAttempt
<1>6. TypeOK
  <2>1. attempt \in [Attempts -> [state : States, amount : Nat]]
    BY <1>0 DEF NoAttempt, States
  <2>2. /\ \A g \in Guests :
             /\ guest[g].pc \in {"start", "lock", "retrieve", "create", "done"}
             /\ guest[g].open \in 0..MaxAttempts /\ guest[g].amount \in Nat
        /\ \A c \in Calls :
             /\ call[c].pc \in Steps /\ call[c].kind \in Kinds
             /\ call[c].amount \in Nat /\ call[c].applied \in Nat
             /\ call[c].check \in Checks \cup {NoCheck}
             /\ call[c].voids \subseteq credits
    BY <1>1, <1>3 DEF Request, StaffCall
  <2>3. succeeded \in Seq(Attempts)
    BY <1>0, EmptySeq
  <2> QED BY <1>0, <2>1, <2>2, <2>3 DEF TypeOK, Active
<1>7. AttemptInv
  BY <1>5 DEF AttemptInv
<1>8. GuestInv
  BY <1>3 DEF GuestInv, AtStripe
<1>9. OneOpenAttempt
  BY <1>5 DEF OneOpenAttempt, OpenAttempts
<1>10. Exclusive
  BY <1>1 DEF Exclusive, HasCheck, RefundSteps
<1>11. HeldInv /\ AskedInv /\ KeysInv
  BY <1>0, <1>1 DEF HeldInv, AskedInv, KeysInv
<1>12. CapturesWerePaid /\ RefundsOncePerRequest
  BY <1>0 DEF CapturesWerePaid, RefundsOncePerRequest, Exists
<1> QED BY <1>1, <1>4, <1>6, <1>7, <1>8, <1>9, <1>10, <1>11, <1>12
        DEF ControlInv

LEMMA InitMoney ==
    ASSUME Init
    PROVE  MoneyInv
<1>0. \A c \in Calls : call[c].pc = "idle"
  BY InitCalls
<1>1. FamilyInv /\ TillInv
  BY <1>0 DEF FamilyInv, TillInv, RefundSteps
<1>2. Rows({}) /\ Sum({}) = 0
  BY FS_EmptySet, SumType DEF Rows
<1>3. EachFamilyWithinInflow
  <2>1. Inflow = 0
    BY <1>2 DEF Init, Inflow
  <2>2. \A b : {r \in ledger : r.amount < 0 /\ ByStripe(r) = b} = {}
    BY DEF Init
  <2>3. StripeOut = 0 /\ StaffOut = 0
    BY <1>2, <2>2 DEF StripeOut, StaffOut, Outflow
  <2> QED BY <2>1, <2>3, EachFamilyIs
<1>4. TillCreditWasPaid
  <2>1. \A k \in Checks : Till(k) = {}
    BY DEF Init, Till, CreditsOn, ActiveCredits
  <2>2. Paid = {}
    BY DEF Init, Paid
  <2>3. AttemptSum(attempt, {}) = 0
    <3> DEFINE f == [n \in {} |-> attempt[n].amount]
    <3>1. IsFiniteSet({}) /\ f \in [{} -> Int]
      BY FS_EmptySet
    <3>2. PICK g : Sums(g, f, {})
      <4> HIDE DEF f
      <4> QED BY <3>1, SumsExist
    <3>3. AttemptSum(attempt, {}) = g[{}]
      <4>1. \A n \in {} : attempt[n].amount \in Int
        OBVIOUS
      <4>2. \A T \in SUBSET {} : AttemptSum(attempt, T) = g[T]
        BY <3>1, <3>2, <4>1, AttemptSums
      <4> QED BY <4>2
    <3>4. g[{}] = 0
      <4> HIDE DEF f
      <4> QED BY <3>1, <3>2, SumsType
    <3> QED BY <3>3, <3>4
  <2>4. PaidByGuests = AttemptSum(attempt, Paid)
    BY Zenon DEF PaidByGuests, Paid, AttemptSum
  <2> QED BY <1>2, <2>1, <2>2, <2>3, <2>4, TillIs
<1> QED BY <1>1, <1>3, <1>4 DEF MoneyInv

LEMMA Inductive == Spec => []IInv
<1>1. Init => IInv
  BY InitControl, InitMoney DEF IInv
<1>2. IInv /\ [Next]_vars => IInv'
  BY TypeStep, ControlStep, FamilyStep, TillStep DEF IInv, MoneyInv
<1> QED BY <1>1, <1>2, PTL DEF Spec

-----------------------------------------------------------------------------
(* The theorems *)

\* The rows, Stripe's records and the requests have their types.
THEOREM DepositTypeCorrect == Spec => []TypeOK
<1>1. IInv => TypeOK
  BY DEF IInv
<1> QED BY <1>1, Inductive, PTL

\* However many guests' requests, expiries and webhooks cross, one attempt is
\* open at most (createCheckout).
THEOREM OneOpen == Spec => []OneOpenAttempt
<1>1. IInv => OneOpenAttempt
  BY DEF IInv, ControlInv
<1> QED BY <1>1, Inductive, PTL

\* A capture in the ledger is of a session that Stripe was paid, and of the
\* amount of its attempt (captureSucceededSession).
THEOREM CapturesPaid == Spec => []CapturesWerePaid
<1>1. IInv => CapturesWerePaid
  BY DEF IInv, ControlInv
<1> QED BY <1>1, Inductive, PTL

\* A refund request asks for money once however often it is tried, and Stripe
\* has accepted what the ledger shows as refunded (refundProviderDeposit).
THEOREM RefundsOnce == Spec => []RefundsOncePerRequest
<1>1. IInv => RefundsOncePerRequest
  BY DEF IInv, ControlInv
<1> QED BY <1>1, Inductive, PTL

\* Neither staff's records nor the refunds through Stripe take more out of the
\* ledger than came in (recordDeposit, refundProviderDeposit).
THEOREM WithinInflow == Spec => []EachFamilyWithinInflow
<1>1. IInv => EachFamilyWithinInflow
  BY DEF IInv, MoneyInv
<1> QED BY <1>1, Inductive, PTL

\* Guests have paid for the credit that the till puts on one check, whatever
\* is credited on others (applyAdjustment).
THEOREM TillPaid == Spec => []TillCreditWasPaid
<1>1. IInv => TillCreditWasPaid
  BY DEF IInv, MoneyInv
<1> QED BY <1>1, Inductive, PTL

\* A paid session that is not in the ledger is never passed over
\* (captureSucceededSession).
THEOREM PaidCapturable == Spec => []PaidStaysCapturable
<1>1. IInv => PaidStaysCapturable
  BY DEF IInv, ControlInv, AttemptInv, PaidStaysCapturable, Captured
<1> QED BY <1>1, Inductive, PTL

\* A check that was paid with a credit keeps it (refundProviderDeposit,
\* voidAdjustment).
THEOREM PaidBillKeeps == Spec => PaidBillKeepsCredit
<1>1. IInv /\ [Next]_vars =>
        [\A k \in Checks :
           ~Mutable(k) => CreditsOn(k) \subseteq ActiveCredits']_vars
  <2> SUFFICES ASSUME IInv, [Next]_vars, NEW k \in Checks, ~Mutable(k)
               PROVE  CreditsOn(k) \subseteq ActiveCredits'
    OBVIOUS
  <2>1. CASE credits \subseteq credits'
    BY <2>1 DEF CreditsOn, ActiveCredits
  <2>2. ASSUME NEW x \in ActiveCredits, VoidAdjustment(x),
               credits' = (credits \ {x}) \cup {Voided(x)}
        PROVE  CreditsOn(k) \subseteq ActiveCredits'
    <3>1. x \notin CreditsOn(k)
      BY <2>2 DEF VoidAdjustment, CreditsOn
    <3> QED BY <2>2, <3>1 DEF CreditsOn, ActiveCredits
  <2>3. ASSUME NEW c \in Calls, RefundWrite(c), Releases(c),
               credits' = (credits \ call[c].voids)
                             \cup TakenBack(call[c].voids)
        PROVE  CreditsOn(k) \subseteq ActiveCredits'
    <3>1. /\ Mutable(call[c].check)
          /\ call[c].voids \subseteq CreditRows(call[c].check)
      BY <2>3, TakesBack
    <3>2. CreditsOn(k) \cap call[c].voids = {}
      BY <3>1 DEF CreditsOn, CreditRows
    <3> QED BY <2>3, <3>2 DEF CreditsOn, ActiveCredits
  <2> QED BY <2>1, <2>2, <2>3, CreditChanges
<1> QED BY <1>1, Inductive, PTL DEF Spec, PaidBillKeepsCredit

=============================================================================
