------------------------- MODULE ProviderRefundProofs -------------------------
(***************************************************************************)
(* Proofs about ProviderRefund, for every set of requests, every finite    *)
(* set of keys, either provider or both, and every captured amount.        *)
(***************************************************************************)
EXTENDS ProviderRefund, FiniteSetTheorems, WellFoundedInduction, TLAPS

-----------------------------------------------------------------------------
(* A sum of natural numbers is one.  What is proved by induction is stated *)
(* as a set, Good, of the numbers or sets that satisfy it.                 *)

LEMMA LeastElement ==
    ASSUME NEW T \in SUBSET Nat, T # {}
    PROVE  \E m \in T : \A n \in T : m <= n
<1>1. PICK R : /\ IsWellFoundedOn(R, Nat)
               /\ \A m, n \in Nat : m < n => <<m, n>> \in R
  BY NatLessThanWellFounded DEF OpToRel
<1>2. PICK m \in T : \A n \in T : ~(<<n, m>> \in R)
  <2>1. IsWellFoundedOn(R, Nat) /\ T \subseteq Nat
    BY <1>1
  <2> QED BY <2>1, WFMin, Zenon
<1>3. \A n \in T : ~(n < m)
  BY <1>1, <1>2
<1> QED BY <1>2, <1>3

LEMMA CountingInduction ==
    ASSUME NEW Good, 0 \in Good, \A n \in Nat : n \in Good => n + 1 \in Good
    PROVE  Nat \subseteq Good
<1> SUFFICES ASSUME Nat \ Good # {} PROVE FALSE
  OBVIOUS
<1>1. PICK m \in Nat \ Good : \A n \in Nat \ Good : m <= n
  BY LeastElement
<1>2. m - 1 \in Nat /\ m - 1 \in Good
  BY <1>1
<1> QED BY <1>1, <1>2

LEMMA SubsetInduction ==
    ASSUME NEW S, IsFiniteSet(S), NEW Good,
           \A s \in SUBSET S :
              (\A t \in SUBSET S : Cardinality(t) < Cardinality(s) => t \in Good)
                 => s \in Good
    PROVE  SUBSET S \subseteq Good
<1> SUFFICES ASSUME NEW bad \in SUBSET S, bad \notin Good PROVE FALSE
  OBVIOUS
<1> DEFINE T == {Cardinality(s) : s \in {t \in SUBSET S : t \notin Good}}
<1>1. \A s \in SUBSET S : Cardinality(s) \in Nat
  BY FS_Subset, FS_CardinalityType
<1>2. T \in SUBSET Nat /\ T # {}
  BY <1>1
<1> HIDE DEF T
<1>3. PICK m \in T : \A n \in T : m <= n
  BY <1>2, LeastElement
<1> USE DEF T
<1>4. PICK s \in SUBSET S : s \notin Good /\ m = Cardinality(s)
  OBVIOUS
<1>5. \A t \in SUBSET S : t \notin Good => Cardinality(t) \in T
  OBVIOUS
<1> HIDE DEF T
<1>6. \A t \in SUBSET S : Cardinality(t) < Cardinality(s) => t \in Good
  BY <1>1, <1>3, <1>4, <1>5
<1> QED BY <1>4, <1>6

Pick(s) == CHOOSE x \in s : TRUE
Rest(s) == s \ {Pick(s)}

LEMMA RestSmaller ==
    ASSUME NEW S, IsFiniteSet(S), NEW s \in SUBSET S, s # {}
    PROVE  /\ Pick(s) \in s /\ Rest(s) \in SUBSET S
           /\ Cardinality(s) \in Nat /\ Cardinality(Rest(s)) \in Nat
           /\ Cardinality(Rest(s)) = Cardinality(s) - 1
<1>1. Pick(s) \in s
  BY DEF Pick
<1>2. IsFiniteSet(s)
  BY FS_Subset
<1> QED
  BY <1>1, <1>2, FS_RemoveElement, FS_CardinalityType DEF Rest

\* g sums f over the subsets of S, taking out one element after the other.
Sums(g, f, S) ==
    g = [s \in SUBSET S |-> IF s = {} THEN 0 ELSE f[Pick(s)] + g[Rest(s)]]

LEMMA SumsExist ==
    ASSUME NEW S, IsFiniteSet(S), NEW f \in [S -> Int]
    PROVE  \E g : Sums(g, f, S)
<1> DEFINE Upto(n) == {s \in SUBSET S : Cardinality(s) <= n}
           Next1(g, s) == IF s = {} THEN 0 ELSE f[Pick(s)] + g[Rest(s)]
           Good == {n \in Nat : \E g \in [Upto(n) -> Int] :
                       \A s \in Upto(n) : g[s] = Next1(g, s)}
<1>1. 0 \in Good
  <2> DEFINE g == [s \in Upto(0) |-> 0]
  <2>1. \A s \in Upto(0) : s = {}
    <3> SUFFICES ASSUME NEW s \in Upto(0), s # {} PROVE FALSE
      OBVIOUS
    <3>1. s \in SUBSET S /\ Cardinality(s) <= 0
      OBVIOUS
    <3>2. Cardinality(s) \in Nat /\ Cardinality(Rest(s)) \in Nat
          /\ Cardinality(Rest(s)) = Cardinality(s) - 1
      BY <3>1, RestSmaller
    <3> HIDE DEF Upto
    <3> QED BY <3>1, <3>2
  <2>2. g \in [Upto(0) -> Int] /\ \A s \in Upto(0) : g[s] = Next1(g, s)
    BY <2>1
  <2> QED BY <2>2
<1>2. ASSUME NEW n \in Nat, n \in Good PROVE n + 1 \in Good
  <2>1. PICK g \in [Upto(n) -> Int] : \A s \in Upto(n) : g[s] = Next1(g, s)
    BY <1>2
  <2> DEFINE h == [s \in Upto(n + 1) |-> Next1(g, s)]
  <2>2. ASSUME NEW s \in Upto(n + 1), s # {}
        PROVE  /\ Rest(s) \in Upto(n) /\ Rest(s) \in Upto(n + 1)
               /\ f[Pick(s)] \in Int
    BY <2>2, RestSmaller
  <2>3. h \in [Upto(n + 1) -> Int]
    BY <2>1, <2>2
  <2>4. \A s \in Upto(n) : s \in Upto(n + 1) => h[s] = g[s]
    BY <2>1
  <2>5. \A s \in Upto(n + 1) : h[s] = Next1(h, s)
    BY <2>2, <2>4
  <2>6. n + 1 \in Nat /\ \E k \in [Upto(n + 1) -> Int] :
           \A s \in Upto(n + 1) : k[s] = Next1(k, s)
    <3> HIDE DEF h, Upto, Next1
    <3> QED BY <2>3, <2>5
  <2> QED BY <2>6
<1>3. Cardinality(S) \in Nat
  BY FS_CardinalityType
<1>4. Cardinality(S) \in Good
  <2> HIDE DEF Good
  <2> QED BY <1>1, <1>2, <1>3, CountingInduction
<1>5. PICK g \in [Upto(Cardinality(S)) -> Int] :
         \A s \in Upto(Cardinality(S)) : g[s] = Next1(g, s)
  BY <1>4
<1>6. Upto(Cardinality(S)) = SUBSET S
  BY FS_Subset
<1> QED BY <1>5, <1>6 DEF Sums

LEMMA SumNat ==
    ASSUME NEW S, IsFiniteSet(S), NEW f \in [S -> Nat], NEW g, Sums(g, f, S)
    PROVE  g[S] \in Nat
<1> DEFINE Good == {s \in SUBSET S : g[s] \in Nat}
<1>1. ASSUME NEW s \in SUBSET S,
             \A t \in SUBSET S : Cardinality(t) < Cardinality(s) => t \in Good
      PROVE  s \in Good
  <2>1. CASE s = {}
    BY <2>1 DEF Sums
  <2>2. CASE s # {}
    <3>1. Pick(s) \in S /\ g[Rest(s)] \in Nat
      BY <1>1, <2>2, RestSmaller
    <3> QED BY <2>2, <3>1 DEF Sums
  <2> QED BY <2>1, <2>2
<1>2. SUBSET S \subseteq Good
  <2> HIDE DEF Good
  <2> QED BY <1>1, SubsetInduction
<1> QED BY <1>2

\* What requests and notifications sum up are amounts.
LEMMA SumType ==
    ASSUME TypeOK, NEW ks \in SUBSET Keys
    PROVE  Sum(ks) \in Nat
<1> DEFINE f == [k \in ks |-> refund[k].amount]
           Body(g) == [s \in SUBSET ks |->
                         IF s = {} THEN 0
                         ELSE refund[CHOOSE x \in s : TRUE].amount
                                + g[s \ {CHOOSE x \in s : TRUE}]]
           iter == CHOOSE g : g = Body(g)
<1>1. IsFiniteSet(ks)
  BY ProviderRefundAssumption, FS_Subset
<1>2. f \in [ks -> Nat]
  BY DEF TypeOK
<1>3. \A g : Sums(g, f, ks) <=> g = Body(g)
  <2> TAKE g
  <2> DEFINE next == [s \in SUBSET ks |->
                        IF s = {} THEN 0 ELSE f[Pick(s)] + g[Rest(s)]]
  <2>1. ASSUME NEW s \in SUBSET ks, s # {}
        PROVE  f[Pick(s)] + g[Rest(s)]
                 = refund[CHOOSE x \in s : TRUE].amount
                     + g[s \ {CHOOSE x \in s : TRUE}]
    BY <2>1 DEF Pick, Rest
  <2>2. next = Body(g)
    BY <2>1
  <2> QED BY <2>2 DEF Sums
<1>4. PICK g : Sums(g, f, ks)
  BY <1>1, <1>2, SumsExist
<1>5. Sums(iter, f, ks)
  <2>1. iter = Body(iter)
    <3> HIDE DEF Body
    <3> QED BY <1>3, <1>4
  <2> QED BY <1>3, <2>1
<1>6. iter[ks] \in Nat
  <2> HIDE DEF f, iter
  <2> QED BY <1>1, <1>2, <1>5, SumNat
<1>7. Sum(ks) = iter[ks]
  BY DEF Sum, MapThenSumSet, MapThenFoldSet
<1> QED BY <1>6, <1>7

-----------------------------------------------------------------------------
(* The inductive invariant *)

Holds(r) == req[r].pc \in {"ask", "answer"}

\* A key has one request that created its row and still asks or answers.
OneHolder ==
    \A r, s \in Requests :
        Holds(r) /\ Holds(s) /\ req[r].key = req[s].key => r = s

\* What is written as the row's state is an answer.
Answered ==
    \A r \in Requests : req[r].pc = "answer" => req[r].answer # "none"

\* Before it asks, the provider knows nothing of the key; what it was told
\* stays true until it is written.
HolderInv ==
    \A r \in Requests :
        /\ req[r].pc = "ask" =>
             /\ refund[req[r].key].state = "PROCESSING"
             /\ sentTo[req[r].key] = 0
        /\ req[r].pc = "answer" =>
             /\ refund[req[r].key].state # "NONE"
             /\ req[r].answer = "SUCCEEDED" =>
                  provider = "stripe" /\ moved[req[r].key] # "no"
             /\ req[r].answer = "FAILED" => moved[req[r].key] = "no"

\* No row, no question; no question, no money.
KeyInv ==
    \A k \in Keys :
        /\ refund[k].state = "NONE" => sentTo[k] = 0
        /\ sentTo[k] = 0 => moved[k] = "no"

\* What a notification tells is still true when its transaction ends; only
\* Adyen notifies.
Told(h) ==
    /\ h.code = "done" => moved[h.key] \in {"paid", "undone"}
    /\ h.code = "refused" => moved[h.key] = "refused"
    /\ h.code = "late" => moved[h.key] = "undone"
HooksInv == \A h \in hooks : provider = "adyen" /\ Told(h)

RowsInv ==
    /\ Answered /\ OneHolder /\ HolderInv /\ KeyInv /\ HooksInv
    /\ SucceededWasConfirmed /\ PaidRefundStaysVisible /\ AskedOncePerKey

IInv == TypeOK /\ RowsInv

-----------------------------------------------------------------------------
(* Types *)

LEMMA StateForType == \A total : StateFor(total) \in OpStates
  BY DEF StateFor, OpStates

LEMMA EventsType == \A k : Events(k) \subseteq {"done", "refused", "late"}
<1> SUFFICES ASSUME NEW k PROVE Events(k) \subseteq {"done", "refused", "late"}
  OBVIOUS
<1>1. CASE moved[k] \in {"refused", "paid", "undone"}
  BY <1>1 DEF Events
<1>2. CASE moved[k] \notin {"refused", "paid", "undone"}
  BY <1>2 DEF Events
<1> QED BY <1>1, <1>2

LEMMA AlreadyType == TypeOK => AlreadyRefunded \in Nat
  BY SumType DEF AlreadyRefunded, InState

LEMMA InitType == Init => TypeOK /\ Answered
<1> SUFFICES ASSUME Init PROVE TypeOK
  BY DEF Init, Answered
<1> USE ProviderRefundAssumption
<1>1. req \in [Requests ->
          [pc : PCs, key : Keys, amount : 0..Captured, already : 0..Captured,
           answer : (RefundStates \ {"NONE"}) \cup {"none"}]]
  <2>1. ASSUME NEW r \in Requests
        PROVE  req[r] \in [pc : PCs, key : Keys, amount : 0..Captured,
                           already : 0..Captured,
                           answer : (RefundStates \ {"NONE"}) \cup {"none"}]
    BY DEF Init, PCs, RefundStates
  <2> QED BY <2>1 DEF Init
<1> QED BY <1>1 DEF Init, TypeOK, OpStates, RefundStates, NoRefund

RequestType ==
    [pc : PCs, key : Keys, amount : 0..Captured, already : 0..Captured,
     answer : (RefundStates \ {"NONE"}) \cup {"none"}]

LEMMA RequestTypeStep ==
    ASSUME TypeOK, NEW r \in Requests, RequestStep(r)
    PROVE  req' \in [Requests -> RequestType]
<1>1. req \in [Requests -> RequestType]
  BY DEF TypeOK, RequestType
<1>2. \A label \in PCs :
         Goto(r, label) => req' \in [Requests -> RequestType]
  BY <1>1 DEF RequestType, Goto
<1>3. \A n \in 0..Captured :
         /\ [req EXCEPT ![r].pc = "load", ![r].amount = n]
              \in [Requests -> RequestType]
         /\ [req EXCEPT ![r].pc = "lookup", ![r].already = n]
              \in [Requests -> RequestType]
  <2> SUFFICES ASSUME NEW n \in 0..Captured
               PROVE  /\ [req EXCEPT ![r].pc = "load", ![r].amount = n]
                           \in [Requests -> RequestType]
                      /\ [req EXCEPT ![r].pc = "lookup", ![r].already = n]
                           \in [Requests -> RequestType]
    OBVIOUS
  <2>1. /\ [[req[r] EXCEPT !.pc = "load"] EXCEPT !.amount = n] \in RequestType
        /\ [[req[r] EXCEPT !.pc = "lookup"] EXCEPT !.already = n] \in RequestType
    BY <1>1 DEF RequestType, PCs
  <2>2. [req EXCEPT ![r].pc = "load", ![r].amount = n]
           \in [Requests -> RequestType]
    BY <1>1, <2>1
  <2>3. [req EXCEPT ![r].pc = "lookup", ![r].already = n]
           \in [Requests -> RequestType]
    BY <1>1, <2>1
  <2> QED BY <2>2, <2>3
<1>4. \A a \in RefundStates \ {"NONE"} :
         [req EXCEPT ![r].pc = "answer", ![r].answer = a]
              \in [Requests -> RequestType]
  <2> SUFFICES ASSUME NEW a \in RefundStates \ {"NONE"}
               PROVE  [req EXCEPT ![r].pc = "answer", ![r].answer = a]
                         \in [Requests -> RequestType]
    OBVIOUS
  <2>1. [[req[r] EXCEPT !.pc = "answer"] EXCEPT !.answer = a] \in RequestType
    BY <1>1 DEF RequestType, PCs
  <2> QED BY <1>1, <2>1
<1>5. \A l \in {"lookup", "create", "ask", "answer", "operation", "done"} :
         l \in PCs
  BY DEF PCs
<1>6. CASE Plan(r)
  <2> DEFINE rest == Captured - AlreadyRefunded
  <2>1. CASE req' = [req EXCEPT ![r].pc = "load", ![r].amount = rest]
             /\ rest > 0
    <3>1. rest \in 0..Captured
      BY <2>1, AlreadyType, ProviderRefundAssumption
    <3> HIDE DEF rest
    <3> QED BY <2>1, <3>1, <1>3
  <2>2. CASE Goto(r, "done")
    BY <2>2, <1>2, <1>5
  <2> QED BY <1>6, <2>1, <2>2 DEF Plan
<1>7. CASE Load(r)
  <2>1. CASE req' = [req EXCEPT ![r].pc = "lookup",
                                ![r].already = AlreadyRefunded]
             /\ AlreadyRefunded + req[r].amount <= Captured
    <3>1. AlreadyRefunded \in 0..Captured
      BY <1>1, <2>1, AlreadyType, ProviderRefundAssumption DEF RequestType
    <3> QED BY <2>1, <3>1, <1>3
  <2>2. CASE Goto(r, "done")
    BY <2>2, <1>2, <1>5
  <2> QED BY <1>7, <2>1, <2>2 DEF Load
<1>8. CASE Lookup(r) \/ Create(r) \/ WriteAnswer(r) \/ WriteOperation(r)
           \/ Die(r)
  <2>1. \E l \in {"lookup", "create", "ask", "answer", "operation", "done"} :
           Goto(r, l)
    BY <1>8 DEF Lookup, Create, WriteAnswer, WriteOperation, Die
  <2> QED BY <2>1, <1>2, <1>5
<1>9. CASE Ask(r)
  <2>1. PICK a \in RefundStates \ {"NONE"} :
           req' = [req EXCEPT ![r].pc = "answer", ![r].answer = a]
    <3>1. \E a \in {"PROCESSING", "SUCCEEDED", "FAILED", "UNKNOWN"} :
             req' = [req EXCEPT ![r].pc = "answer", ![r].answer = a]
      BY <1>9 DEF Ask, Lost
    <3> QED BY <3>1 DEF RefundStates
  <2> QED BY <2>1, <1>4
<1> QED BY <1>6, <1>7, <1>8, <1>9 DEF RequestStep

LEMMA TypeStep == TypeOK /\ Answered /\ [Next]_vars => TypeOK'
<1> SUFFICES ASSUME TypeOK, Answered, [Next]_vars PROVE TypeOK'
  OBVIOUS
<1> USE DEF TypeOK, OpStates, RefundStates
<1>1. ASSUME NEW r \in Requests, RequestStep(r) PROVE TypeOK'
  <2>1. req' \in [Requests -> RequestType]
    BY <1>1, RequestTypeStep
  <2>2. /\ refund' \in [Keys -> [state : RefundStates, amount : 0..Captured]]
        /\ op' \in OpStates
    <3>1. CASE Plan(r) \/ Load(r) \/ Lookup(r) \/ Ask(r) \/ Die(r)
      BY <3>1 DEF Plan, Load, Lookup, Ask, Die, rows
    <3>2. CASE Create(r)
      BY <3>2 DEF Create
    <3>3. CASE WriteAnswer(r)
      BY <3>3 DEF WriteAnswer, Answered
    <3>4. CASE WriteOperation(r)
      BY <3>4, StateForType DEF WriteOperation
    <3> QED BY <1>1, <3>1, <3>2, <3>3, <3>4 DEF RequestStep
  <2>3. /\ moved' \in [Keys -> {"no", "accepted", "refused", "paid", "undone"}]
        /\ sentTo' \in [Keys -> Nat]
    <3>1. CASE Ask(r)
      BY <3>1 DEF Ask
    <3>2. CASE ~Ask(r)
      BY <1>1, <3>2 DEF RequestStep, Plan, Load, Lookup, Create, WriteAnswer,
                        WriteOperation, Die, atProvider
    <3> QED BY <3>1, <3>2
  <2>4. UNCHANGED <<provider, hooks, applied>>
    BY <1>1 DEF RequestStep, Plan, Load, Lookup, Create, Ask, WriteAnswer,
                WriteOperation, Die
  <2> QED BY <2>1, <2>2, <2>3, <2>4 DEF RequestType
<1>2. ASSUME NEW k \in Keys, Decide(k) \/ Undo(k) PROVE TypeOK'
  BY <1>2 DEF Decide, Undo, rows
<1>3. ASSUME NEW k \in Keys, Notify(k) PROVE TypeOK'
  <2>1. PICK code \in Events(k) : \E total :
           hooks' = hooks \cup {[key |-> k, code |-> code,
                                 state |-> StateFor(total)]}
    BY <1>3 DEF Notify
  <2> QED BY <1>3, <2>1, EventsType, StateForType DEF Notify, rows, atProvider
<1>4. ASSUME NEW h \in hooks, NotifyCommit(h) PROVE TypeOK'
  BY <1>4 DEF NotifyCommit, Outcome, atProvider
<1>5. ASSUME NEW h \in hooks, NotifyAbort(h) PROVE TypeOK'
  BY <1>5 DEF NotifyAbort, rows, atProvider
<1>6. CASE UNCHANGED vars
  BY <1>6 DEF vars, rows, atProvider
<1> QED BY <1>1, <1>2, <1>3, <1>4, <1>5, <1>6 DEF Next

LEMMA AnsweredStep == TypeOK /\ Answered /\ [Next]_vars => Answered'
<1> SUFFICES ASSUME TypeOK, Answered, [Next]_vars,
                    NEW s \in Requests, req'[s].pc = "answer"
             PROVE  req'[s].answer # "none"
  BY DEF Answered
<1>0. req \in [Requests -> RequestType]
  BY DEF TypeOK, RequestType
<1>1. ASSUME NEW r \in Requests, RequestStep(r) PROVE req'[s].answer # "none"
  <2>1. CASE Ask(r)
    <3>1. PICK a \in {"PROCESSING", "SUCCEEDED", "FAILED", "UNKNOWN"} :
             req' = [req EXCEPT ![r].pc = "answer", ![r].answer = a]
      BY <2>1 DEF Ask, Lost
    <3>2. CASE s = r
      BY <3>1, <3>2, <1>0 DEF RequestType
    <3>3. CASE s # r
      BY <3>1, <3>3, <1>0 DEF Answered
    <3> QED BY <3>2, <3>3
  <2>2. CASE Plan(r) \/ Load(r)
    BY <2>2, <1>0 DEF Plan, Load, Goto, Answered, RequestType
  <2>3. CASE Lookup(r) \/ Create(r) \/ WriteAnswer(r) \/ WriteOperation(r)
               \/ Die(r)
    <3>1. \E l \in {"create", "ask", "operation", "done"} : Goto(r, l)
      BY <2>3 DEF Lookup, Create, WriteAnswer, WriteOperation, Die
    <3> QED BY <3>1, <1>0 DEF Goto, Answered, RequestType
  <2> QED BY <1>1, <2>1, <2>2, <2>3 DEF RequestStep
<1>2. ASSUME UNCHANGED req PROVE req'[s].answer # "none"
  BY <1>2 DEF Answered
<1> QED BY <1>1, <1>2 DEF Next, Decide, Undo, Notify, NotifyCommit,
                          NotifyAbort, vars

\* The rows, the requests and the provider's records have their types.
THEOREM RefundTypeCorrect == Spec => []TypeOK
<1>1. TypeOK /\ Answered /\ [Next]_vars => (TypeOK /\ Answered)'
  BY TypeStep, AnsweredStep
<1> QED BY <1>1, InitType, PTL DEF Spec

-----------------------------------------------------------------------------
(* Rows, requests and the provider *)

LEMMA InitRows == Init => RowsInv
  BY DEF Init, RowsInv, Answered, OneHolder, Holds, HolderInv, KeyInv, HooksInv,
         SucceededWasConfirmed, PaidRefundStaysVisible, AskedOncePerKey, NoRefund

LEMMA QuietStep ==
    ASSUME IInv, NEW r \in Requests, RequestStep(r),
           UNCHANGED <<provider, refund, moved, sentTo, hooks>>,
           req'[r].pc \notin {"ask", "answer"},
           \A s \in Requests : s # r => req'[s] = req[s]
    PROVE  RowsInv'
<1>1. Answered' /\ OneHolder' /\ HolderInv'
  BY DEF IInv, RowsInv, Answered, OneHolder, Holds, HolderInv
<1> QED BY <1>1 DEF IInv, RowsInv, KeyInv, HooksInv, Told, SucceededWasConfirmed,
              PaidRefundStaysVisible, AskedOncePerKey

\* Steps of a request that ask nothing and write no refund.
LEMMA QuietRequestStep ==
    ASSUME IInv, NEW r \in Requests,
           \/ Plan(r) \/ Load(r) \/ Lookup(r) \/ WriteOperation(r) \/ Die(r)
    PROVE  RowsInv'
<1>0. req \in [Requests -> RequestType]
  BY DEF IInv, TypeOK, RequestType
<1>1. /\ UNCHANGED <<provider, refund, moved, sentTo, hooks>>
      /\ RequestStep(r)
  BY DEF Plan, Load, Lookup, WriteOperation, Die, RequestStep, rows, atProvider
<1>2. /\ req'[r].pc \notin {"ask", "answer"}
      /\ \A s \in Requests : s # r => req'[s] = req[s]
  <2>1. CASE Plan(r) \/ Load(r)
    BY <2>1, <1>0 DEF Plan, Load, Goto, RequestType
  <2>2. CASE Lookup(r) \/ WriteOperation(r) \/ Die(r)
    <3>1. \E l \in {"create", "done"} : Goto(r, l)
      BY <2>2 DEF Lookup, WriteOperation, Die
    <3> QED BY <3>1, <1>0 DEF Goto, RequestType
  <2> QED BY <2>1, <2>2
<1> QED BY <1>1, <1>2, QuietStep

LEMMA CreateStep ==
    ASSUME IInv, NEW r \in Requests, Create(r)
    PROVE  RowsInv'
<1>0. req \in [Requests -> RequestType]
  BY DEF IInv, TypeOK, RequestType
<1> DEFINE k == req[r].key
<1>1. CASE Taken(k)
  <2>1. /\ req'[r].pc = "done"
        /\ UNCHANGED <<provider, refund, moved, sentTo, hooks>>
        /\ \A s \in Requests : s # r => req'[s] = req[s]
    BY <1>0, <1>1 DEF Create, Goto, atProvider, RequestType
  <2> QED BY <2>1, QuietStep DEF RequestStep
<1>2. CASE ~Taken(k)
  <2>1. /\ k \in Keys /\ refund[k].state = "NONE"
        /\ sentTo[k] = 0 /\ moved[k] = "no"
    BY <1>0, <1>2 DEF Taken, IInv, RowsInv, KeyInv, RequestType
  <2>2. /\ \A j \in Keys : refund'[j].state =
               IF j = k THEN "PROCESSING" ELSE refund[j].state
        /\ UNCHANGED <<provider, moved, sentTo, hooks>>
    BY <2>1, <1>2 DEF Create, IInv, TypeOK, atProvider
  <2>3. \A s \in Requests : req'[s].key = req[s].key
           /\ req'[s].answer = req[s].answer
           /\ req'[s].pc = IF s = r THEN "ask" ELSE req[s].pc
    BY <1>0, <1>2 DEF Create, Goto, RequestType
  <2>4. \A s \in Requests : Holds(s) => req[s].key # k
    BY <2>1 DEF Holds, IInv, RowsInv, HolderInv
  <2>5. Answered' /\ OneHolder'
    BY <2>3, <2>4 DEF IInv, RowsInv, Answered, OneHolder, Holds
  <2>6. HolderInv'
    BY <2>1, <2>2, <2>3, <2>4, <1>0
       DEF IInv, RowsInv, HolderInv, Holds, RequestType
  <2>7. KeyInv' /\ HooksInv' /\ AskedOncePerKey'
    BY <2>1, <2>2 DEF IInv, RowsInv, KeyInv, HooksInv, Told, AskedOncePerKey
  <2>8. SucceededWasConfirmed' /\ PaidRefundStaysVisible'
    BY <2>1, <2>2 DEF IInv, RowsInv, SucceededWasConfirmed, PaidRefundStaysVisible
  <2> QED BY <2>5, <2>6, <2>7, <2>8 DEF RowsInv
<1> QED BY <1>1, <1>2

LEMMA AskStep ==
    ASSUME IInv, NEW r \in Requests, Ask(r)
    PROVE  RowsInv'
<1> DEFINE k == req[r].key
<1>0. req \in [Requests -> RequestType] /\ k \in Keys
  BY DEF IInv, TypeOK, RequestType
<1>1. /\ req[r].pc = "ask" /\ refund[k].state = "PROCESSING"
      /\ sentTo[k] = 0 /\ moved[k] = "no"
  BY <1>0 DEF Ask, IInv, RowsInv, HolderInv, KeyInv
<1>2. \A s \in Requests : s # r /\ Holds(s) => req[s].key # k
  BY <1>1 DEF IInv, RowsInv, OneHolder, Holds
<1>3. PICK a \in {"PROCESSING", "SUCCEEDED", "FAILED", "UNKNOWN"},
           m \in {"no", "accepted", "paid"} :
         /\ req' = [req EXCEPT ![r].pc = "answer", ![r].answer = a]
         /\ moved' = [moved EXCEPT ![k] = m]
         /\ a = "SUCCEEDED" => provider = "stripe" /\ m # "no"
         /\ a = "FAILED" => m = "no"
  <2>1. moved = [moved EXCEPT ![k] = "no"]
    BY <1>0, <1>1 DEF IInv, TypeOK
  <2>2. provider \in {"stripe", "adyen"}
    BY ProviderRefundAssumption DEF IInv, TypeOK
  <2>3. CASE UNCHANGED moved
    BY <2>1, <2>2, <2>3, <1>1 DEF Ask, Lost
  <2>4. CASE ~UNCHANGED moved
    BY <2>2, <2>4 DEF Ask, Lost
  <2> QED BY <2>3, <2>4
<1>4. /\ \A j \in Keys :
           /\ moved'[j] = IF j = k THEN m ELSE moved[j]
           /\ sentTo'[j] = IF j = k THEN 1 ELSE sentTo[j]
      /\ UNCHANGED <<provider, refund, hooks>>
  BY <1>0, <1>1, <1>3 DEF Ask, IInv, TypeOK, rows
<1>5. /\ req'[r].key = k /\ req'[r].pc = "answer" /\ req'[r].answer = a
      /\ \A s \in Requests : s # r => req'[s] = req[s]
  BY <1>0, <1>3 DEF RequestType
<1>a. Answered'
  BY <1>5 DEF IInv, RowsInv, Answered
<1>b. OneHolder'
  BY <1>2, <1>5 DEF IInv, RowsInv, OneHolder, Holds
<1>6. HolderInv'
  BY <1>0, <1>1, <1>2, <1>3, <1>4, <1>5
     DEF IInv, RowsInv, HolderInv, Holds, RequestType
<1>7. KeyInv' /\ AskedOncePerKey'
  BY <1>1, <1>3, <1>4 DEF IInv, RowsInv, KeyInv, AskedOncePerKey
<1>8. HooksInv'
  BY <1>1, <1>4 DEF IInv, RowsInv, HooksInv, Told, TypeOK
<1>9. SucceededWasConfirmed' /\ PaidRefundStaysVisible'
  BY <1>1, <1>3, <1>4 DEF IInv, RowsInv, SucceededWasConfirmed, PaidRefundStaysVisible
<1> QED BY <1>a, <1>b, <1>6, <1>7, <1>8, <1>9 DEF RowsInv

LEMMA WriteAnswerStep ==
    ASSUME IInv, NEW r \in Requests, WriteAnswer(r)
    PROVE  RowsInv'
<1> DEFINE k == req[r].key
           a == req[r].answer
<1>0. req \in [Requests -> RequestType] /\ k \in Keys
  BY DEF IInv, TypeOK, RequestType
<1>1. /\ req[r].pc = "answer" /\ refund[k].state # "NONE"
      /\ a = "SUCCEEDED" => provider = "stripe" /\ moved[k] # "no"
      /\ a = "FAILED" => moved[k] = "no"
      /\ a \in {"PROCESSING", "SUCCEEDED", "FAILED", "UNKNOWN"}
  BY <1>0 DEF WriteAnswer, IInv, RowsInv, HolderInv, Answered, RequestType,
              RefundStates
<1>2. \A s \in Requests : s # r /\ Holds(s) => req[s].key # k
  BY <1>1 DEF IInv, RowsInv, OneHolder, Holds
<1>3. \E l \in {"operation", "done"} : Goto(r, l)
  BY DEF WriteAnswer
<1>4. /\ \A s \in Requests : s # r => req'[s] = req[s]
      /\ req'[r].pc \in {"operation", "done"}
      /\ \A j \in Keys : refund'[j].state = IF j = k THEN a ELSE refund[j].state
      /\ UNCHANGED <<provider, moved, sentTo, hooks>>
  BY <1>0, <1>3 DEF WriteAnswer, Goto, IInv, TypeOK, RequestType, atProvider
<1>5. Answered' /\ OneHolder'
  BY <1>4 DEF IInv, RowsInv, Answered, OneHolder, Holds
<1>6. HolderInv'
  BY <1>0, <1>2, <1>4 DEF IInv, RowsInv, HolderInv, Holds, RequestType
<1>7. KeyInv' /\ AskedOncePerKey' /\ HooksInv'
  BY <1>1, <1>4
     DEF IInv, RowsInv, KeyInv, AskedOncePerKey, HooksInv, Told
<1>8. SucceededWasConfirmed' /\ PaidRefundStaysVisible'
  BY <1>1, <1>4 DEF IInv, RowsInv, SucceededWasConfirmed, PaidRefundStaysVisible
<1> QED BY <1>5, <1>6, <1>7, <1>8 DEF RowsInv

LEMMA ProviderStep ==
    ASSUME IInv, NEW k \in Keys, Decide(k) \/ Undo(k)
    PROVE  RowsInv'
<1>1. PICK m \in {"paid", "refused", "undone"} :
         /\ moved' = [moved EXCEPT ![k] = m]
         /\ \/ moved[k] = "accepted" /\ m # "undone"
            \/ moved[k] = "paid" /\ m = "undone"
         /\ UNCHANGED <<provider, refund, req, sentTo, hooks>>
  BY DEF Decide, Undo, rows
<1>2. \A j \in Keys : moved'[j] = IF j = k THEN m ELSE moved[j]
  BY <1>1 DEF IInv, TypeOK
<1>3. \A r \in Requests : req[r].key \in Keys
  BY DEF IInv, TypeOK
<1>4. Answered' /\ OneHolder' /\ HolderInv'
  BY <1>1, <1>2, <1>3
     DEF IInv, RowsInv, Answered, OneHolder, Holds, HolderInv
<1>5. KeyInv' /\ AskedOncePerKey'
  BY <1>1, <1>2 DEF IInv, RowsInv, KeyInv, AskedOncePerKey
<1>6. HooksInv'
  BY <1>1, <1>2 DEF IInv, RowsInv, HooksInv, Told, TypeOK
<1>7. SucceededWasConfirmed' /\ PaidRefundStaysVisible'
  BY <1>1, <1>2 DEF IInv, RowsInv, SucceededWasConfirmed, PaidRefundStaysVisible
<1> QED BY <1>4, <1>5, <1>6, <1>7 DEF RowsInv

LEMMA NotifyStep ==
    ASSUME IInv, NEW k \in Keys, Notify(k)
    PROVE  RowsInv'
<1>1. PICK code \in Events(k) : \E state :
         hooks' = hooks \cup {[key |-> k, code |-> code, state |-> state]}
  BY DEF Notify
<1>2. /\ code = "done" => moved[k] \in {"paid", "undone"}
      /\ code = "refused" => moved[k] = "refused"
      /\ code = "late" => moved[k] = "undone"
  <2>1. CASE moved[k] \in {"refused", "paid", "undone"}
    BY <2>1 DEF Events
  <2>2. CASE moved[k] \notin {"refused", "paid", "undone"}
    BY <2>2 DEF Events
  <2> QED BY <2>1, <2>2
<1>3. provider = "adyen" /\ UNCHANGED <<provider, refund, req, moved, sentTo>>
  BY DEF Notify, rows, atProvider
<1>4. HooksInv'
  BY <1>1, <1>2, <1>3 DEF IInv, RowsInv, HooksInv, Told
<1> QED BY <1>3, <1>4 DEF IInv, RowsInv, Answered, OneHolder, Holds, HolderInv,
        KeyInv, SucceededWasConfirmed, PaidRefundStaysVisible, AskedOncePerKey

LEMMA NotifyCommitStep ==
    ASSUME IInv, NEW h \in hooks, NotifyCommit(h)
    PROVE  RowsInv'
<1> DEFINE k == h.key
<1>0. k \in Keys /\ h.code \in {"done", "refused", "late"}
  BY DEF IInv, TypeOK
<1>1. /\ provider = "adyen"
      /\ moved[k] \in {"paid", "undone", "refused"} /\ sentTo[k] # 0
      /\ refund[k].state # "NONE"
      /\ h.code = "done" => moved[k] \in {"paid", "undone"}
      /\ h.code # "done" => moved[k] \in {"refused", "undone"}
  BY <1>0 DEF IInv, RowsInv, HooksInv, Told, KeyInv
<1>2. /\ \A j \in Keys : refund'[j].state =
              IF j = k THEN Outcome(h.code) ELSE refund[j].state
      /\ UNCHANGED <<provider, req, moved, sentTo>>
      /\ hooks' \subseteq hooks
  BY <1>0 DEF NotifyCommit, IInv, TypeOK, atProvider
<1>3. \A r \in Requests : req[r].key \in Keys
  BY DEF IInv, TypeOK
<1>4. Answered' /\ OneHolder' /\ HolderInv'
  BY <1>1, <1>2, <1>3
     DEF IInv, RowsInv, Answered, OneHolder, Holds, HolderInv, Outcome
<1>5. KeyInv' /\ AskedOncePerKey' /\ HooksInv'
  BY <1>1, <1>2
     DEF IInv, RowsInv, KeyInv, AskedOncePerKey, HooksInv, Told, Outcome
<1>6. SucceededWasConfirmed' /\ PaidRefundStaysVisible'
  BY <1>1, <1>2
     DEF IInv, RowsInv, SucceededWasConfirmed, PaidRefundStaysVisible, Outcome
<1> QED BY <1>4, <1>5, <1>6 DEF RowsInv

LEMMA RowsStep == IInv /\ [Next]_vars => RowsInv'
<1> SUFFICES ASSUME IInv, [Next]_vars PROVE RowsInv'
  OBVIOUS
<1>1. ASSUME NEW r \in Requests, RequestStep(r) PROVE RowsInv'
  BY <1>1, QuietRequestStep, CreateStep, AskStep, WriteAnswerStep
     DEF RequestStep
<1>2. ASSUME NEW k \in Keys, Decide(k) \/ Undo(k) \/ Notify(k) PROVE RowsInv'
  BY <1>2, ProviderStep, NotifyStep
<1>3. ASSUME NEW h \in hooks, NotifyCommit(h) PROVE RowsInv'
  BY <1>3, NotifyCommitStep
<1>4. ASSUME UNCHANGED <<provider, refund, req, moved, sentTo>>, hooks' \subseteq hooks
      PROVE  RowsInv'
  BY <1>4 DEF IInv, RowsInv, Answered, OneHolder, Holds, HolderInv, KeyInv,
        HooksInv, Told, SucceededWasConfirmed, PaidRefundStaysVisible,
        AskedOncePerKey
<1>5. ASSUME NEW h \in hooks, NotifyAbort(h) PROVE RowsInv'
  BY <1>4, <1>5 DEF NotifyAbort, rows, atProvider
<1>6. CASE UNCHANGED vars
  BY <1>4, <1>6 DEF vars, rows, atProvider
<1> QED BY <1>1, <1>2, <1>3, <1>5, <1>6 DEF Next

LEMMA Inductive == Spec => []IInv
<1>1. Init => IInv
  BY InitType, InitRows DEF IInv
<1>2. IInv /\ [Next]_vars => IInv'
  BY TypeStep, RowsStep DEF IInv, RowsInv
<1> QED BY <1>1, <1>2, PTL DEF Spec

\* Every refund the rows call successful is one that Adyen has paid or Stripe
\* has accepted.
THEOREM SuccessConfirmed == Spec => []SucceededWasConfirmed
<1>1. IInv => SucceededWasConfirmed
  BY DEF IInv, RowsInv
<1> QED BY <1>1, Inductive, PTL

\* Money that went back never has a row that says it failed.
THEOREM RefundVisible == Spec => []PaidRefundStaysVisible
<1>1. IInv => PaidRefundStaysVisible
  BY DEF IInv, RowsInv
<1> QED BY <1>1, Inductive, PTL

\* The provider is asked for the refund of a key once, however many requests
\* carry it.
THEOREM AskedOnce == Spec => []AskedOncePerKey
<1>1. IInv => AskedOncePerKey
  BY DEF IInv, RowsInv
<1> QED BY <1>1, Inductive, PTL
=============================================================================
