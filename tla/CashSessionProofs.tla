-------------------------- MODULE CashSessionProofs --------------------------
(***************************************************************************)
(* Proofs about CashSession, for every set of clients and operations and   *)
(* all bounds of sessions, movements and counts.                           *)
(***************************************************************************)
EXTENDS CashSession, SequenceTheorems, WellFoundedInduction, TLAPS

-----------------------------------------------------------------------------
(* The cash expected of a session is a number.  What is proved by induction *)
(* is stated as a set, Good, of the numbers that satisfy it.               *)

LEMMA LeastElement ==
    ASSUME NEW T \in SUBSET Nat, T # {}
    PROVE  \E m \in T : \A n \in T : m <= n
<1>1. PICK R : /\ IsWellFoundedOn(R, Nat)
               /\ \A m, n \in Nat : m < n => <<m, n>> \in R
  BY NatLessThanWellFounded DEF OpToRel
<1>2. PICK m \in T : \A n \in T : ~(<<n, m>> \in R)
  <2>1. IsWellFoundedOn(R, Nat) /\ T \subseteq Nat
    BY <1>1
  <2> QED BY <2>1, WFMin, Zenon
<1>3. \A n \in T : ~(n < m)
  BY <1>1, <1>2
<1> QED BY <1>2, <1>3

LEMMA CountingInduction ==
    ASSUME NEW Good, 0 \in Good, \A n \in Nat : n \in Good => n + 1 \in Good
    PROVE  Nat \subseteq Good
<1> SUFFICES ASSUME Nat \ Good # {} PROVE FALSE
  OBVIOUS
<1>1. PICK m \in Nat \ Good : \A n \in Nat \ Good : m <= n
  BY LeastElement
<1>2. m - 1 \in Nat /\ m - 1 \in Good
  BY <1>1
<1> QED BY <1>1, <1>2

Total(q) ==
    LET sum[n \in 0..Len(q)] == IF n = 0 THEN 0 ELSE sum[n - 1] + q[n]
    IN sum[Len(q)]

LEMMA TotalType ==
    ASSUME NEW q \in Seq(Int)
    PROVE  Total(q) \in Int
<1> DEFINE Body(g) == [n \in 0..Len(q) |-> IF n = 0 THEN 0 ELSE g[n - 1] + q[n]]
           sum == CHOOSE g : g = Body(g)
           Sums(g, m) == \A n \in 0..m :
                            g[n] = IF n = 0 THEN 0 ELSE g[n - 1] + q[n]
           Exists == {m \in Nat : m <= Len(q) =>
                        \E g \in [0..m -> Int] : Sums(g, m)}
           Numbers == {n \in Nat : n <= Len(q) => sum[n] \in Int}
<1>0. Len(q) \in Nat /\ \A n \in 1..Len(q) : q[n] \in Int
  BY LenProperties, ElementOfSeq
<1>1. 0 \in Exists
  <2> DEFINE g == [n \in 0..0 |-> 0]
  <2>1. g \in [0..0 -> Int] /\ Sums(g, 0)
    OBVIOUS
  <2> QED BY <2>1
<1>2. ASSUME NEW m \in Nat, m \in Exists PROVE m + 1 \in Exists
  <2>1. ASSUME m + 1 <= Len(q)
        PROVE  \E g \in [0..(m + 1) -> Int] : Sums(g, m + 1)
    <3>0. m <= Len(q)
      BY <1>0, <2>1
    <3> HIDE DEF Sums
    <3>1. PICK g \in [0..m -> Int] : Sums(g, m)
      BY <1>2, <3>0
    <3> USE DEF Sums
    <3> DEFINE h == [n \in 0..(m + 1) |-> IF n = m + 1 THEN g[m] + q[m + 1]
                                          ELSE g[n]]
    <3>2. h \in [0..(m + 1) -> Int]
      BY <1>0, <2>1, <3>1
    <3>3. Sums(h, m + 1)
      BY <3>1
    <3> QED BY <3>2, <3>3
  <2>2. m + 1 \in Nat
    OBVIOUS
  <2> HIDE DEF Sums
  <2> QED BY <2>1, <2>2
<1>3. Len(q) \in Exists
  <2> HIDE DEF Exists
  <2> QED BY <1>0, <1>1, <1>2, CountingInduction
<1>4. PICK g \in [0..Len(q) -> Int] : Sums(g, Len(q))
  BY <1>0, <1>3
<1>5. g = Body(g)
  BY <1>4
<1>6. sum = Body(sum)
  <2> HIDE DEF Body
  <2> QED BY <1>5
<1>7. /\ sum[0] = 0
      /\ \A n \in Nat : n + 1 <= Len(q) => sum[n + 1] = sum[n] + q[n + 1]
  <2> HIDE DEF sum
  <2>1. \A n \in 0..Len(q) : sum[n] = IF n = 0 THEN 0 ELSE sum[n - 1] + q[n]
    BY <1>6
  <2> QED BY <1>0, <2>1
<1>8. 0 \in Numbers
  BY <1>7
<1>9. ASSUME NEW n \in Nat, n \in Numbers PROVE n + 1 \in Numbers
  <2> HIDE DEF sum
  <2> QED BY <1>0, <1>7, <1>9
<1>10. sum[Len(q)] \in Int
  <2>1. Nat \subseteq Numbers
    <3> HIDE DEF Numbers
    <3> QED BY <1>8, <1>9, CountingInduction
  <2> HIDE DEF sum
  <2> QED BY <1>0, <2>1
<1>11. Total(q) = sum[Len(q)]
  BY DEF Total
<1> QED BY <1>10, <1>11

LEMMA ExpectedCashType ==
    ASSUME NEW s \in Sessions
    PROVE  /\ ExpectedCash(s) = Total(moves[s])
           /\ TypeOK => ExpectedCash(s) \in Int
<1>1. ExpectedCash(s) = Total(moves[s])
  BY DEF ExpectedCash, Total
<1>2. ASSUME TypeOK PROVE moves[s] \in Seq(Int)
  <2>1. moves[s] \in Seq(Amounts)
    BY <1>2 DEF TypeOK
  <2>2. Amounts \subseteq Int
    BY DEF Amounts
  <2>3. moves[s] \in [1..Len(moves[s]) -> Int] /\ Len(moves[s]) \in Nat
    BY <2>1, <2>2, LenProperties
  <2> QED BY <2>3, SeqDef
<1> QED BY <1>1, <1>2, TotalType

-----------------------------------------------------------------------------
(* The inductive invariant *)

Locking == {"movement", "count", "submit", "approve", "close", "closing"}
Judging == {"submit", "closing"}

\* Who has the row of a session for itself shares it with nobody else.
Exclusive == \A s \in Sessions : lock[s] # Nobody => share[s] \subseteq {lock[s]}

\* A transaction that has read the movements under the lock still has the lock,
\* and what it read is what they add up to; the threshold it has read was in
\* force since; one that has inserted its movement still shares the row.
HandlerInv(c) ==
    /\ pc[c] # "idle" => arg[c].sid \in Sessions
    /\ pc[c] \in {"saleInsert", "saleCommit"} => arg[c].amt \in Amounts
    /\ pc[c] = "saleCommit" => c \in share[arg[c].sid]
    /\ pc[c] \in Locking => /\ lock[arg[c].sid] = c
                            /\ arg[c].expected = ExpectedCash(arg[c].sid)
                            /\ threshold \in inForce[arg[c].sid]
    /\ pc[c] \in Judging => arg[c].limit \in inForce[arg[c].sid]

IInv ==
    /\ TypeOK /\ threshold \in {0, 1}
    /\ Exclusive
    /\ \A c \in Clients : HandlerInv(c)

-----------------------------------------------------------------------------
(* Types *)

ArgType == [sid : {0} \cup Sessions, amt : {0} \cup Amounts, expected : Int,
            limit : Nat]
CountType == [sid : Sessions, counted : Counted, expected : Int,
              approval : {"NONE", "PENDING", "APPROVED"}]
PCs == {"idle", "saleInsert", "saleCommit", "movement", "count", "submit",
        "approve", "close", "closing"}

Step(c) ==
    \/ OpenSession(c) \/ SaleRead(c) \/ SaleInsert(c) \/ SaleCommit(c)
    \/ Enter(c) \/ CreateMovement(c) \/ ReadPolicy(c) \/ SubmitCount(c)
    \/ ApproveVariance(c) \/ CloseSession(c) \/ UpdatePolicy(c)
    \/ Abort(c)

LEMMA NoArgType == NoArg \in ArgType
  BY DEF NoArg, ArgType

LEMMA Working ==
    ASSUME IInv, NEW c \in Clients, pc[c] # "idle"
    PROVE  /\ arg[c].sid \in Sessions /\ arg[c] \in ArgType
           /\ pc[c] \in Locking =>
                 /\ lock[arg[c].sid] = c
                 /\ arg[c].expected = ExpectedCash(arg[c].sid)
                 /\ threshold \in inForce[arg[c].sid]
           /\ pc[c] \in Judging => arg[c].limit \in inForce[arg[c].sid]
  BY DEF IInv, HandlerInv, TypeOK, ArgType

\* Every step of a client takes it to a place, with local variables.
LEMMA Moves ==
    ASSUME IInv, NEW c \in Clients, Step(c)
    PROVE  \/ UNCHANGED <<pc, arg>>
           \/ \E l \in PCs, a \in ArgType : Goto(c, l, a)
<1>0. arg[c] \in ArgType
  BY DEF IInv, TypeOK, ArgType
<1>1. CASE Finish(c)
  BY <1>1, NoArgType DEF Finish, PCs
<1>2. CASE SaleRead(c)
  <2>1. PICK s \in Sessions :
           Goto(c, "saleInsert", [NoArg EXCEPT !.sid = s, !.amt = 1])
    BY <1>2 DEF SaleRead, Open
  <2>2. [NoArg EXCEPT !.sid = s, !.amt = 1] \in ArgType
    <3>1. 1 \in Amounts
      BY DEF Amounts
    <3> QED BY <3>1, NoArgType DEF NoArg, ArgType
  <2> QED BY <2>1, <2>2 DEF PCs
<1>3. CASE SaleInsert(c)
  BY <1>0, <1>3 DEF SaleInsert, PCs
<1>4. CASE Enter(c)
  <2>1. PICK s \in Sessions, l \in Locking :
           Goto(c, l, [NoArg EXCEPT !.sid = s, !.expected = ExpectedCash(s)])
    BY <1>4 DEF Enter, Open, Locking
  <2>2. ExpectedCash(s) \in Int
    BY ExpectedCashType DEF IInv
  <2>3. [NoArg EXCEPT !.sid = s, !.expected = ExpectedCash(s)] \in ArgType
    BY <2>2 DEF NoArg, ArgType
  <2> QED BY <2>1, <2>3 DEF PCs, Locking
<1>5. CASE OpenSession(c) \/ UpdatePolicy(c)
  BY <1>5 DEF OpenSession, UpdatePolicy
<1>6. CASE ReadPolicy(c)
  <2>1. PICK l \in Judging : Goto(c, l, [arg[c] EXCEPT !.limit = threshold])
    BY <1>6 DEF ReadPolicy, Judging
  <2>2. [arg[c] EXCEPT !.limit = threshold] \in ArgType
    <3>1. threshold \in Nat
      BY DEF IInv, TypeOK
    <3> QED BY <1>0, <3>1 DEF ArgType
  <2> QED BY <2>1, <2>2 DEF PCs, Judging
<1> QED BY <1>1, <1>2, <1>3, <1>4, <1>5, <1>6
     DEF Step, SaleCommit, CreateMovement, SubmitCount, ApproveVariance,
         CloseSession, Abort, EndTransaction

LEMMA HandlerTypes ==
    ASSUME IInv, NEW c \in Clients, Step(c)
    PROVE  pc' \in [Clients -> PCs] /\ arg' \in [Clients -> ArgType]
<1>1. pc \in [Clients -> PCs] /\ arg \in [Clients -> ArgType]
  BY DEF IInv, TypeOK, PCs, ArgType
<1> QED BY <1>1, Moves DEF Goto

LEMMA LockTypes ==
    ASSUME IInv, NEW c \in Clients, Step(c)
    PROVE  /\ lock' \in [Sessions -> Clients \cup {Nobody}]
           /\ share' \in [Sessions -> SUBSET Clients]
<1>0. /\ lock \in [Sessions -> Clients \cup {Nobody}]
      /\ share \in [Sessions -> SUBSET Clients]
  BY DEF IInv, TypeOK
<1>1. CASE Unlock(c)
  BY <1>0, <1>1 DEF Unlock
<1>2. CASE SaleInsert(c)
  BY <1>0, <1>2 DEF SaleInsert, LockForKeyShare
<1>3. CASE Enter(c)
  BY <1>0, <1>3 DEF Enter, LockForUpdate
<1>4. CASE UNCHANGED <<lock, share>>
  BY <1>0, <1>4
<1> QED BY <1>1, <1>2, <1>3, <1>4
     DEF Step, OpenSession, SaleRead, SaleCommit, CreateMovement, ReadPolicy,
         SubmitCount, ApproveVariance, CloseSession, UpdatePolicy, Abort, EndTransaction

LEMMA RowTypes ==
    ASSUME IInv, NEW c \in Clients, Step(c)
    PROVE  /\ status' \in [Sessions -> {"NONE", "OPEN", "CLOSED"}]
           /\ moves' \in [Sessions -> Seq(Amounts)]
           /\ counts' \in Seq(CountType)
           /\ closedWith' \in [Sessions ->
                 [expected : Int, counted : Counted, count : Nat]]
           /\ threshold' \in {0, 1}
           /\ inForce' \in [Sessions -> SUBSET Nat]
<1>0. /\ status \in [Sessions -> {"NONE", "OPEN", "CLOSED"}]
      /\ moves \in [Sessions -> Seq(Amounts)]
      /\ counts \in Seq(CountType)
      /\ closedWith \in [Sessions ->
            [expected : Int, counted : Counted, count : Nat]]
      /\ threshold \in {0, 1}
      /\ inForce \in [Sessions -> SUBSET Nat]
  BY DEF IInv, TypeOK, CountType
<1>1. CASE SaleCommit(c) \/ CreateMovement(c)
  <2>1. PICK s \in Sessions, amount \in Amounts :
           moves' = [moves EXCEPT ![s] = Append(@, amount)]
    BY <1>1, Working DEF SaleCommit, CreateMovement, Record, IInv, HandlerInv
  <2>2. Append(moves[s], amount) \in Seq(Amounts)
    BY <1>0, AppendProperties
  <2>3. moves' \in [Sessions -> Seq(Amounts)]
    BY <1>0, <2>1, <2>2
  <2> QED BY <1>0, <1>1, <2>3 DEF SaleCommit, CreateMovement
<1>2. CASE SubmitCount(c)
  <2>1. PICK n \in Counted, approval \in {"PENDING", "NONE"} :
           counts' = Append(counts,
             [sid |-> arg[c].sid, counted |-> n, expected |-> arg[c].expected,
              approval |-> approval])
    BY <1>2 DEF SubmitCount
  <2>2. arg[c].sid \in Sessions /\ arg[c].expected \in Int
    BY <1>2, Working DEF SubmitCount, ArgType
  <2>3. [sid |-> arg[c].sid, counted |-> n, expected |-> arg[c].expected,
         approval |-> approval] \in CountType
    BY <2>2 DEF CountType
  <2>4. counts' \in Seq(CountType)
    BY <1>0, <2>1, <2>3, AppendProperties
  <2> QED BY <1>0, <1>2, <2>4 DEF SubmitCount
<1>3. CASE ApproveVariance(c)
  <2>1. PICK k \in DOMAIN counts :
           counts' = [counts EXCEPT ![k].approval = "APPROVED"]
    BY <1>3 DEF ApproveVariance
  <2>2. counts[k] \in CountType
    BY <1>0, ElementOfSeq
  <2>3. [counts[k] EXCEPT !.approval = "APPROVED"] \in CountType
    BY <2>2 DEF CountType
  <2>4. counts' \in Seq(CountType)
    BY <1>0, <2>1, <2>3, ExceptSeq
  <2> QED BY <1>0, <1>3, <2>4 DEF ApproveVariance
<1>4. CASE CloseSession(c)
  <2>1. PICK k \in DOMAIN counts :
           closedWith' = [closedWith EXCEPT ![arg[c].sid] =
              [expected |-> arg[c].expected, counted |-> counts[k].counted,
               count |-> k]]
    BY <1>4 DEF CloseSession
  <2>2. counts[k] \in CountType /\ k \in Nat
    BY <1>0, ElementOfSeq, LenProperties
  <2>3. arg[c].expected \in Int
    BY <1>4, Working DEF CloseSession, ArgType
  <2>4. closedWith' \in [Sessions ->
            [expected : Int, counted : Counted, count : Nat]]
    BY <1>0, <2>1, <2>2, <2>3 DEF CountType
  <2> QED BY <1>0, <1>4, <2>4 DEF CloseSession
<1>5. CASE OpenSession(c)
  BY <1>0, <1>5 DEF OpenSession
<1>6. CASE UpdatePolicy(c)
  <2>1. threshold' \in {0, 1}
    BY <1>0, <1>6 DEF UpdatePolicy
  <2>2. inForce' \in [Sessions -> SUBSET Nat]
    BY <1>0, <1>6, <2>1 DEF UpdatePolicy
  <2> QED BY <1>0, <1>6, <2>1, <2>2 DEF UpdatePolicy
<1>7. CASE SaleRead(c) \/ SaleInsert(c) \/ ReadPolicy(c) \/ Abort(c)
  BY <1>0, <1>7 DEF SaleRead, SaleInsert, ReadPolicy, Abort, rows
<1>8. CASE Enter(c)
  <2>1. PICK s \in Sessions : inForce' = [inForce EXCEPT ![s] = {threshold}]
    BY <1>8 DEF Enter, LockForUpdate, Open
  <2>2. inForce' \in [Sessions -> SUBSET Nat]
    BY <1>0, <2>1
  <2> QED BY <1>0, <1>8, <2>2 DEF Enter, rows
<1> QED BY <1>1, <1>2, <1>3, <1>4, <1>5, <1>6, <1>7, <1>8 DEF Step

LEMMA TypeStep == IInv /\ [Next]_vars => (TypeOK /\ threshold \in {0, 1})'
<1> SUFFICES ASSUME IInv, [Next]_vars
             PROVE  (TypeOK /\ threshold \in {0, 1})'
  OBVIOUS
<1>1. ASSUME NEW c \in Clients, Step(c)
      PROVE  (TypeOK /\ threshold \in {0, 1})'
  <2>1. pc' \in [Clients -> PCs] /\ arg' \in [Clients -> ArgType]
    BY <1>1, HandlerTypes
  <2>2. /\ lock' \in [Sessions -> Clients \cup {Nobody}]
        /\ share' \in [Sessions -> SUBSET Clients]
    BY <1>1, LockTypes
  <2>3. /\ status' \in [Sessions -> {"NONE", "OPEN", "CLOSED"}]
        /\ moves' \in [Sessions -> Seq(Amounts)]
        /\ counts' \in Seq(CountType)
        /\ closedWith' \in [Sessions ->
              [expected : Int, counted : Counted, count : Nat]]
        /\ threshold' \in {0, 1}
        /\ inForce' \in [Sessions -> SUBSET Nat]
    BY <1>1, RowTypes
  <2>4. threshold' \in Nat
    BY <2>3
  <2> QED BY <2>1, <2>2, <2>3, <2>4 DEF TypeOK, PCs, ArgType, CountType
<1>2. CASE UNCHANGED vars
  BY <1>2 DEF IInv, TypeOK, vars, rows
<1> QED BY <1>1, <1>2 DEF Next, Step

-----------------------------------------------------------------------------
(* Locks, and what was read under them *)

LEMMA GotoIs ==
    ASSUME IInv, NEW c \in Clients, NEW l, NEW a, Goto(c, l, a)
    PROVE  /\ pc'[c] = l /\ arg'[c] = a
           /\ \A d \in Clients : d # c => pc'[d] = pc[d] /\ arg'[d] = arg[d]
  BY DEF IInv, TypeOK, Goto

\* Another handler keeps what it holds and knows, unless its locks or its
\* session's movements change.
LEMMA HandlerKept ==
    ASSUME IInv, NEW d \in Clients, pc'[d] = pc[d], arg'[d] = arg[d],
           pc[d] = "saleCommit" => d \in share'[arg[d].sid],
           pc[d] \in Locking => /\ lock'[arg[d].sid] = d
                                /\ moves'[arg[d].sid] = moves[arg[d].sid]
                                /\ threshold' \in inForce'[arg[d].sid]
                                /\ inForce[arg[d].sid]
                                      \subseteq inForce'[arg[d].sid]
    PROVE  HandlerInv(d)'
<1>1. HandlerInv(d)
  BY DEF IInv
<1>2. ASSUME pc[d] \in Locking
      PROVE  ExpectedCash(arg[d].sid)' = ExpectedCash(arg[d].sid)
  <2>0. PICK s \in Sessions : s = arg[d].sid
    BY <1>1, <1>2 DEF HandlerInv, Locking
  <2>1. /\ ExpectedCash(s) = Total(moves[s])
        /\ ExpectedCash(s)' = Total(moves'[s])
    BY DEF ExpectedCash, Total
  <2> QED BY <1>2, <2>0, <2>1
<1> QED BY <1>1, <1>2 DEF HandlerInv, Locking, Judging

\* A transaction ends: it may have added to the movements of its session.
LEMMA EndStep ==
    ASSUME IInv, NEW c \in Clients, EndTransaction(c), pc[c] # "idle",
           UNCHANGED <<threshold, inForce>>,
           \/ UNCHANGED moves
           \/ /\ pc[c] \in {"saleCommit", "movement"}
              /\ \A s \in Sessions : s # arg[c].sid => moves'[s] = moves[s]
    PROVE  Exclusive' /\ \A d \in Clients : HandlerInv(d)'
<1>0. /\ lock \in [Sessions -> Clients \cup {Nobody}]
      /\ share \in [Sessions -> SUBSET Clients]
      /\ Nobody \notin Clients
  BY CashSessionAssumption DEF IInv, TypeOK
<1>1. \A s \in Sessions :
         /\ lock'[s] = IF lock[s] = c THEN Nobody ELSE lock[s]
         /\ share'[s] = share[s] \ {c}
  BY DEF EndTransaction, Unlock
<1>2. Exclusive'
  BY <1>0, <1>1 DEF IInv, Exclusive
<1>3. /\ pc'[c] = "idle"
      /\ \A d \in Clients : d # c => pc'[d] = pc[d] /\ arg'[d] = arg[d]
  BY GotoIs DEF EndTransaction, Finish
<1>4. ASSUME NEW d \in Clients, d # c PROVE HandlerInv(d)'
  <2>1. HandlerInv(d) /\ HandlerInv(c)
    BY DEF IInv
  <2>2. pc[d] = "saleCommit" => d \in share'[arg[d].sid]
    BY <1>1, <1>4, <2>1 DEF HandlerInv
  <2>3. pc[d] \in Locking => lock'[arg[d].sid] = d
    BY <1>1, <1>4, <2>1 DEF HandlerInv, Locking
  <2>4. pc[d] \in Locking => moves'[arg[d].sid] = moves[arg[d].sid]
    BY <1>0, <1>4, <2>1 DEF HandlerInv, Locking, IInv, Exclusive
  <2>5. pc[d] \in Locking => threshold \in inForce[arg[d].sid]
    BY <2>1 DEF HandlerInv
  <2> QED BY <1>3, <1>4, <2>2, <2>3, <2>4, <2>5, HandlerKept
<1>5. HandlerInv(c)'
  BY <1>3 DEF HandlerInv, Locking, Judging
<1> QED BY <1>2, <1>4, <1>5

LEMMA InvStep == IInv /\ [Next]_vars => IInv'
<1> SUFFICES ASSUME IInv, [Next]_vars
             PROVE  Exclusive' /\ \A d \in Clients : HandlerInv(d)'
  BY TypeStep DEF IInv
<1>0. /\ lock \in [Sessions -> Clients \cup {Nobody}]
      /\ share \in [Sessions -> SUBSET Clients]
      /\ Nobody \notin Clients /\ Exclusive
      /\ \A d \in Clients : HandlerInv(d)
  BY CashSessionAssumption DEF IInv, TypeOK
<1>1. ASSUME NEW c \in Clients, Step(c)
      PROVE  Exclusive' /\ \A d \in Clients : HandlerInv(d)'
  <2>1. CASE OpenSession(c)
    BY <1>0, <2>1, HandlerKept DEF OpenSession, Exclusive, HandlerInv
  <2>2. CASE SaleRead(c)
    <3>1. PICK s \in Sessions :
             Goto(c, "saleInsert", [NoArg EXCEPT !.sid = s, !.amt = 1])
      BY <2>2 DEF SaleRead, Open
    <3> DEFINE a == [NoArg EXCEPT !.sid = s, !.amt = 1]
    <3>2. a.sid = s /\ a.amt \in Amounts
      BY DEF NoArg, Amounts
    <3> HIDE DEF a
    <3>3. /\ pc'[c] = "saleInsert" /\ arg'[c] = a
          /\ \A d \in Clients : d # c => pc'[d] = pc[d] /\ arg'[d] = arg[d]
      BY <3>1, GotoIs DEF a
    <3>4. UNCHANGED <<lock, share, moves, threshold, inForce>>
      BY <2>2 DEF SaleRead, rows
    <3>5. HandlerInv(c)'
      BY <3>2, <3>3 DEF HandlerInv, Locking, Judging
    <3>6. \A d \in Clients : d # c => HandlerInv(d)'
      BY <1>0, <3>3, <3>4, HandlerKept DEF HandlerInv
    <3> QED BY <1>0, <3>4, <3>5, <3>6 DEF Exclusive
  <2>3. CASE SaleInsert(c)
    <3> DEFINE s == arg[c].sid
    <3>1. /\ pc[c] = "saleInsert" /\ s \in Sessions /\ lock[s] = Nobody
          /\ share' = [share EXCEPT ![s] = @ \cup {c}]
          /\ UNCHANGED <<lock, moves, threshold, inForce>>
          /\ Goto(c, "saleCommit", arg[c])
      BY <1>0, <2>3 DEF SaleInsert, LockForKeyShare, HandlerInv, rows
    <3>2. /\ pc'[c] = "saleCommit" /\ arg'[c] = arg[c]
          /\ \A d \in Clients : d # c => pc'[d] = pc[d] /\ arg'[d] = arg[d]
      BY <3>1, GotoIs
    <3>3. \A t \in Sessions : share'[t] = IF t = s THEN share[t] \cup {c}
                                          ELSE share[t]
      BY <1>0, <3>1
    <3>4. Exclusive'
      BY <1>0, <3>1, <3>3 DEF Exclusive
    <3>5. HandlerInv(c)'
      BY <1>0, <3>1, <3>2, <3>3 DEF HandlerInv, Locking, Judging
    <3>6. \A d \in Clients : d # c => HandlerInv(d)'
      BY <1>0, <3>1, <3>2, <3>3, HandlerKept DEF HandlerInv
    <3> QED BY <3>4, <3>5, <3>6
  <2>4. CASE Enter(c)
    <3>1. PICK l \in {"movement", "count", "approve", "close"},
              s \in Sessions :
             /\ LockForUpdate(c, s)
             /\ Goto(c, l, [NoArg EXCEPT !.sid = s,
                                         !.expected = ExpectedCash(s)])
      BY <2>4 DEF Enter, Open
    <3>2. /\ lock[s] = Nobody /\ share[s] \subseteq {c}
          /\ lock' = [lock EXCEPT ![s] = c] /\ UNCHANGED <<share, moves>>
          /\ inForce' = [inForce EXCEPT ![s] = {threshold}]
          /\ UNCHANGED threshold
      BY <2>4, <3>1 DEF LockForUpdate, Enter, rows
    <3> DEFINE a == [NoArg EXCEPT !.sid = s, !.expected = ExpectedCash(s)]
    <3>3. a.sid = s /\ a.expected = ExpectedCash(s)
      BY DEF NoArg
    <3> HIDE DEF a
    <3>4. /\ pc'[c] = l /\ arg'[c] = a
          /\ \A d \in Clients : d # c => pc'[d] = pc[d] /\ arg'[d] = arg[d]
      BY <3>1, GotoIs DEF a
    <3>5. \A t \in Sessions :
             /\ lock'[t] = IF t = s THEN c ELSE lock[t]
             /\ inForce'[t] = IF t = s THEN {threshold} ELSE inForce[t]
      BY <1>0, <3>2 DEF IInv, TypeOK
    <3>6. Exclusive'
      BY <1>0, <3>2, <3>5 DEF Exclusive
    <3>7. HandlerInv(c)'
      <4>1. ExpectedCash(s)' = ExpectedCash(s)
        <5>1. /\ ExpectedCash(s) = Total(moves[s])
              /\ ExpectedCash(s)' = Total(moves'[s])
          BY DEF ExpectedCash, Total
        <5> QED BY <3>2, <5>1
      <4>2. ExpectedCash(arg[c].sid)' = ExpectedCash(s)
        BY <3>3, <3>4, <4>1
      <4>3. l \notin Judging \cup {"saleInsert", "saleCommit"}
        BY DEF Judging
      <4> QED BY <3>2, <3>3, <3>4, <3>5, <4>2, <4>3 DEF HandlerInv, Locking
    <3>8. \A d \in Clients : d # c => HandlerInv(d)'
      BY <1>0, <3>2, <3>4, <3>5, HandlerKept DEF HandlerInv, Locking
    <3> QED BY <3>6, <3>7, <3>8
  <2>5. CASE SaleCommit(c) \/ CreateMovement(c)
    <3>1. /\ pc[c] \in {"saleCommit", "movement"} /\ EndTransaction(c)
          /\ \A s \in Sessions : s # arg[c].sid => moves'[s] = moves[s]
          /\ UNCHANGED <<threshold, inForce>>
      BY <2>5 DEF SaleCommit, CreateMovement, Record, IInv, TypeOK
    <3> QED BY <3>1, EndStep
  <2>6. CASE \/ SubmitCount(c) \/ ApproveVariance(c) \/ CloseSession(c)
             \/ Abort(c)
    <3>1. pc[c] # "idle" /\ EndTransaction(c)
          /\ UNCHANGED <<moves, threshold, inForce>>
      BY <2>6 DEF SubmitCount, ApproveVariance, CloseSession, Abort, rows
    <3> QED BY <3>1, EndStep
  <2>7. CASE UpdatePolicy(c)
    <3>1. UNCHANGED <<lock, share, pc, arg, moves>>
      BY <2>7 DEF UpdatePolicy
    <3>2. \A s \in Sessions : inForce'[s] = inForce[s] \cup {threshold'}
      BY <2>7 DEF UpdatePolicy
    <3>3. \A d \in Clients : HandlerInv(d)'
      BY <1>0, <3>1, <3>2, HandlerKept DEF HandlerInv, Locking
    <3> QED BY <1>0, <3>1, <3>3 DEF Exclusive
  <2>8. CASE ReadPolicy(c)
    <3>1. PICK l \in Judging : Goto(c, l, [arg[c] EXCEPT !.limit = threshold])
      BY <2>8 DEF ReadPolicy, Judging
    <3> DEFINE a == [arg[c] EXCEPT !.limit = threshold]
    <3>2. /\ a.sid = arg[c].sid /\ a.expected = arg[c].expected
          /\ a.limit = threshold
      BY <1>1, <2>8, Working DEF ReadPolicy, ArgType
    <3> HIDE DEF a
    <3>3. /\ pc'[c] = l /\ arg'[c] = a
          /\ \A d \in Clients : d # c => pc'[d] = pc[d] /\ arg'[d] = arg[d]
      BY <3>1, GotoIs DEF a
    <3>4. UNCHANGED <<lock, share, moves, threshold, inForce>>
      BY <2>8 DEF ReadPolicy, rows
    <3>5. HandlerInv(c)'
      <4> DEFINE s == arg[c].sid
      <4>1. /\ s \in Sessions /\ lock[s] = c /\ threshold \in inForce[s]
            /\ arg[c].expected = ExpectedCash(s)
        BY <1>0, <2>8 DEF ReadPolicy, HandlerInv, Locking
      <4>2. ExpectedCash(arg[c].sid)' = ExpectedCash(s)
        <5>1. /\ ExpectedCash(s) = Total(moves[s])
              /\ ExpectedCash(arg[c].sid)' = Total(moves'[arg'[c].sid])
          BY DEF ExpectedCash, Total
        <5> QED BY <3>2, <3>3, <3>4, <5>1
      <4> QED BY <3>2, <3>3, <3>4, <4>1, <4>2
           DEF HandlerInv, Locking, Judging
    <3>6. \A d \in Clients : d # c => HandlerInv(d)'
      BY <1>0, <3>3, <3>4, HandlerKept DEF HandlerInv, Locking
    <3> QED BY <1>0, <3>4, <3>5, <3>6 DEF Exclusive
  <2> QED BY <1>1, <2>1, <2>2, <2>3, <2>4, <2>5, <2>6, <2>7, <2>8 DEF Step
<1>2. CASE UNCHANGED vars
  BY <1>0, <1>2, HandlerKept DEF vars, rows, Exclusive, HandlerInv
<1> QED BY <1>1, <1>2 DEF Next, Step

LEMMA InitInv == Init => IInv
<1> SUFFICES ASSUME Init PROVE IInv
  OBVIOUS
<1>1. TypeOK
  <2>1. /\ <<>> \in Seq(Amounts) /\ <<>> \in Seq(CountType)
        /\ NotClosed \in [expected : Int, counted : Counted, count : Nat]
    BY EmptySeq DEF NotClosed, Counted
  <2> QED BY <2>1, NoArgType DEF Init, TypeOK, ArgType, CountType
<1> QED BY <1>1 DEF Init, IInv, Exclusive, HandlerInv, Locking, Judging

LEMMA Inductive == Spec => []IInv
  BY InitInv, InvStep, PTL DEF Spec

-----------------------------------------------------------------------------
(* What the run checks *)

\* The rows and the handlers' local variables hold values of their types.
THEOREM CashTypeCorrect == Spec => []TypeOK
<1>1. IInv => TypeOK
  BY DEF IInv
<1> QED BY <1>1, Inductive, PTL

\* Every close is of a count that reconciles with the movements of that moment,
\* within a threshold in force since the close locked the session, or approved.
THEOREM ClosesReconcile == Spec => CloseReconciles
<1>1. ASSUME IInv, [Next]_vars, NEW s \in Sessions,
             status[s] = "OPEN", status'[s] = "CLOSED"
      PROVE  LET w == closedWith'[s]
                 variance == w.counted - w.expected
             IN /\ w.expected = ExpectedCash(s)
                /\ counts[w.count].counted = w.counted
                /\ \/ \E t \in inForce[s] : variance \in -t..t
                   \/ counts[w.count].approval = "APPROVED"
  <2>0. /\ status \in [Sessions -> {"NONE", "OPEN", "CLOSED"}]
        /\ closedWith \in [Sessions ->
              [expected : Int, counted : Counted, count : Nat]]
        /\ counts \in Seq(CountType) /\ threshold \in {0, 1}
    BY <1>1 DEF IInv, TypeOK, CountType
  <2>1. PICK c \in Clients : CloseSession(c)
    BY <1>1, <2>0
       DEF Next, OpenSession, SaleRead, SaleInsert, SaleCommit, Enter,
           CreateMovement, ReadPolicy, SubmitCount, ApproveVariance,
           UpdatePolicy, Abort, vars, rows
  <2>2. s = arg[c].sid
    BY <1>1, <2>0, <2>1 DEF CloseSession
  <2>3. /\ arg[c].expected = ExpectedCash(s) /\ arg[c].expected \in Int
        /\ arg[c].limit \in inForce[s] /\ arg[c].limit \in Nat
    BY <1>1, <2>1, <2>2, Working DEF CloseSession, Locking, Judging, ArgType
  <2>4. PICK k \in DOMAIN counts :
           /\ Closes(c, k)
           /\ closedWith' = [closedWith EXCEPT ![arg[c].sid] =
                 [expected |-> arg[c].expected, counted |-> counts[k].counted,
                  count |-> k]]
    BY <2>1 DEF CloseSession
  <2>5. closedWith'[s] = [expected |-> arg[c].expected,
                          counted |-> counts[k].counted, count |-> k]
    BY <2>0, <2>2, <2>4
  <2>6. counts[k].counted \in Int
    <3>1. k \in 1..Len(counts)
      BY <2>0, LenProperties
    <3>2. counts[k] \in CountType
      BY <2>0, <3>1, ElementOfSeq
    <3> QED BY <3>2 DEF CountType, Counted
  <2>7. \/ \E t \in inForce[s] : counts[k].counted - arg[c].expected \in -t..t
        \/ counts[k].approval = "APPROVED"
    <3>1. \/ counts[k].counted - arg[c].expected
                \in -arg[c].limit..arg[c].limit
          \/ counts[k].approval = "APPROVED"
      BY <2>3, <2>4, <2>6 DEF Closes, Exceeds
    <3> QED BY <2>3, <3>1
  <2> QED BY <2>3, <2>5, <2>7
<1>2. IInv /\ [Next]_vars =>
         [\A s \in Sessions : status[s] = "OPEN" /\ status'[s] = "CLOSED" =>
            LET w == closedWith'[s]
                variance == w.counted - w.expected
            IN /\ w.expected = ExpectedCash(s)
               /\ counts[w.count].counted = w.counted
               /\ \/ \E t \in inForce[s] : variance \in -t..t
                  \/ counts[w.count].approval = "APPROVED"]_vars
  BY <1>1
<1> QED BY <1>2, Inductive, PTL DEF Spec, CloseReconciles

\* A count is of the cash that is expected at that moment.
THEOREM CountsTellExpectedCash == Spec => CountTellsExpectedCash
<1>1. ASSUME IInv, NEW c \in Clients, SubmitCount(c)
      PROVE  LET n == counts'[Len(counts')]
             IN n.expected = ExpectedCash(n.sid)
  <2>1. PICK k \in Counted, approval \in {"PENDING", "NONE"} :
           counts' = Append(counts,
             [sid |-> arg[c].sid, counted |-> k, expected |-> arg[c].expected,
              approval |-> approval])
    BY <1>1 DEF SubmitCount
  <2> DEFINE new == [sid |-> arg[c].sid, counted |-> k,
                     expected |-> arg[c].expected, approval |-> approval]
  <2>2. arg[c].expected = ExpectedCash(arg[c].sid)
        /\ arg[c].sid \in Sessions /\ arg[c].expected \in Int
    BY <1>1, Working DEF SubmitCount, Locking, ArgType
  <2>3. new \in CountType /\ new.sid = arg[c].sid
        /\ new.expected = arg[c].expected
    BY <2>2 DEF CountType
  <2>4. counts' = Append(counts, new)
    BY <2>1
  <2> HIDE DEF new
  <2>5. counts'[Len(counts')] = new
    <3>1. counts \in Seq(CountType)
      BY <1>1 DEF IInv, TypeOK, CountType
    <3> QED BY <2>3, <2>4, <3>1, AppendProperties
  <2> QED BY <2>2, <2>3, <2>5
<1>2. IInv /\ [Next]_vars =>
         [\A c \in Clients : SubmitCount(c) =>
            LET n == counts'[Len(counts')]
            IN n.expected = ExpectedCash(n.sid)]_vars
  BY <1>1
<1> QED BY <1>2, Inductive, PTL DEF Spec, CountTellsExpectedCash
=============================================================================
