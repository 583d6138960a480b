-------------------------- MODULE IdempotencyProofs --------------------------
(***************************************************************************)
(* Proofs about Idempotency, for every set of calls, processes and request *)
(* hashes: what holds whatever goes wrong, and, as long as only processes  *)
(* die, that the helper implements OncePerKey.                             *)
(***************************************************************************)
EXTENDS Idempotency, TLAPS

-----------------------------------------------------------------------------
(* Whatever goes wrong: the answers are genuine. *)

\* A response that can be replayed is one of an operation that took effect:
\* that of the receipt, of a warm cache, and of the call about to be recorded.
StoredAreGenuine ==
    /\ receipt.status = "COMPLETED" => receipt.response \in effects
    /\ \A p \in Procs : memory[p] # Nobody => memory[p] \in effects
    /\ \A c \in Callers : pc[c] = "complete" => c \in effects

GenuineInv == TypeOK /\ StoredAreGenuine /\ AnswersAreGenuine

LEMMA InitGenuine == Init => GenuineInv
BY IdempotencyAssumption DEF Init, GenuineInv, TypeOK, StoredAreGenuine,
     AnswersAreGenuine, calls, NoReceipt, PCs

\* Replaying the response of a completed receipt keeps the invariant.
LEMMA ReplayGenuine ==
    ASSUME GenuineInv, NEW c \in Callers, receipt.status = "COMPLETED",
           Replay(c), UNCHANGED <<calls, receipt, effects>>
    PROVE  GenuineInv'
<1> DEFINE r == receipt.response
<1>1. r \in Callers /\ r \in effects
  BY DEF GenuineInv, TypeOK, StoredAreGenuine
<1>2. CASE HashMatches(c, r)
  <2>1. /\ pc' = [pc EXCEPT ![c] = "done"]
        /\ answer' = [answer EXCEPT ![c] = r]
        /\ memory' = [memory EXCEPT ![proc[c]] = r]
        /\ payload[c] = payload[r]
    BY <1>2 DEF Replay, Return, HashMatches
  <2> QED
    BY <1>1, <2>1 DEF GenuineInv, TypeOK, StoredAreGenuine,
         AnswersAreGenuine, calls, PCs
<1>3. CASE ~HashMatches(c, r)
  <2>1. /\ pc' = [pc EXCEPT ![c] = "done"]
        /\ answer' = [answer EXCEPT ![c] = "conflict"]
        /\ UNCHANGED memory
    BY <1>3 DEF Replay, Return
  <2> QED
    BY <2>1, IdempotencyAssumption DEF GenuineInv, TypeOK, StoredAreGenuine,
         AnswersAreGenuine, calls, PCs
<1> QED BY <1>2, <1>3

\* Going on to another step than the recording one keeps it.
LEMMA GotoGenuine ==
    ASSUME GenuineInv, NEW c \in Callers, NEW label \in PCs \ {"complete"},
           Goto(c, label), UNCHANGED <<calls, receipt, memory, effects>>
    PROVE  GenuineInv'
BY DEF GenuineInv, TypeOK, StoredAreGenuine, AnswersAreGenuine, Goto, calls

LEMMA CallerStepGenuine ==
    ASSUME GenuineInv, NEW c \in Callers, CallerStep(c)
    PROVE  GenuineInv'
<1> USE DEF PCs
<1>1. CASE ReadMemory(c)
  <2> DEFINE r == memory[proc[c]]
  <2>1. CASE r = Nobody
    <3>1. Goto(c, "load")
      BY <1>1, <2>1 DEF ReadMemory
    <3> QED BY <1>1, <3>1, GotoGenuine DEF ReadMemory
  <2>2. CASE r # Nobody
    <3>1. r \in Callers /\ r \in effects
      BY <2>2 DEF GenuineInv, TypeOK, StoredAreGenuine
    <3>2. \E a \in {r, "conflict"} :
             Return(c, a) /\ (a = r => payload[c] = payload[r])
      BY <1>1, <2>2, <3>1, IdempotencyAssumption DEF ReadMemory, HashMatches
    <3> QED
      BY <1>1, <3>1, <3>2, IdempotencyAssumption DEF ReadMemory, Return,
           GenuineInv, TypeOK, StoredAreGenuine, AnswersAreGenuine, calls
  <2> QED BY <2>1, <2>2
<1>2. CASE LoadReceipt(c)
  <2>1. CASE StillValid("COMPLETED")
    BY <1>2, <2>1, ReplayGenuine DEF LoadReceipt, StillValid
  <2>2. CASE ~StillValid("COMPLETED")
    <3>1. \E label \in {"wait", "claim", "reclaim"} : Goto(c, label)
      BY <1>2, <2>2 DEF LoadReceipt
    <3> QED BY <1>2, <2>2, <3>1, GotoGenuine DEF LoadReceipt
  <2> QED BY <2>1, <2>2
<1>3. CASE Reclaim(c)
  BY <1>3 DEF Reclaim, Goto, GenuineInv, TypeOK, StoredAreGenuine,
       AnswersAreGenuine, calls, NoReceipt
<1>4. CASE Claim(c)
  <2>1. CASE Unclaimed
    <3>1. /\ receipt' = [NoReceipt EXCEPT !.status = "PENDING",
                            !.correlationId = c, !.live = TRUE]
          /\ Goto(c, "execute") /\ UNCHANGED <<calls, memory, effects>>
      BY <1>4, <2>1 DEF Claim
    <3>2. TypeOK'
      BY <3>1 DEF Goto, GenuineInv, TypeOK, calls, NoReceipt
    <3>3. StoredAreGenuine'
      BY <3>1 DEF Goto, GenuineInv, TypeOK, StoredAreGenuine, NoReceipt
    <3>4. AnswersAreGenuine'
      BY <3>1 DEF Goto, GenuineInv, TypeOK, AnswersAreGenuine, calls
    <3> QED BY <3>2, <3>3, <3>4 DEF GenuineInv
  <2>2. CASE ~Unclaimed
    BY <1>4, <2>2, GotoGenuine DEF Claim
  <2> QED BY <2>1, <2>2
<1>5. CASE Raced(c)
  <2>1. CASE StillValid("COMPLETED")
    BY <1>5, <2>1, ReplayGenuine DEF Raced, StillValid
  <2>2. CASE ~StillValid("COMPLETED")
    BY <1>5, <2>2, GotoGenuine DEF Raced
  <2> QED BY <2>1, <2>2
<1>6. CASE WaitForCompleted(c)
  <2>1. CASE StillValid("COMPLETED")
    BY <1>6, <2>1, ReplayGenuine DEF WaitForCompleted, StillValid
  <2>2. CASE ~StillValid("COMPLETED")
    BY <1>6, <2>2, IdempotencyAssumption DEF WaitForCompleted, Return,
         GenuineInv, TypeOK, StoredAreGenuine, AnswersAreGenuine, calls
  <2> QED BY <2>1, <2>2
<1>7. CASE Execute(c)
  BY <1>7 DEF Execute, Goto, GenuineInv, TypeOK, StoredAreGenuine,
       AnswersAreGenuine, calls
<1>8. CASE Complete(c)
  <2>1. c \in effects
    BY <1>8 DEF Complete, GenuineInv, StoredAreGenuine
  <2>2. CASE Goto(c, "release") /\ UNCHANGED <<receipt, memory>>
    BY <1>8, <2>2, GotoGenuine DEF Complete
  <2>3. CASE /\ receipt' = [receipt EXCEPT !.status = "COMPLETED",
                                          !.response = c, !.live = TRUE]
             /\ memory' = [memory EXCEPT ![proc[c]] = c]
             /\ Return(c, c) /\ UNCHANGED <<calls, effects>>
    <3>1. TypeOK'
      BY <2>3 DEF Return, GenuineInv, TypeOK, calls
    <3>2. StoredAreGenuine'
      BY <2>1, <2>3 DEF Return, GenuineInv, TypeOK, StoredAreGenuine, calls
    <3>3. AnswersAreGenuine'
      BY <2>1, <2>3 DEF Return, GenuineInv, TypeOK, AnswersAreGenuine, calls
    <3> QED BY <3>1, <3>2, <3>3 DEF GenuineInv
  <2> QED BY <1>8, <2>2, <2>3 DEF Complete
<1>9. CASE Release(c)
  BY <1>9, IdempotencyAssumption DEF Release, Return, GenuineInv, TypeOK,
       StoredAreGenuine, AnswersAreGenuine, calls, NoReceipt
<1> QED
  BY <1>1, <1>2, <1>3, <1>4, <1>5, <1>6, <1>7, <1>8, <1>9 DEF CallerStep

LEMMA NextGenuine == GenuineInv /\ [Next]_vars => GenuineInv'
<1> SUFFICES ASSUME GenuineInv, [Next]_vars PROVE GenuineInv'
  OBVIOUS
<1>1. ASSUME NEW p \in Procs, Crash(p) PROVE GenuineInv'
  BY <1>1 DEF Crash, GenuineInv, TypeOK, StoredAreGenuine,
       AnswersAreGenuine, calls, PCs
<1>2. CASE Expire
  <2>1. /\ memory' \in [Procs -> Callers \cup {Nobody}]
        /\ \A p \in Procs : memory'[p] \in {memory[p], Nobody}
    BY <1>2 DEF Expire, GenuineInv, TypeOK
  <2>2. /\ receipt' = [receipt EXCEPT !.live = FALSE]
        /\ UNCHANGED <<calls, effects, pc, answer>>
    BY <1>2 DEF Expire
  <2> QED
    BY <2>1, <2>2 DEF GenuineInv, TypeOK, StoredAreGenuine,
         AnswersAreGenuine, calls
<1>3. CASE UNCHANGED vars
  BY <1>3 DEF vars, calls, GenuineInv, TypeOK, StoredAreGenuine,
       AnswersAreGenuine
<1> QED BY <1>1, <1>2, <1>3, CallerStepGenuine DEF Next

\* Whatever fails, the receipt, the caches and the calls keep their types.
THEOREM IdempotencyTypeCorrect == Spec => []TypeOK
<1>1. GenuineInv => TypeOK
  BY DEF GenuineInv
<1> QED BY <1>1, InitGenuine, NextGenuine, PTL DEF Spec

\* Whatever expires, fails or crashes, a call is answered with the outcome of
\* an operation that took effect and that asked for the same thing
\* (assertRequestHashMatch, readMemory).
THEOREM GenuineAnswers == Spec => []AnswersAreGenuine
<1>1. GenuineInv => AnswersAreGenuine
  BY DEF GenuineInv
<1> QED BY <1>1, InitGenuine, NextGenuine, PTL DEF Spec

-----------------------------------------------------------------------------
(* Only processes die: the helper implements OncePerKey. *)

\* A receipt is live and is the claimant's from its insert to its end, the
\* operation is performed by the claimant only, and a receipt that is gone
\* leaves no operation behind.
ReceiptHeld ==
    /\ receipt.status # "NONE" => receipt.live
    /\ receipt.status = "NONE" => effects = {}
    /\ \A c \in Callers :
          /\ pc[c] # "reclaim"
          /\ pc[c] # "done" => answer[c] = "none"
          /\ pc[c] \in {"execute", "complete", "release"} =>
                receipt.status = "PENDING" /\ receipt.correlationId = c
          /\ pc[c] \in {"execute", "release"} => effects = {}

OnceInv == GenuineInv /\ ReceiptHeld

LEMMA InitHeld == Init => ReceiptHeld
BY DEF Init, ReceiptHeld, NoReceipt

\* A call that only reads the receipt leaves it to its claimant.
LEMMA ReaderHeld ==
    ASSUME OnceInv, NEW c \in Callers,
           pc[c] \in {"start", "load", "raced", "wait"},
           pc'[c] \in {"load", "claim", "raced", "wait", "done"},
           pc' = [pc EXCEPT ![c] = pc'[c]],
           pc'[c] # "done" => answer'[c] = answer[c],
           \A d \in Callers : d # c => answer'[d] = answer[d],
           UNCHANGED <<receipt, effects>>
    PROVE  ReceiptHeld'
BY DEF OnceInv, GenuineInv, TypeOK, ReceiptHeld

LEMMA CallerStepHeld ==
    ASSUME OnceInv, Faults \subseteq {"crash"},
           NEW c \in Callers, CallerStep(c)
    PROVE  ReceiptHeld'
<1> USE DEF OnceInv, GenuineInv, TypeOK
<1>1. CASE \/ ReadMemory(c) \/ LoadReceipt(c) \/ Raced(c)
           \/ WaitForCompleted(c)
  <2>1. \/ \E label \in {"load", "claim", "wait"} : Goto(c, label)
        \/ \E a : Return(c, a)
    BY <1>1 DEF ReadMemory, LoadReceipt, Raced, WaitForCompleted, Replay,
         StillValid, ReceiptHeld
  <2>2. /\ pc[c] \in {"start", "load", "raced", "wait"}
        /\ UNCHANGED <<receipt, effects>>
    BY <1>1 DEF ReadMemory, LoadReceipt, Raced, WaitForCompleted
  <2> QED BY <2>1, <2>2, ReaderHeld DEF Goto, Return
<1>2. CASE Reclaim(c)
  BY <1>2 DEF Reclaim, ReceiptHeld
<1>3. CASE Claim(c)
  <2>1. CASE receipt.status = "NONE"
    <3>1. /\ receipt'.status = "PENDING" /\ receipt'.correlationId = c
          /\ receipt'.live
          /\ Goto(c, "execute") /\ UNCHANGED effects
      BY <1>3, <2>1 DEF Claim, Unclaimed, NoReceipt
    <3> QED BY <1>3, <2>1, <3>1 DEF Claim, Goto, ReceiptHeld
  <2>2. CASE receipt.status # "NONE"
    BY <1>3, <2>2 DEF Claim, Unclaimed, Goto, ReceiptHeld
  <2> QED BY <2>1, <2>2
<1>4. CASE Execute(c)
  BY <1>4 DEF Execute, Goto, ReceiptHeld
<1>5. CASE Complete(c)
  <2>1. receipt.status = "PENDING" /\ receipt.correlationId = c
    BY <1>5 DEF Complete, ReceiptHeld
  <2>2. /\ receipt' = [receipt EXCEPT !.status = "COMPLETED",
                                     !.response = c, !.live = TRUE]
        /\ Return(c, c) /\ UNCHANGED effects
    BY <1>5, <2>1 DEF Complete
  <2> QED BY <2>1, <2>2 DEF Return, ReceiptHeld
<1>6. CASE Release(c)
  BY <1>6 DEF Release, Return, ReceiptHeld, NoReceipt
<1> QED BY <1>1, <1>2, <1>3, <1>4, <1>5, <1>6 DEF CallerStep

LEMMA NextHeld ==
    ASSUME OnceInv, Faults \subseteq {"crash"}, [Next]_vars
    PROVE  ReceiptHeld'
<1>1. ASSUME NEW p \in Procs, Crash(p) PROVE ReceiptHeld'
  BY <1>1 DEF Crash, OnceInv, GenuineInv, TypeOK, ReceiptHeld
<1>2. ~Expire
  BY DEF Expire
<1>3. CASE UNCHANGED vars
  BY <1>3 DEF vars, OnceInv, ReceiptHeld
<1> QED BY <1>1, <1>2, <1>3, CallerStepHeld DEF Next

\* A step of the helper performs the operation, answers a call, or is a
\* stutter of OncePerKey.
LEMMA StepImplementsOnce ==
    ASSUME OnceInv, Faults \subseteq {"crash"}, [Next]_vars
    PROVE  Once!OnceNext \/ UNCHANGED <<payload, effects, answer>>
<1> USE DEF OnceInv, GenuineInv, TypeOK
<1> DEFINE Abstract == Once!OnceNext \/ UNCHANGED <<payload, effects, answer>>
\* Returning the outcome of an operation to a call that asked for the same
\* thing, or an error, is a Reply.
<1>1. ASSUME NEW c \in Callers, pc[c] # "done",
             NEW a \in effects \cup {"conflict", "error"},
             a \in effects => payload[a] = payload[c],
             Return(c, a), UNCHANGED <<calls, effects>>
      PROVE  Abstract
  <2>1. answer[c] = "none"
    BY <1>1 DEF ReceiptHeld
  <2>2. a \in Callers => payload[a] = payload[c]
    BY <1>1, IdempotencyAssumption
  <2> QED
    BY <1>1, <2>1, <2>2 DEF Once!OnceNext, Once!Reply, Return, calls
<1>2. ASSUME NEW c \in Callers, CallerStep(c) PROVE Abstract
  <2>1. CASE ReadMemory(c)
    <3> DEFINE r == memory[proc[c]]
    <3>1. CASE r = Nobody
      BY <2>1, <3>1 DEF ReadMemory, Goto, calls
    <3>2. CASE r # Nobody
      <4>1. r \in effects
        BY <3>2 DEF StoredAreGenuine
      <4>2. CASE payload[c] = payload[r]
        BY <1>1, <2>1, <3>2, <4>1, <4>2 DEF ReadMemory, HashMatches
      <4>3. CASE payload[c] # payload[r]
        BY <1>1, <2>1, <3>2, <4>3, IdempotencyAssumption
           DEF ReadMemory, HashMatches
      <4> QED BY <4>2, <4>3
    <3> QED BY <3>1, <3>2
  <2>2. ASSUME receipt.status = "COMPLETED", Replay(c), pc[c] # "done",
               UNCHANGED <<calls, effects>>
        PROVE  Abstract
    <3> DEFINE r == receipt.response
    <3>1. r \in effects
      BY <2>2 DEF StoredAreGenuine
    <3>2. CASE payload[c] = payload[r]
      BY <1>1, <2>2, <3>1, <3>2 DEF Replay, HashMatches
    <3>3. CASE payload[c] # payload[r]
      BY <1>1, <2>2, <3>3, IdempotencyAssumption DEF Replay, HashMatches
    <3> QED BY <3>2, <3>3
  <2>3. CASE LoadReceipt(c) \/ Raced(c)
    <3>1. CASE StillValid("COMPLETED")
      BY <2>2, <2>3, <3>1 DEF LoadReceipt, Raced, StillValid
    <3>2. CASE ~StillValid("COMPLETED")
      BY <2>3, <3>2 DEF LoadReceipt, Raced, Goto, calls
    <3> QED BY <3>1, <3>2
  <2>4. CASE WaitForCompleted(c)
    <3>1. CASE StillValid("COMPLETED")
      BY <2>2, <2>4, <3>1 DEF WaitForCompleted, StillValid
    <3>2. CASE ~StillValid("COMPLETED")
      BY <1>1, <2>4, <3>2, IdempotencyAssumption DEF WaitForCompleted
    <3> QED BY <3>1, <3>2
  <2>5. CASE Execute(c)
    <3>1. effects = {} /\ answer[c] = "none"
      BY <2>5 DEF Execute, ReceiptHeld
    <3> QED
      BY <2>5, <3>1 DEF Execute, Goto, calls, Once!OnceNext, Once!Perform
  <2>6. CASE Complete(c)
    <3>1. c \in effects /\ receipt.status = "PENDING"
      BY <2>6 DEF Complete, ReceiptHeld, StoredAreGenuine
    <3> QED BY <1>1, <2>6, <3>1 DEF Complete
  <2>7. CASE Release(c)
    BY <1>1, <2>7, IdempotencyAssumption DEF Release
  <2>8. CASE Reclaim(c) \/ Claim(c)
    BY <2>8 DEF Reclaim, Claim, Goto, calls
  <2> QED
    BY <1>2, <2>1, <2>3, <2>4, <2>5, <2>6, <2>7, <2>8 DEF CallerStep
<1>3. CASE \E p \in Procs : Crash(p)
  BY <1>3 DEF Crash, calls
<1>4. ~Expire
  BY DEF Expire
<1>5. CASE UNCHANGED vars
  BY <1>5 DEF vars, calls
<1> QED BY <1>2, <1>3, <1>4, <1>5 DEF Next

\* As long as receipts do not expire and nothing fails between the effect and
\* the receipt, any number of calls with the key, on any number of processes
\* that die at any moment, perform the operation once, and the others get that
\* outcome or are refused (withClientIdempotency implements OncePerKey).
THEOREM OncePerKeyRefinement ==
    ASSUME Faults \subseteq {"crash"}
    PROVE  Spec => PerformsOncePerKey
<1>1. Init => OnceInv /\ Once!OnceInit
  BY InitGenuine, InitHeld DEF OnceInv, Init, Once!OnceInit
<1>2. OnceInv /\ [Next]_vars => OnceInv'
  BY NextGenuine, NextHeld DEF OnceInv
<1>3. OnceInv /\ [Next]_vars =>
          [Once!OnceNext]_<<payload, effects, answer>>
  BY StepImplementsOnce
<1> QED
  BY <1>1, <1>2, <1>3, PTL DEF Spec, PerformsOncePerKey, Once!OnceSpec
=============================================================================
