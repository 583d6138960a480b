----------------------------- MODULE CashSession -----------------------------
(***************************************************************************)
(* The cash sessions of one cashier: cash moves in and out, is counted, a  *)
(* large variance is approved, and a count closes the session.             *)
(*                                                                         *)
(* Every handler of CashService is one transaction that first takes the    *)
(* row of the session FOR UPDATE; a cash sale is inserted by the payment   *)
(* transaction of the checkout, which only reads that row, and whose       *)
(* insert locks it FOR KEY SHARE until it commits.                         *)
(***************************************************************************)
EXTENDS Integers, Sequences

CONSTANTS
    Clients,       \* concurrent API requests
    Nobody,        \* holds the lock of an unlocked row
    MaxSessions,   \* bound on the sessions opened
    MaxMoves,      \* bound on the movements of a session
    MaxCounts,     \* bound on the counts submitted
    Ops            \* the operations a run lets clients start

AllOps == {"sale", "movement", "count", "approve", "close", "policy"}

ASSUME CashSessionAssumption ==
    /\ Nobody \notin Clients
    /\ MaxSessions \in Nat \ {0} /\ MaxMoves \in Nat /\ MaxCounts \in Nat
    /\ Ops \subseteq AllOps

Sessions == 1..MaxSessions

VARIABLES
    status,      \* CashSession.status
    moves,       \* amounts of the CashMovement rows of each session, signed
    counts,      \* CashCount rows with their ShiftCloseApproval, in order
    closedWith,  \* what the close wrote on the session
    threshold,   \* Shop.cashVarianceApprovalThreshold
    inForce,     \* the thresholds since each session was last locked
    lock,        \* transaction that holds the session row FOR UPDATE
    share,       \* transactions that hold it FOR KEY SHARE
    pc, arg

rows == <<status, moves, counts, closedWith, threshold>>
vars == <<rows, inForce, lock, share, pc, arg>>

Open == {s \in Sessions : status[s] = "OPEN"}
Amounts == {-1, 1}
Counted == {0, 1}

NotClosed == [expected |-> 0, counted |-> 0, count |-> 0]
\* What a handler begins with, and that without the room for the threshold.
ArgWithoutLimit == [sid |-> 0, amt |-> 0, expected |-> 0]
NoArg == [sid |-> 0, amt |-> 0, expected |-> 0, limit |-> 0]

Init ==
    /\ status = [s \in Sessions |-> "NONE"]
    /\ moves = [s \in Sessions |-> <<>>]
    /\ counts = <<>>
    /\ closedWith = [s \in Sessions |-> NotClosed]
    /\ threshold = 0 /\ inForce = [s \in Sessions |-> {}]
    /\ lock = [s \in Sessions |-> Nobody]
    /\ share = [s \in Sessions |-> {}]
    /\ pc = [c \in Clients |-> "idle"]
    /\ arg = [c \in Clients |-> NoArg]

-----------------------------------------------------------------------------

\* expectedCash: the opening float, here zero, and the movements.
ExpectedCash(s) ==
    LET sum[n \in 0..Len(moves[s])] ==
            IF n = 0 THEN 0 ELSE sum[n - 1] + moves[s][n]
    IN sum[Len(moves[s])]

Goto(c, label, a) ==
    /\ pc' = [pc EXCEPT ![c] = label]
    /\ arg' = [arg EXCEPT ![c] = a]
Finish(c) == Goto(c, "idle", NoArg)

\* A transaction that ends frees its locks.
Unlock(c) ==
    /\ lock' = [s \in Sessions |-> IF lock[s] = c THEN Nobody ELSE lock[s]]
    /\ share' = [s \in Sessions |-> share[s] \ {c}]
EndTransaction(c) == Unlock(c) /\ Finish(c)

LockForUpdate(c, s) ==
    /\ lock[s] = Nobody /\ share[s] \subseteq {c}
    /\ lock' = [lock EXCEPT ![s] = c]
    /\ inForce' = [inForce EXCEPT ![s] = {threshold}]
    /\ UNCHANGED share

\* The partial unique index lets a cashier have one open session.
OpenSession(c) ==
    /\ pc[c] = "idle" /\ Open = {}
    /\ \E s \in Sessions :
        /\ status[s] = "NONE" /\ \A t \in 1..(s - 1) : status[t] # "NONE"
        /\ status' = [status EXCEPT ![s] = "OPEN"]
    /\ UNCHANGED <<moves, counts, closedWith, threshold, inForce, lock, share,
                   pc, arg>>

\* requireSessionForCashPayment: the session is read, not locked.
SaleRead(c) ==
    /\ pc[c] = "idle" /\ "sale" \in Ops
    /\ \E s \in Open :
        Goto(c, "saleInsert", [NoArg EXCEPT !.sid = s, !.amt = 1])
    /\ UNCHANGED <<rows, inForce, lock, share>>

\* recordCashSale: the foreign key makes the insert wait for FOR UPDATE.
ForgetKeyShare(c, s) == UNCHANGED share
LockForKeyShare(c, s) ==
    /\ lock[s] = Nobody
    /\ share' = [share EXCEPT ![s] = @ \cup {c}]
SaleInsert(c) ==
    /\ pc[c] = "saleInsert"
    /\ LockForKeyShare(c, arg[c].sid)
    /\ Goto(c, "saleCommit", arg[c])
    /\ UNCHANGED <<rows, inForce, lock>>

Record(s, amount) ==
    /\ Len(moves[s]) < MaxMoves
    /\ moves' = [moves EXCEPT ![s] = Append(@, amount)]

\* The payment commits, and the movement with it.
SaleCommit(c) ==
    /\ pc[c] = "saleCommit"
    /\ Record(arg[c].sid, arg[c].amt)
    /\ EndTransaction(c)
    /\ UNCHANGED <<status, counts, closedWith, threshold, inForce>>

\* createMovement, submitCount, approveVariance and closeSession begin alike.
\* They read the movements under the lock; a closed session refuses them.
Enter(c) ==
    /\ pc[c] = "idle"
    /\ \E op \in Ops \cap {"movement", "count", "approve", "close"},
          s \in Open :
        /\ LockForUpdate(c, s)
        /\ Goto(c, op, [NoArg EXCEPT !.sid = s, !.expected = ExpectedCash(s)])
    /\ UNCHANGED rows

CreateMovement(c) ==
    /\ pc[c] = "movement"
    /\ \E amount \in Amounts : Record(arg[c].sid, amount)
    /\ EndTransaction(c)
    /\ UNCHANGED <<status, counts, closedWith, threshold, inForce>>

\* A count and a close read the policy before they write, and hold it by no
\* lock.
ReadPolicy(c) ==
    /\ pc[c] \in {"count", "close"}
    /\ Goto(c, IF pc[c] = "count" THEN "submit" ELSE "closing",
            [arg[c] EXCEPT !.limit = threshold])
    /\ UNCHANGED <<rows, inForce, lock, share>>

ExceedsUpwards(variance, limit) == variance > limit
Exceeds(variance, limit) == variance > limit \/ -variance > limit

\* A variance above the threshold requests an approval.
SubmitCount(c) ==
    /\ pc[c] = "submit"
    /\ Len(counts) < MaxCounts
    /\ \E n \in Counted :
        counts' = Append(counts,
            [sid |-> arg[c].sid, counted |-> n, expected |-> arg[c].expected,
             approval |-> IF Exceeds(n - arg[c].expected, arg[c].limit)
                            THEN "PENDING" ELSE "NONE"])
    /\ EndTransaction(c)
    /\ UNCHANGED <<status, moves, closedWith, threshold, inForce>>

ApproveVariance(c) ==
    /\ pc[c] = "approve"
    /\ \E k \in DOMAIN counts :
        /\ counts[k].sid = arg[c].sid /\ counts[k].approval # "NONE"
        /\ counts' = [counts EXCEPT ![k].approval = "APPROVED"]
    /\ EndTransaction(c)
    /\ UNCHANGED <<status, moves, closedWith, threshold, inForce>>

\* The count named in the request must tell the cash expected now, and its
\* variance be within the threshold as it was read, or approved.
Closes(c, k) ==
    /\ counts[k].sid = arg[c].sid
    /\ counts[k].expected = arg[c].expected
    /\ Exceeds(counts[k].counted - arg[c].expected, arg[c].limit) =>
          counts[k].approval = "APPROVED"
CloseSession(c) ==
    /\ pc[c] = "closing"
    /\ \E k \in DOMAIN counts :
        /\ Closes(c, k)
        /\ closedWith' = [closedWith EXCEPT ![arg[c].sid] =
              [expected |-> arg[c].expected, counted |-> counts[k].counted,
               count |-> k]]
    /\ status' = [status EXCEPT ![arg[c].sid] = "CLOSED"]
    /\ EndTransaction(c)
    /\ UNCHANGED <<moves, counts, threshold, inForce>>

UpdatePolicy(c) ==
    /\ pc[c] = "idle" /\ "policy" \in Ops
    /\ threshold' = 1 - threshold
    /\ inForce' = [s \in Sessions |-> inForce[s] \cup {threshold'}]
    /\ UNCHANGED <<status, moves, counts, closedWith, lock, share, pc, arg>>

\* The request is refused, or fails, and its transaction rolls back.
Abort(c) ==
    /\ pc[c] # "idle"
    /\ EndTransaction(c)
    /\ UNCHANGED <<rows, inForce>>

Next ==
    \E c \in Clients :
        \/ OpenSession(c) \/ SaleRead(c) \/ SaleInsert(c) \/ SaleCommit(c)
        \/ Enter(c) \/ CreateMovement(c) \/ ReadPolicy(c) \/ SubmitCount(c)
        \/ ApproveVariance(c) \/ CloseSession(c) \/ UpdatePolicy(c)
        \/ Abort(c)

Spec == Init /\ [][Next]_vars

-----------------------------------------------------------------------------
(* Correctness *)

\* The rows and the handlers' local variables hold values of their types.
TypeOK ==
    /\ status \in [Sessions -> {"NONE", "OPEN", "CLOSED"}]
    /\ moves \in [Sessions -> Seq(Amounts)]
    /\ counts \in Seq([sid : Sessions, counted : Counted, expected : Int,
                       approval : {"NONE", "PENDING", "APPROVED"}])
    /\ closedWith \in [Sessions ->
          [expected : Int, counted : Counted, count : Nat]]
    /\ threshold \in Nat /\ inForce \in [Sessions -> SUBSET Nat]
    /\ lock \in [Sessions -> Clients \cup {Nobody}]
    /\ share \in [Sessions -> SUBSET Clients]
    /\ pc \in [Clients -> {"idle", "saleInsert", "saleCommit", "movement",
                           "count", "submit", "approve", "close", "closing"}]
    /\ arg \in [Clients -> [sid : {0} \cup Sessions, amt : {0} \cup Amounts,
                            expected : Int, limit : Nat]]

\* A session is closed on cash that reconciles: what the close wrote is what
\* the movements add up to at that moment, and what was counted differs from it
\* by no more than a threshold that was in force since the close locked the
\* session, unless that count was approved (closeSession against the sales,
\* movements and policy changes that race it).
CloseReconciles ==
    [][\A s \in Sessions : status[s] = "OPEN" /\ status'[s] = "CLOSED" =>
          LET w == closedWith'[s]
              variance == w.counted - w.expected
          IN /\ w.expected = ExpectedCash(s)
             /\ counts[w.count].counted = w.counted
             /\ \/ \E t \in inForce[s] : variance \in -t..t
                \/ counts[w.count].approval = "APPROVED"]_vars

\* A count is submitted against the cash that is expected at that moment, so
\* that its variance blames nobody for cash that moved meanwhile (submitCount).
CountTellsExpectedCash ==
    [][\A c \in Clients : SubmitCount(c) =>
          LET n == counts'[Len(counts')]
          IN n.expected = ExpectedCash(n.sid)]_vars

-----------------------------------------------------------------------------
(* What the repository says of a cash session, which a run examines *)

\* Cash moves in an open session only (CashMovement, recordCashSale).
ClosedSessionsAreImmutable ==
    [][\A s \in Sessions : status[s] = "CLOSED" => moves'[s] = moves[s]]_vars

\* A variance above the threshold is approved before the close
\* (closeSession: "must be approved before close").
CloseWithinThreshold ==
    [][\A s \in Sessions : status[s] = "OPEN" /\ status'[s] = "CLOSED" =>
          LET w == closedWith'[s]
          IN \/ w.counted - w.expected \in -threshold..threshold
             \/ counts[w.count].approval = "APPROVED"]_vars
=============================================================================
