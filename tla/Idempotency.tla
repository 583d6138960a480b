----------------------------- MODULE Idempotency -----------------------------
(***************************************************************************)
(* withClientIdempotency for one (shop, scope, Idempotency-Key): calls     *)
(* that carry the key, on several API processes, each with its own warm    *)
(* cache, around the single IdempotencyReceipt row.  Every statement on    *)
(* the row is a step of its own: the helper opens no transaction.          *)
(***************************************************************************)
EXTENDS Naturals

CONSTANTS
    Callers,     \* calls with the key, retries included
    Procs,       \* API processes
    Payloads,    \* request hashes
    Nobody,      \* no caller
    Faults       \* what may go wrong in a run

AllFaults == {"expire", "lateFailure", "crash"}

ASSUME IdempotencyAssumption ==
    /\ Nobody \notin Callers
    /\ {"none", "conflict", "error"} \cap Callers = {}
    /\ Faults \subseteq AllFaults

VARIABLES
    payload, proc,   \* what each call asks for, and the process it arrives at
    receipt,         \* the IdempotencyReceipt row
    memory,          \* memoryCache of each process: whose response it holds
    effects,         \* the calls whose operation took effect
    pc, answer       \* where each call is, and what it returned

calls == <<payload, proc>>
vars == <<calls, receipt, memory, effects, pc, answer>>

ReceiptOfNothing == [status |-> "NONE", correlationId |-> Nobody,
                     response |-> "none", live |-> FALSE]
NoReceipt == [status |-> "NONE", correlationId |-> Nobody,
              response |-> Nobody, live |-> FALSE]

Init ==
    /\ payload \in [Callers -> Payloads] /\ proc \in [Callers -> Procs]
    /\ receipt = NoReceipt
    /\ memory = [p \in Procs |-> Nobody]
    /\ effects = {}
    /\ pc = [c \in Callers |-> "start"]
    /\ answer = [c \in Callers |-> "none"]

-----------------------------------------------------------------------------

\* receiptStillValid: the row is there and has not expired.
StillValid(status) == receipt.status = status /\ receipt.live

Goto(c, label) == pc' = [pc EXCEPT ![c] = label] /\ UNCHANGED answer
Return(c, a) ==
    /\ pc' = [pc EXCEPT ![c] = "done"]
    /\ answer' = [answer EXCEPT ![c] = a]

\* The hash of a stored response is that of the request that produced it.  Each
\* caller gives one; without it the code would compare nothing.
AnyHashMatches(c, r) == TRUE
HashMatches(c, r) == payload[c] = payload[r]

\* The hash is compared, then the response kept in the warm cache and returned.
Replay(c) ==
    LET r == receipt.response
    IN IF HashMatches(c, r)
         THEN Return(c, r) /\ memory' = [memory EXCEPT ![proc[c]] = r]
         ELSE Return(c, "conflict") /\ UNCHANGED memory

ReadMemory(c) ==
    /\ pc[c] = "start"
    /\ LET r == memory[proc[c]]
       IN IF r = Nobody THEN Goto(c, "load")
          ELSE Return(c, IF HashMatches(c, r) THEN r ELSE "conflict")
    /\ UNCHANGED <<calls, receipt, memory, effects>>

LoadReceipt(c) ==
    /\ pc[c] = "load"
    /\ IF StillValid("COMPLETED") THEN Replay(c)
       ELSE /\ Goto(c, CASE StillValid("PENDING") -> "wait"
                         [] receipt.status = "NONE" -> "claim"
                         [] OTHER -> "reclaim")
            /\ UNCHANGED memory
    /\ UNCHANGED <<calls, receipt, effects>>

\* The expired receipt is deleted by its key: whichever row is there by now.
Reclaim(c) ==
    /\ pc[c] = "reclaim"
    /\ receipt' = NoReceipt
    /\ Goto(c, "claim")
    /\ UNCHANGED <<calls, memory, effects>>

\* The unique index lets one insert through.
UnclaimedOrPending == receipt.status # "COMPLETED"
Unclaimed == receipt.status = "NONE"
Claim(c) ==
    /\ pc[c] = "claim"
    /\ IF Unclaimed
         THEN /\ receipt' = [NoReceipt EXCEPT !.status = "PENDING",
                                 !.correlationId = c, !.live = TRUE]
              /\ Goto(c, "execute")
         ELSE Goto(c, "raced") /\ UNCHANGED receipt
    /\ UNCHANGED <<calls, memory, effects>>

Raced(c) ==
    /\ pc[c] = "raced"
    /\ IF StillValid("COMPLETED") THEN Replay(c)
                                  ELSE Goto(c, "wait") /\ UNCHANGED memory
    /\ UNCHANGED <<calls, receipt, effects>>

\* The last poll of waitForCompleted; the earlier ones changed nothing.
WaitForCompleted(c) ==
    /\ pc[c] = "wait"
    /\ IF StillValid("COMPLETED") THEN Replay(c)
       ELSE Return(c, "conflict") /\ UNCHANGED memory
    /\ UNCHANGED <<calls, receipt, effects>>

\* fn commits, throws before it commits, or throws after it committed (an
\* audit record, say, is written after the transaction).
Execute(c) ==
    /\ pc[c] = "execute"
    /\ \/ effects' = effects \cup {c} /\ Goto(c, "complete")
       \/ UNCHANGED effects /\ Goto(c, "release")
       \/ /\ "lateFailure" \in Faults
          /\ effects' = effects \cup {c} /\ Goto(c, "release")
    /\ UNCHANGED <<calls, receipt, memory>>

\* The update fails when the row is gone, or when the database is.
Complete(c) ==
    /\ pc[c] = "complete"
    /\ \/ /\ receipt.status # "NONE"
          /\ receipt' = [receipt EXCEPT !.status = "COMPLETED",
                                        !.response = c, !.live = TRUE]
          /\ memory' = [memory EXCEPT ![proc[c]] = c]
          /\ Return(c, c)
       \/ /\ receipt.status = "NONE" \/ "lateFailure" \in Faults
          /\ Goto(c, "release")
          /\ UNCHANGED <<receipt, memory>>
    /\ UNCHANGED <<calls, effects>>

Release(c) ==
    /\ pc[c] = "release"
    /\ receipt' = NoReceipt
    /\ Return(c, "error")
    /\ UNCHANGED <<calls, memory, effects>>

\* 24 hours pass.  No call lasts that long: at that moment none is between its
\* look at the receipt and its end, but one may be about to look.  A warm cache
\* counts its own 24 hours, which may have begun later.
Expire ==
    /\ "expire" \in Faults
    /\ receipt.status # "NONE" /\ receipt.live
    /\ \A c \in Callers : pc[c] \in {"start", "load", "wait", "done"}
    /\ receipt' = [receipt EXCEPT !.live = FALSE]
    /\ \E cold \in SUBSET Procs :
          memory' = [p \in Procs |-> IF p \in cold THEN Nobody ELSE memory[p]]
    /\ UNCHANGED <<calls, effects, pc, answer>>

\* A process dies with its cache and with the calls that run on it.
Crash(p) ==
    /\ "crash" \in Faults
    /\ memory' = [memory EXCEPT ![p] = Nobody]
    /\ pc' = [c \in Callers |-> IF proc[c] = p /\ pc[c] # "start"
                                  THEN "done" ELSE pc[c]]
    /\ UNCHANGED <<calls, receipt, effects, answer>>

CallerStep(c) ==
    \/ ReadMemory(c) \/ LoadReceipt(c) \/ Reclaim(c) \/ Claim(c) \/ Raced(c)
    \/ WaitForCompleted(c) \/ Execute(c) \/ Complete(c) \/ Release(c)

Next ==
    \/ \E c \in Callers : CallerStep(c)
    \/ \E p \in Procs : Crash(p)
    \/ Expire

Spec == Init /\ [][Next]_vars

-----------------------------------------------------------------------------
(* Correctness *)

PCs == {"start", "load", "reclaim", "claim", "raced", "wait", "execute",
        "complete", "release", "done"}

\* The receipt, the caches and the calls hold values of their types.
TypeOK ==
    /\ payload \in [Callers -> Payloads] /\ proc \in [Callers -> Procs]
    /\ receipt \in [status : {"NONE", "PENDING", "COMPLETED"},
                    correlationId : Callers \cup {Nobody},
                    response : Callers \cup {Nobody}, live : BOOLEAN]
    /\ memory \in [Procs -> Callers \cup {Nobody}]
    /\ effects \in SUBSET Callers
    /\ pc \in [Callers -> PCs]
    /\ answer \in [Callers -> Callers \cup {"none", "conflict", "error"}]

Once == INSTANCE OncePerKey

\* As long as receipts do not expire and nothing fails between the effect and
\* the receipt, calls that race on several processes, with crashes among them,
\* perform the operation once, and all the others get that outcome or are
\* refused (withClientIdempotency implements OncePerKey).
PerformsOncePerKey == Once!OnceSpec

\* Whatever expires, fails or crashes, a response that a call gets, be it from
\* the receipt or from a warm cache, is one of an operation that took effect
\* and that asked for the same thing (assertRequestHashMatch, readMemory).
AnswersAreGenuine ==
    \A c \in Callers : answer[c] \in Callers =>
        answer[c] \in effects /\ payload[answer[c]] = payload[c]

-----------------------------------------------------------------------------
(* What the repository says of the helper, which a run examines *)

\* Of the calls with one key a single one executes at any time, the claimant of
\* the receipt (withClientIdempotency).
OneClaimantExecutes ==
    \A c, d \in Callers :
        pc[c] = "execute" /\ pc[d] = "execute" => c = d
=============================================================================
