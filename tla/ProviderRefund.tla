---------------------------- MODULE ProviderRefund ----------------------------
(***************************************************************************)
(* Refunds of one captured card payment: createRefund and refundRemaining  *)
(* for requests that run concurrently, the provider, and Adyen's refund    *)
(* notifications.  A refund row has one Idempotency-Key of the operation   *)
(* and is named by it.  A refund that Stripe accepts, pending or paid, is  *)
(* called successful at once and Stripe notifies nothing; Adyen accepts a  *)
(* refund and tells its outcome by a notification.                         *)
(***************************************************************************)
EXTENDS Naturals, FiniteSets, FiniteSetsExt

CONSTANTS
    Requests,     \* refund requests
    Keys,         \* their idempotency keys
    Providers,    \* connectors in use
    Captured      \* the amount of the operation

ASSUME ProviderRefundAssumption ==
    /\ IsFiniteSet(Keys)
    /\ Providers \subseteq {"stripe", "adyen"}
    /\ Captured \in Nat \ {0}

VARIABLES
    provider,  \* the connector of the operation
    op,        \* PaymentOperation.state
    refund,    \* the Refund row of each key
    req,       \* what each request asked for and where it is
    moved,     \* the refund of each key at the provider
    sentTo,    \* how often the provider was asked for the refund of a key
    hooks,     \* notifications in a transaction that has not ended
    applied    \* PaymentWebhookEvent

rows == <<op, refund>>
atProvider == <<moved, sentTo>>
vars == <<provider, rows, req, atProvider, hooks, applied>>

RefundStates == {"NONE", "PROCESSING", "SUCCEEDED", "FAILED", "UNKNOWN"}
RefundOfNothing == [state |-> "none", amount |-> 0]
NoRefund == [state |-> "NONE", amount |-> 0]

Init ==
    /\ provider \in Providers
    /\ op = "CAPTURED"
    /\ refund = [k \in Keys |-> NoRefund]
    /\ req \in [Requests ->
         [pc : {"load"}, key : Keys, amount : 1..Captured, already : {0},
          answer : {"none"}]
         \cup [pc : {"plan"}, key : Keys, amount : {0}, already : {0},
               answer : {"none"}]]
    /\ moved = [k \in Keys |-> "no"] /\ sentTo = [k \in Keys |-> 0]
    /\ hooks = {} /\ applied = {}

-----------------------------------------------------------------------------
(* The refunds of the operation *)

Sum(ks) == MapThenSumSet(LAMBDA k : refund[k].amount, ks)
InState(states) == {k \in Keys : refund[k].state \in states}

AlreadyRefunded == Sum(InState({"SUCCEEDED"}))

Refundable == op \in {"CAPTURED", "PARTIALLY_REFUNDED"}

\* paymentStateForSuccessfulRefundTotal, and the end of createRefund.
StateFor(total) ==
    CASE total = 0 -> "CAPTURED"
      [] total = Captured -> "REFUNDED"
      [] OTHER -> "PARTIALLY_REFUNDED"

Locked(k) == \E h \in hooks : h.key = k

-----------------------------------------------------------------------------
(* Requests.  Each of these steps is a statement, or a transaction. *)

Goto(r, label) == req' = [req EXCEPT ![r].pc = label]

\* refundRemaining refuses while a refund is undecided, and asks for the rest.
Plan(r) ==
    /\ req[r].pc = "plan"
    /\ LET rest == Captured - AlreadyRefunded
       IN IF Refundable /\ InState({"PROCESSING", "UNKNOWN"}) = {} /\ rest > 0
            THEN req' = [req EXCEPT ![r].pc = "load", ![r].amount = rest]
            ELSE Goto(r, "done")
    /\ UNCHANGED <<provider, rows, atProvider, hooks, applied>>

\* createRefund reads the operation with its successful refunds.
Load(r) ==
    /\ req[r].pc = "load"
    /\ IF Refundable /\ AlreadyRefunded + req[r].amount <= Captured
         THEN req' = [req EXCEPT ![r].pc = "lookup",
                                 ![r].already = AlreadyRefunded]
         ELSE Goto(r, "done")
    /\ UNCHANGED <<provider, rows, atProvider, hooks, applied>>

\* The refund of the key is returned when there is one, or refused when it was
\* for another request.
Lookup(r) ==
    /\ req[r].pc = "lookup"
    /\ Goto(r, IF refund[req[r].key].state = "NONE" THEN "create" ELSE "done")
    /\ UNCHANGED <<provider, rows, atProvider, hooks, applied>>

\* The unique index on the key refuses the second insert.
TakenOnceAnswered(k) == refund[k].state \notin {"NONE", "PROCESSING"}
Taken(k) == refund[k].state # "NONE"
Create(r) ==
    /\ req[r].pc = "create"
    /\ IF Taken(req[r].key) THEN Goto(r, "done") /\ UNCHANGED refund
       ELSE /\ refund' = [refund EXCEPT ![req[r].key] =
                  [state |-> "PROCESSING", amount |-> req[r].amount]]
            /\ Goto(r, "ask")
    /\ UNCHANGED <<provider, op, atProvider, hooks, applied>>

\* The provider gives no more back than it has captured.
Fits(r) ==
    MapThenSumSet(LAMBDA k : refund[k].amount,
                  {k \in Keys : moved[k] \in {"accepted", "paid"}})
       + req[r].amount <= Captured

\* The answer of a connector whose request timed out or was cut off.
LostAsFailed == "FAILED"
Lost == "UNKNOWN"

\* The connector asks the provider, which may do it, promise it, or refuse; the
\* answer may be lost either way.  Stripe's statuses but failed and canceled,
\* pending and requires_action among them, are told as SUCCEEDED.
Ask(r) ==
    LET k == req[r].key
        accepted == {"accepted"} \cup IF provider = "stripe" THEN {"paid"} ELSE {}
        told == IF provider = "adyen" THEN "PROCESSING" ELSE "SUCCEEDED"
    IN /\ req[r].pc = "ask"
       /\ sentTo' = [sentTo EXCEPT ![k] = @ + 1]
       /\ \/ /\ Fits(r)
             /\ \E m \in accepted : moved' = [moved EXCEPT ![k] = m]
             /\ \E a \in {told, Lost} :
                   req' = [req EXCEPT ![r].pc = "answer", ![r].answer = a]
          \/ \E a \in {"FAILED", Lost} :
                /\ req' = [req EXCEPT ![r].pc = "answer", ![r].answer = a]
                /\ UNCHANGED moved
       /\ UNCHANGED <<provider, rows, hooks, applied>>

\* The answer is written over whatever the row says by now.
WriteAnswer(r) ==
    LET k == req[r].key
    IN /\ req[r].pc = "answer" /\ ~Locked(k)
       /\ refund' = [refund EXCEPT ![k].state = req[r].answer]
       /\ Goto(r, IF req[r].answer = "SUCCEEDED" THEN "operation" ELSE "done")
       /\ UNCHANGED <<provider, op, atProvider, hooks, applied>>

\* The operation's state follows from the sum that was read at the start.
WriteOperation(r) ==
    /\ req[r].pc = "operation"
    /\ op' = StateFor(req[r].already + req[r].amount)
    /\ Goto(r, "done")
    /\ UNCHANGED <<provider, refund, atProvider, hooks, applied>>

\* The process dies in the middle of the request.
Die(r) ==
    /\ req[r].pc # "done" /\ Goto(r, "done")
    /\ UNCHANGED <<provider, rows, atProvider, hooks, applied>>

-----------------------------------------------------------------------------
(* The provider *)

\* The provider decides on a refund that it has accepted.
Decide(k) ==
    /\ moved[k] = "accepted"
    /\ \E d \in {"paid", "refused"} : moved' = [moved EXCEPT ![k] = d]
    /\ UNCHANGED <<provider, rows, req, sentTo, hooks, applied>>

\* A refund that was paid fails after all, or is reversed.
Undo(k) ==
    /\ moved[k] = "paid"
    /\ moved' = [moved EXCEPT ![k] = "undone"]
    /\ UNCHANGED <<provider, rows, req, sentTo, hooks, applied>>

\* What Adyen notifies, in any order and as often as it is not acknowledged.
Events(k) ==
    CASE moved[k] = "refused" -> {"refused"}
      [] moved[k] = "paid" -> {"done"}
      [] moved[k] = "undone" -> {"done", "late"}
      [] OTHER -> {}

\* States an operation takes without a reconciliation, and with one.
Backwards(from, to) ==
    /\ from \in {"PARTIALLY_REFUNDED", "REFUNDED"}
    /\ to \in {"CAPTURED", "PARTIALLY_REFUNDED"}
AllowedTransition(from, to, reconciliation) ==
    from = to \/ ~Backwards(from, to) \/ reconciliation

\* The outcome an event tells: REFUND_FAILED and REFUNDED_REVERSED are "late".
AnyOutcome(code) == "SUCCEEDED"
Outcome(code) == IF code = "done" THEN "SUCCEEDED" ELSE "FAILED"

\* The transaction writes the event and the row, and sums the refunds that it
\* sees; the rows of others in the making it does not see.  A sum beyond the
\* amount or a forbidden transition rolls it back, to be delivered again.
Notify(k) ==
    /\ provider = "adyen" /\ ~Locked(k)
    /\ \E code \in Events(k) :
         LET others == InState({"SUCCEEDED"}) \ {k}
             total == IF Outcome(code) = "SUCCEEDED"
                        THEN Sum(others \cup {k}) ELSE Sum(others)
         IN /\ <<k, code>> \notin applied
            /\ total <= Captured
            /\ AllowedTransition(op, StateFor(total), code = "late")
            /\ hooks' = hooks \cup {[key |-> k, code |-> code,
                                     state |-> StateFor(total)]}
    /\ UNCHANGED <<provider, rows, req, atProvider, applied>>

NotifyCommit(h) ==
    /\ refund' = [refund EXCEPT ![h.key].state = Outcome(h.code)]
    /\ op' = h.state
    /\ applied' = applied \cup {<<h.key, h.code>>}
    /\ hooks' = hooks \ {h}
    /\ UNCHANGED <<provider, req, atProvider>>

NotifyAbort(h) ==
    /\ hooks' = hooks \ {h}
    /\ UNCHANGED <<provider, rows, req, atProvider, applied>>

RequestStep(r) ==
    \/ Plan(r) \/ Load(r) \/ Lookup(r) \/ Create(r) \/ Ask(r)
    \/ WriteAnswer(r) \/ WriteOperation(r) \/ Die(r)

Next ==
    \/ \E r \in Requests : RequestStep(r)
    \/ \E k \in Keys : Decide(k) \/ Undo(k) \/ Notify(k)
    \/ \E h \in hooks : NotifyCommit(h) \/ NotifyAbort(h)

Spec == Init /\ [][Next]_vars

-----------------------------------------------------------------------------
(* Correctness *)

PCs == {"plan", "load", "lookup", "create", "ask", "answer", "operation",
        "done"}
OpStates == {"CAPTURED", "PARTIALLY_REFUNDED", "REFUNDED"}

\* The rows, the requests and the provider's records have their types.
TypeOK ==
    /\ provider \in Providers /\ op \in OpStates
    /\ refund \in [Keys -> [state : RefundStates, amount : 0..Captured]]
    /\ req \in [Requests ->
          [pc : PCs, key : Keys, amount : 0..Captured, already : 0..Captured,
           answer : (RefundStates \ {"NONE"}) \cup {"none"}]]
    /\ moved \in [Keys -> {"no", "accepted", "refused", "paid", "undone"}]
    /\ sentTo \in [Keys -> Nat]
    /\ hooks \subseteq [key : Keys, code : {"done", "refused", "late"},
                        state : OpStates]
    /\ applied \subseteq Keys \X {"done", "refused", "late"}

\* A refund that the rows call successful is one that Adyen has paid, or that
\* Stripe has accepted and may still refuse, whatever answers and notifications
\* cross (createRefund, refundPayment, ingest).
SucceededWasConfirmed ==
    \A k \in Keys : refund[k].state = "SUCCEEDED" =>
        IF provider = "adyen" THEN moved[k] \in {"paid", "undone"}
        ELSE moved[k] # "no"

\* Money that goes or went back is never taken for a refund that failed: its row is
\* successful or still undecided, answer lost or not (createRefund, the
\* connectors, ingest).
PaidRefundStaysVisible ==
    \A k \in Keys : moved[k] \in {"accepted", "paid"} =>
        refund[k].state \in {"PROCESSING", "UNKNOWN", "SUCCEEDED"}

\* However many requests race with one Idempotency-Key, the provider is asked
\* for that refund once; Adyen would not recognise the second (createRefund).
AskedOncePerKey == \A k \in Keys : sentTo[k] <= 1

-----------------------------------------------------------------------------
(* What the repository says of refunds, which a run examines *)

\* A refund that the rows call successful is one that the provider has paid
\* (PHASE17_GO_LIVE_RUNBOOK: no refund failure is left as settled certainty).
SucceededWasPaid ==
    \A k \in Keys : refund[k].state = "SUCCEEDED" =>
        moved[k] \in {"paid", "undone"}

\* Once Adyen has told that a refund failed late or was reversed, its row is
\* not successful, in whatever order the notifications came (ingest).
LateFailureStands ==
    \A k \in Keys : <<k, "late">> \in applied => refund[k].state # "SUCCEEDED"
=============================================================================
