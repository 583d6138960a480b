--------------------------- MODULE ProviderPayment ---------------------------
(***************************************************************************)
(* Card payments of one settlement through a payment provider: the         *)
(* attempts of the checkout, the provider's own payment behind each of     *)
(* them, its webhooks, and the recording of what it captured as a Payment  *)
(* of the settlement.                                                      *)
(*                                                                         *)
(* ProviderCheckoutPaymentService and PaymentDomainService open no         *)
(* transaction around what they do: every statement and every call of the  *)
(* provider is a step of its own, and every update of a PaymentOperation   *)
(* is by its id, without a condition.  Taking a payment, a transaction, is *)
(* one step here; GuestCheckout is about its steps.                        *)
(***************************************************************************)
EXTENDS Naturals

CONSTANTS
    Keys,         \* Idempotency-Keys of the attempts to collect
    Clients,      \* concurrent requests and webhook deliveries
    NoKey,        \* no attempt
    Total,        \* the settlement's total
    Amounts,      \* what a payment may be of
    MaxVersion,   \* bound on GuestCheck.version
    Faults        \* what may happen in a run

AllFaults == {"refusal", "crash", "otherTender", "supersede"}

ASSUME ProviderPaymentAssumption ==
    /\ NoKey \notin Keys
    /\ Total \in Nat /\ Amounts \subseteq Nat \ {0} /\ MaxVersion \in Nat \ {0}
    /\ Faults \subseteq AllFaults

VARIABLES
    version, current,  \* of the check: its version, the settlement is current
    due,               \* CheckSettlement.amountDue
    op,                \* the PaymentOperation of each key
    payments,          \* Payment rows whose correlationId names the operation
    intent,            \* the provider's payment of each operation
    applied,           \* operations with a PaymentWebhookEvent
    pc, arg            \* where each handler is, and its local variables

checkout == <<version, current, due, payments>>
vars == <<checkout, op, intent, applied, pc, arg>>

OpStates == {"NONE", "CREATED", "PROCESSING", "CAPTURED", "FAILED",
             "CANCELED", "UNKNOWN"}
Final == [captured |-> "CAPTURED", failed |-> "FAILED",
          canceled |-> "CANCELED"]

\* providerPaymentId, reconciliationRequired and checkoutPaymentId of the
\* operation; amount and expectedCheckVersion are part of its requestHash.
NoOp == [state |-> "NONE", pid |-> FALSE, recon |-> FALSE, linked |-> FALSE,
         amount |-> 0, ver |-> 0]
ArgsWithoutAnswer == [key |-> NoKey, ver |-> 0, amount |-> 0, seen |-> "NONE"]
NoArgs == [key |-> NoKey, ver |-> 0, amount |-> 0, seen |-> "NONE",
           answer |-> "NONE"]

Init ==
    /\ version = 1 /\ current = TRUE /\ due = Total
    /\ op = [k \in Keys |-> NoOp]
    /\ payments = [k \in Keys |-> 0]
    /\ intent = [k \in Keys |-> "none"]
    /\ applied = {}
    /\ pc = [c \in Clients |-> "idle"] /\ arg = [c \in Clients |-> NoArgs]

-----------------------------------------------------------------------------

Goto(c, label, a) ==
    /\ pc' = [pc EXCEPT ![c] = label]
    /\ arg' = [arg EXCEPT ![c] = a]
Finish(c) == Goto(c, "idle", NoArgs)
Key(c) == arg[c].key

Write(k, state) ==
    op' = [op EXCEPT ![k].state = state, ![k].recon = (state = "UNKNOWN")]

\* createPayment of the checkout: all of it, or nothing.
BumpVersion == version < MaxVersion /\ version' = version + 1
CanPay(ver, amount) == current /\ version = ver /\ amount <= due

\* finalizeCaptured records what was captured, and nothing else.
FinalizableUnlessFailed(state) == state \notin {"FAILED", "CANCELED"}
Finalizable(state) == state = "CAPTURED"

\* What a connector answers when a call of the provider times out.
UncertainAsFailed == "FAILED"
Uncertain == "UNKNOWN"

\* PaymentOperationStateService: UNKNOWN is left only by what the provider says.
Transitions ==
    [CREATED |-> {"PROCESSING", "CANCELED"},
     PROCESSING |-> {"CAPTURED", "FAILED", "CANCELED", "UNKNOWN"},
     UNKNOWN |-> {"PROCESSING", "CAPTURED", "FAILED", "CANCELED"},
     CAPTURED |-> {}, FAILED |-> {}, CANCELED |-> {}]
Allowed(from, to, reconciliation) ==
    \/ from = to
    \/ to \in Transitions[from] /\ (from = "UNKNOWN" => reconciliation)

\* The states and flags that stand in the way of another attempt.
Unresolved(k) ==
    \/ op[k].recon
    \/ op[k].state \in {"CREATED", "PROCESSING", "UNKNOWN"}
    \/ op[k].state = "CAPTURED" /\ ~op[k].linked

-----------------------------------------------------------------------------
(* ProviderCheckoutPaymentService.collect, PaymentDomainService.startPayment *)

\* A new key: the settlement is current, and the amount within what is due.
CollectLoad(c) ==
    /\ pc[c] = "idle"
    /\ current
    /\ \E k \in Keys, amount \in Amounts :
        /\ op[k].state = "NONE" /\ amount <= due
        /\ Goto(c, "others", [NoArgs EXCEPT !.key = k, !.ver = version,
                                            !.amount = amount])
    /\ UNCHANGED <<checkout, op, intent, applied>>

\* The key of an earlier attempt: the request is the same, and it is finalized
\* at the version that the attempt had claimed.
CollectReplay(c) ==
    /\ pc[c] = "idle"
    /\ \E k \in Keys :
        /\ op[k].state # "NONE" /\ Finalizable(op[k].state) /\ ~op[k].linked
        /\ Goto(c, "lookup", [NoArgs EXCEPT !.key = k, !.ver = op[k].ver + 1])
    /\ UNCHANGED <<checkout, op, intent, applied>>

CollectOthers(c) ==
    /\ pc[c] = "others"
    /\ IF \E k \in Keys \ {Key(c)} : Unresolved(k)
         THEN Finish(c) ELSE Goto(c, "claim", arg[c])
    /\ UNCHANGED <<checkout, op, intent, applied>>

CollectClaim(c) ==
    /\ pc[c] = "claim"
    /\ IF current /\ version = arg[c].ver
         THEN BumpVersion /\ Goto(c, "create", arg[c])
         ELSE Finish(c) /\ UNCHANGED version
    /\ UNCHANGED <<current, due, payments, op, intent, applied>>

\* The unique index on the key; the other request differs in its version.
TakenOnceProcessing(k) == op[k].state \notin {"NONE", "CREATED"}
Taken(k) == op[k].state # "NONE"
CollectCreate(c) ==
    /\ pc[c] = "create"
    /\ IF Taken(Key(c))
         THEN Finish(c) /\ UNCHANGED op
         ELSE /\ op' = [op EXCEPT ![Key(c)] = [NoOp EXCEPT
                    !.state = "CREATED", !.amount = arg[c].amount,
                    !.ver = arg[c].ver]]
              /\ Goto(c, "process", [arg[c] EXCEPT !.amount = 0])
    /\ UNCHANGED <<checkout, intent, applied>>

CollectProcess(c) ==
    /\ pc[c] = "process"
    /\ op' = [op EXCEPT ![Key(c)].state = "PROCESSING"]
    /\ Goto(c, "charge", arg[c])
    /\ UNCHANGED <<checkout, intent, applied>>

\* connector.createPayment: the provider takes the payment up, completes it at
\* once or refuses it, and its answer may get lost.  A payment that was created
\* but whose handoff to the reader failed stays unread: nobody collects it.
CollectCharge(c) ==
    /\ pc[c] = "charge"
    /\ \E i \in {"none", "open", "unread", "captured", "failed"},
          a \in OpStates :
        /\ a = Uncertain \/ a = IF i = "open" THEN "PROCESSING"
                                ELSE IF i = "captured" THEN "CAPTURED"
                                ELSE "FAILED"
        /\ intent' = [intent EXCEPT ![Key(c)] = i]
        /\ Goto(c, "answer", [arg[c] EXCEPT !.answer = a])
    /\ UNCHANGED <<checkout, op, applied>>

CollectAnswer(c) ==
    /\ pc[c] = "answer"
    /\ LET a == arg[c].answer
       IN /\ op' = [op EXCEPT ![Key(c)].state = a, ![Key(c)].pid = TRUE,
                              ![Key(c)].recon = (a = "UNKNOWN")]
          /\ IF Finalizable(a)
               THEN Goto(c, "lookup", [arg[c] EXCEPT !.ver = @ + 1])
               ELSE Finish(c)
    /\ UNCHANGED <<checkout, intent, applied>>

-----------------------------------------------------------------------------
(* finalizeCaptured: record the payment, then link the operation to it *)

ForgetLookup(k) == FALSE
AlreadyPaid(k) == payments[k] > 0

FinalLookup(c) ==
    /\ pc[c] = "lookup"
    /\ Goto(c, IF AlreadyPaid(Key(c)) THEN "link" ELSE "pay", arg[c])
    /\ UNCHANGED <<checkout, op, intent, applied>>

\* createPayment may refuse for more reasons than the version and the amount,
\* and what follows its transaction may fail.
FinalPay(c) ==
    /\ pc[c] = "pay"
    /\ LET amount == op[Key(c)].amount
       IN \/ /\ CanPay(arg[c].ver, amount) /\ BumpVersion
             /\ due' = due - amount
             /\ payments' = [payments EXCEPT ![Key(c)] = @ + 1]
             /\ \E next \in {"link", "mark"} : Goto(c, next, arg[c])
          \/ Goto(c, "mark", arg[c]) /\ UNCHANGED <<version, due, payments>>
    /\ UNCHANGED <<current, op, intent, applied>>

FinalLink(c) ==
    /\ pc[c] = "link"
    /\ op' = [op EXCEPT ![Key(c)].linked = TRUE, ![Key(c)].recon = FALSE]
    /\ Finish(c)
    /\ UNCHANGED <<checkout, intent, applied>>

FinalMark(c) ==
    /\ pc[c] = "mark"
    /\ op' = [op EXCEPT ![Key(c)].recon = TRUE]
    /\ Finish(c)
    /\ UNCHANGED <<checkout, intent, applied>>

-----------------------------------------------------------------------------
(* reconcile, cancel and the webhooks *)

\* The request comes with the version that the client has seen last; an older
\* one leads where any refusal of createPayment does.
ReconcileLoad(c) ==
    /\ pc[c] = "idle"
    /\ \E k \in Keys :
        LET a == [NoArgs EXCEPT !.key = k, !.ver = version]
        IN \/ op[k].state = "UNKNOWN" /\ op[k].pid /\ Goto(c, "query", a)
           \/ /\ op[k].state \notin {"NONE", "UNKNOWN"}
              /\ Finalizable(op[k].state) /\ ~op[k].linked
              /\ Goto(c, "lookup", a)
    /\ UNCHANGED <<checkout, op, intent, applied>>

\* What the provider would still cancel.
Uncollected == {"open", "unread"}

\* connector.getPayment; an error that is not a timeout is taken for a failure.
ReconcileQuery(c) ==
    /\ pc[c] = "query"
    /\ LET i == intent[Key(c)]
       IN \E a \in {"PROCESSING", "CAPTURED", "FAILED", "CANCELED",
                    "UNKNOWN"} :
            /\ \/ a = CASE i = "none" -> "FAILED"
                        [] i \in Uncollected -> "PROCESSING"
                        [] OTHER -> Final[i]
               \/ a = Uncertain
               \/ a = "FAILED" /\ "refusal" \in Faults
            /\ Goto(c, "reconciled", [arg[c] EXCEPT !.answer = a])
    /\ UNCHANGED <<checkout, op, intent, applied>>

Reconciled(c) ==
    /\ pc[c] = "reconciled"
    /\ Write(Key(c), arg[c].answer)
    /\ IF Finalizable(arg[c].answer) /\ ~op[Key(c)].linked
         THEN Goto(c, "lookup", arg[c]) ELSE Finish(c)
    /\ UNCHANGED <<checkout, intent, applied>>

CancelLoad(c) ==
    /\ pc[c] = "idle"
    /\ \E k \in Keys :
        /\ op[k].pid /\ Allowed(op[k].state, "CANCELED", FALSE)
        /\ Goto(c, "cancel", [NoArgs EXCEPT !.key = k, !.seen = op[k].state])
    /\ UNCHANGED <<checkout, op, intent, applied>>

\* connector.cancelPayment: what is final at the provider is not canceled any
\* more, and its refusal is taken for a failure.
CancelAsk(c) ==
    /\ pc[c] = "cancel"
    /\ \/ /\ intent[Key(c)] \in Uncollected
          /\ intent' = [intent EXCEPT ![Key(c)] = "canceled"]
          /\ \E a \in {"CANCELED", Uncertain} :
                Goto(c, "canceled", [arg[c] EXCEPT !.answer = a])
       \/ /\ \E a \in {"FAILED", Uncertain} :
                /\ a = "FAILED" =>
                      intent[Key(c)] \notin Uncollected /\ "refusal" \in Faults
                /\ Goto(c, "canceled", [arg[c] EXCEPT !.answer = a])
          /\ UNCHANGED intent
    /\ UNCHANGED <<checkout, op, applied>>

\* The transition is asserted from the state read before the call.
Canceled(c) ==
    /\ pc[c] = "canceled"
    /\ IF Allowed(arg[c].seen, arg[c].answer, FALSE)
         THEN Write(Key(c), arg[c].answer)
         ELSE UNCHANGED op
    /\ Finish(c)
    /\ UNCHANGED <<checkout, intent, applied>>

\* A delivery, first or repeated, of the event that a payment became final.
\* The operation is found by the identifier of the provider.
WebhookLoad(c) ==
    /\ pc[c] = "idle"
    /\ \E k \in Keys \ applied :
        /\ op[k].pid /\ intent[k] \in DOMAIN Final
        /\ Allowed(op[k].state, Final[intent[k]], TRUE)
        /\ Goto(c, "webhook", [NoArgs EXCEPT !.key = k,
                                             !.answer = Final[intent[k]]])
    /\ UNCHANGED <<checkout, op, intent, applied>>

WebhookApply(c) ==
    /\ pc[c] = "webhook"
    /\ IF Key(c) \in applied
         THEN UNCHANGED <<op, applied>>
         ELSE applied' = applied \cup {Key(c)} /\ Write(Key(c), arg[c].answer)
    /\ Finish(c)
    /\ UNCHANGED <<checkout, intent>>

-----------------------------------------------------------------------------
(* The provider, the rest of the checkout, and crashes *)

Tap(k) ==
    /\ intent[k] = "open"
    /\ \E i \in {"captured", "failed"} : intent' = [intent EXCEPT ![k] = i]
    /\ UNCHANGED <<checkout, op, applied, pc, arg>>

\* A cash payment on the settlement.
OtherTender ==
    /\ "otherTender" \in Faults
    /\ current /\ BumpVersion
    /\ \E amount \in Amounts : amount <= due /\ due' = due - amount
    /\ UNCHANGED <<current, payments, op, intent, applied, pc, arg>>

\* The settlement is replaced, or the check closed.
Supersede ==
    /\ "supersede" \in Faults
    /\ current /\ BumpVersion /\ current' = FALSE
    /\ UNCHANGED <<due, payments, op, intent, applied, pc, arg>>

Crash(c) ==
    /\ "crash" \in Faults
    /\ pc[c] # "idle" /\ Finish(c)
    /\ UNCHANGED <<checkout, op, intent, applied>>

Collect(c) ==
    \/ CollectLoad(c) \/ CollectReplay(c) \/ CollectOthers(c)
    \/ CollectClaim(c) \/ CollectCreate(c) \/ CollectProcess(c)
    \/ CollectCharge(c) \/ CollectAnswer(c)
Finalize(c) == FinalLookup(c) \/ FinalPay(c) \/ FinalLink(c) \/ FinalMark(c)

Next ==
    \/ \E c \in Clients :
        \/ Collect(c) \/ Finalize(c)
        \/ ReconcileLoad(c) \/ ReconcileQuery(c) \/ Reconciled(c)
        \/ CancelLoad(c) \/ CancelAsk(c) \/ Canceled(c)
        \/ WebhookLoad(c) \/ WebhookApply(c)
        \/ Crash(c)
    \/ \E k \in Keys : Tap(k)
    \/ OtherTender \/ Supersede

Spec == Init /\ [][Next]_vars

-----------------------------------------------------------------------------
(* Correctness *)

PCs == {"idle", "others", "claim", "create", "process", "charge", "answer",
        "lookup", "pay", "link", "mark", "query", "reconciled", "cancel",
        "canceled", "webhook"}

\* The rows, the provider's payments and the handlers' local variables hold
\* values of their types.
TypeOK ==
    /\ version \in 1..MaxVersion /\ current \in BOOLEAN /\ due \in 0..Total
    /\ op \in [Keys -> [state : OpStates, pid : BOOLEAN, recon : BOOLEAN,
                        linked : BOOLEAN, amount : Nat, ver : Nat]]
    /\ payments \in [Keys -> Nat]
    /\ intent \in [Keys -> {"none", "open", "unread"} \cup DOMAIN Final]
    /\ applied \subseteq Keys
    /\ pc \in [Clients -> PCs]
    /\ arg \in [Clients -> [key : Keys \cup {NoKey}, ver : Nat, amount : Nat,
                            seen : OpStates, answer : OpStates]]

\* What the provider captured is recorded once, however often the collection is
\* retried, reconciled and finalized at the same time: Payment.correlationId is
\* not unique, it is the version of the check that stops the second payment
\* (finalizeCaptured).
RecordedOnce == \A k \in Keys : payments[k] <= 1

\* Nothing is recorded as paid, nor an operation linked to a payment, that the
\* provider did not capture, whatever answers and webhooks overtake each other
\* (finalizeCaptured, ingestNormalizedWebhook).
RecordedIsCaptured ==
    \A k \in Keys :
        /\ payments[k] > 0 => intent[k] = "captured"
        /\ op[k].linked => payments[k] > 0

\* The provider is asked for a payment once for each key, by one request, and
\* never again once it answered (startPayment).
ChargedOncePerKey ==
    LET asking(k) == {c \in Clients : Key(c) = k
                         /\ pc[c] \in {"process", "charge", "answer"}}
    IN \A k \in Keys :
        /\ \A c, d \in asking(k) : c = d
        /\ op[k].pid => asking(k) = {}

\* No captured payment disappears: until it is recorded, the operation is one
\* that the checkout shows as unresolved and that holds further attempts up
\* (assertNoOtherUnresolvedAttempt, ProviderCheckoutRecoveryController.active).
NoCaptureDisappears ==
    \A k \in Keys :
        intent[k] = "captured" => payments[k] > 0 \/ Unresolved(k)
=============================================================================
