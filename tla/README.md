# GoSpots: a verification project for the commercial core

GoSpots is a back office and booking product for venues (restaurants, billiard
and arcade halls): a NestJS API over PostgreSQL (`src/apps/api`), a React web
client (`src/apps/web`) and an edge process for offline work
(`src/apps/edge`). What this project is about is the part of the API that
moves money: several staff members and devices work on the same bill at once,
requests are retried, providers answer late or not at all, and processes die
between two statements. The modules model that code, TLC checks them on small
instances, and TLAPS proves every safety property they check for all instances.

Paths below are relative to `src/apps/api/src/modules/` unless they begin with
`src/`.

## Running it

    tlc -config GuestCheckoutAll.cfg MCGuestCheckout     # any run, see below
    tlapm GuestCheckoutProofs.tla                        # any *Proofs module

`PROJECT.json` lists the runs, the lines each definition models, the hazards
of the code and the properties about them, and for every property a mutated
definition with which it fails.

## Inventory

| component | state | operations | how it meets the others |
|---|---|---|---|
| guest check (`guest-check/`) | `GuestCheck`: status, version, currentSettlementId; the links of legacy orders, play sessions and reservations | create, update, attach, detach, void, settle | its settlement is made by the commercial settlement; every other part bumps its version |
| commercial settlement (`checkout/commercial-settlement.service.ts`) | `CheckSettlement`, `ChargeSnapshot` | createSettlement | reads the sources, adjustments and orders of the check |
| checkout payments (`checkout/checkout-payment.service.ts`) | `Payment`, `PaymentAllocation`, `LedgerEntry` | createPayment | locks the settlement, then updates the check; records a cash sale |
| commercial core (`checkout/commercial-core.service.ts`) | `CommercialAdjustment`, charges, tips | apply and void them, reopen, completeVenueOrder | locks the check, voids its settlement |
| check close (`checkout/checkout.service.ts`) | check and settlement | closeCheck | locks the check, updates the settlement |
| ordering (`ordering/`) | `VenueOrder` | createOrder, cancelOrder, completion | reads the payments of the check it orders for |
| client idempotency (`src/apps/api/src/common/idempotency.util.ts`) | `IdempotencyReceipt`, a warm cache per process | withClientIdempotency | wraps the money endpoints |
| cash sessions (`cash/`) | `CashSession`, `CashMovement`, `CashCount`, approvals, the shop's threshold | open, movement, count, approve, close, policy | a cash payment inserts a movement |
| provider card payments (`checkout/provider-checkout-payment.service.ts`, `device-payment/`) | `PaymentOperation`, `PaymentWebhookEvent`, the provider's payment | collect, reconcile, cancel, finalize, webhook | claims the check's version, calls the provider, then createPayment |
| provider refunds (`device-payment/payment-domain.service.ts`, `checkout/provider-checkout-refund.service.ts`, the connectors) | `Refund`, the operation's state, the provider's refund | createRefund, refund of what remains, notification | calls the provider between two transactions; Adyen tells the outcome later |
| reservation deposits (`growth/growth-public-deposit.service.ts`, `growth/reservation-growth.service.ts`, `growth/growth-capacity.service.ts`, `growth/phase8-reservation.service.ts`) | checkout attempts, the deposit ledger, applications, `DEPOSIT_APPLICATION` credits, the reservation's status | guest checkout, webhook, record, close, apply, arrive, adjust, refund | Stripe Checkout; the credit is part of a guest check's bill |
| check merge, day close | checks, snapshots of a day | merge, close | check and settlement locks |
| billing (`billing/`) | `BillingWebhookEvent`, `BillingSubscription`, the `Subscription` that gives access | ingest, process, retry, requeue, cancel, end of grace, cleanup | Stripe's and Mollie's events; cron ticks on several processes |
| authentication | sessions in refresh families | login, rotate, revoke | every request |
| mail outbox (`mail/`) | `MailOutbox` rows | enqueue and send, tick, mark, requeue, purge | requests and ticks of several processes deliver the same rows |
| domain-event outbox | rows to be claimed | claim, consume, retry | pollers on several processes |
| offline sync, edge | commands recorded offline | push, replay | replays through the API |
| reservations, growth (stored value, capacity), ticketing | bookings, balances | book, hold, redeem | advisory locks |
| the rest (inventory, kitchen, compliance, workforce, organisations, privacy, media, web client) | records | mostly single-row updates | see `components` in `PROJECT.json` |

### What is hard about it

- *Two lock orders.* A payment locks the settlement row and updates the check
  last; mutations and closes lock the check and update the settlement last.
- *Locks that are not taken.* closeCheck does not lock the settlement;
  attach, detach, update and order handlers open no transaction around what
  they read; a cash sale does not lock the session; nothing in the provider
  payment code is in a transaction with the provider's answer.
- *Conditional and unconditional updates side by side.* `updateMany ... where
  version` protects some handlers, `update where id` others not.
- *Retries.* An Idempotency-Key meets an expired receipt, a crashed claimant or
  a warm cache; a card payment is retried, reconciled, canceled and finalized
  from different devices, while webhooks arrive late, early and twice.
- *Partial failure.* The effect commits and what follows it fails.

What makes each component correct:

| component | correct when |
|---|---|
| settlements and payments | due plus paid is always the total; no settlement with money on it is voided; it is closed only when paid; requests on it are serialisable |
| mutations, reopen | they spare tendered and taken money |
| check | its bill is locked once money is recorded; a paid settlement is not replaced; a payment is of the current bill |
| locks | no handler waits for ever |
| idempotency | an operation is performed once per key; an answer is genuine |
| cash session | the close reconciles what was counted with what moved; a closed session stays as it is |
| card payments | a capture is charged once, recorded once and never disappears; nothing else is recorded |
| refunds | what is called refunded was paid back by Adyen or accepted by Stripe, what is paid back is never called failed, one key asks once |
| deposits | money in the ledger is real; one session is open at a time; one request asks for one refund; neither staff nor Stripe takes out more than came in; what the till credits on a check was paid; a paid check keeps its credit |
| mail outbox | what is marked sent was delivered, nothing is given up early, every mail settles |
| billing inbox | one worker per event, a processed event has had its effect, every event settles, access was paid for |
| domain-event outbox (planned) | each row handled at least once, no stale claimant wins |
| refresh families (planned) | a revoked family issues nothing |

## Modules

| module | is about |
|---|---|
| `GuestCheckout` | one check, its settlements, payments, adjustment, links and orders, and the eleven operations on them run by concurrent clients |
| `SettlementLedger` | what a settlement promises: one atomic step at a time |
| `Idempotency` | `withClientIdempotency` for one key, on several processes |
| `OncePerKey` | what a key promises |
| `CashSession` | the sessions of one cashier |
| `ProviderPayment` | card payments of one settlement through a provider |
| `ProviderRefund` | refunds of one captured card payment on Stripe and on Adyen |
| `MailOutbox` | the rows of the outbox, the requests that send and the ticks that retry |
| `ReservationDeposit` | the deposit of one reservation, from the guest's checkout to the credit on a check and back |
| `BillingWebhook` | Stripe's events of one shop's subscription, and who else writes it |
| `*Proofs` | the theorems about a component's module, see Proofs |
| `MC*` | symmetry sets and small sets of requests for TLC |

They compose in two ways. `GuestCheckout` implements `SettlementLedger` and
`Idempotency` implements `OncePerKey`, as refinements. And a module that uses
another part sees it as that part promises to be: the recording of a payment is
one step in `ProviderPayment`, the settlement of the check one (`BillStep`) in
`ReservationDeposit`; a capture is where `ProviderRefund` begins.

### How a handler becomes actions

A handler is cut where another one can get in between: at a statement that
waits for a row lock, between the statements of a handler without a
transaction, at a call of the provider. What happens between two cuts is one
action. A transaction writes at its commit, so its writes are in its last
action; the rows it locked stay locked until then. The transactions run at READ
COMMITTED, PostgreSQL's default, which the code does not change: a statement
sees what is committed when it runs, and an `UPDATE ... WHERE` that waited for
a row looks at its new version. `pc` tells where a client's handler is, `arg`
is what it holds in local variables: values that were read before a cut and are
used after it.

Every action's comment names the method it models. Constraints of the database
are guards (the unique index on receipts and on open cash sessions) or
rollbacks (the unique `(guestCheckId, checkVersion)` of a settlement, foreign
keys that wait for a row locked FOR UPDATE). A refusal before the first write
is a request that is never started, so it has no action; a refusal after a cut
is the ELSE of the action after it.

**GuestCheckout.** `status`, `version` and `current` are the check;
`settlement` maps a check version to the row calculated at it, with the linked
sources that changed since (`changed`, the comparison of `updatedAt` with
`createdAt`); `paid` is the sum of the payments of a settlement. All of
the bill that matters here is its total and whether it can be projected, so
every line is worth 1, and an adjustment one more or less. `facts` stands for
ledger entries with an amount. Deadlocks are those of two transactions: nobody
holds more than two of the rows that are modelled.

**Idempotency.** One key, hence one receipt. `payload` is the request hash,
`proc` the process a call arrives at. fn is one step (`Execute`), which may
take effect and then throw (`lateFailure`). The polls of waitForCompleted
are its last one. Receipts expire only while no call is between its look and
its end: that lasts 24 hours.

**CashSession.** The opening float is zero and amounts are -1 and 1. A foreign
key lock (FOR KEY SHARE) is the `share` of a session. A count and a close read
the threshold in a step of their own (`ReadPolicy`), after the session's lock
and before they write; `updatePolicy` takes no session lock and may fall in
between. `inForce` remembers, for the property only, the thresholds since a
session was last locked. Request refusals and timeouts are `Abort`.

**ProviderPayment.** `intent` is the provider's own payment, `op` the row that
tells what the API knows of it. createPayment of the checkout is a single
step here, since `GuestCheckout` is about its steps. REQUIRES_ACTION and
AUTHORIZED are merged with PROCESSING. The provider's final states stay final.
A payment whose handoff to the reader failed without being uncertain is FAILED
while the provider still has it open; it is `unread`, since no reader collects
it, and can only be canceled.
A finalizing request carries the version the client saw last; one with an older
version is refused, and createPayment may be refused at any time.

**ProviderRefund.** A refund row is named by its idempotency key. A request is
cut before the provider is asked and after it answered; `moved` is the refund
at the provider, and the answer may be lost in either direction. Stripe
answers at once, SUCCEEDED for every status but `failed` and `canceled`, hence
also for a refund that is pending and may be refused later, and sends nothing;
Adyen accepts and notifies, in any order and more than once. `hooks` are notifications whose transaction has read the
operation's refunds and not yet written.

**MailOutbox.** `Senders` are requests that enqueue a mail and deliver it at
once, `Workers` are ticks. Each statement is a step: read the count of
attempts, write it back. `lock` is the advisory lock, which the end of its
transaction frees although the batch goes on. How a deployment delivers
(Resend, a preview, not at all) is chosen once.

**ReservationDeposit.** The ledger, the applications and the credits are sets
of records with a correlation id, as the unique indexes make them. Each family
of transactions has an advisory lock: what is inside one lock is a guard
(`InCheckout`, `InRecord`, `Inside`), and families do not exclude each other.
REVERSAL is a movement like CAPTURE or FORFEIT and is left out. `succeeded` is
the sequence of successes: a refund looks for the last one whose attempt still
is SUCCEEDED, as the query ordered by `succeededAt` does. Credits are given on
several checks, each with its row lock (`CheckLocked`), which keeps nothing of
the other checks as it is: an adjustment reads what is used on all of them. A
refund that Stripe accepts is in `refunds`, and in `bounced` when it failed
afterwards; the code takes a pending one for done. PENDING, CONFIRMED and
CHECKED_IN are one status, since only `checkIn` tells them apart, and a
settlement that is being paid counts as open.

**BillingWebhook.** The event's name is the reason Stripe had to send it; what
is applied is the subscription as Stripe has it when it is fetched. A worker's
`todo` is the sequence of updates of its event; each reads the row, writes it
and projects it onto the access (`entitlement`). `other` are the billing cron,
which runs under a lock of its own, and the owner who cancels at once. Trials,
pauses, manual renewal, cancelation at the end of a period and PROVIDER_ERROR
are left out, and so is Mollie. Backoff is nondeterministic: a failed event
may be due at once. An invoice is one of a subscription that it names.
`requeueDeadLetter` looks at the event and resets it in another statement,
whatever became of it; any number of operators do so at once. Two histories
are kept beside the code's own state: `overrun`, the events that a requeue reset
when they were dead no more, and `met`, the events that have had the effect on
access that they call for since they came.

## Runs

| run | asks | instance |
|---|---|---|
| `guest_checkout_all` | do all eleven operations keep settlements balanced, serialisable, see at their last step what they decided on, spare tender, never erase money on reopening and never deadlock a paid close? | 2 clients, 1 source, 1 order, versions up to 6 |
| `guest_checkout_live` | does every handler end? | 2 clients, versions up to 7, the operations that hold or wait for locks |
| `idempotency_once` | is the operation performed once per key? | 3 calls, 2 processes, 2 payloads, crashes |
| `idempotency_faults` | is every answer genuine, whatever fails? | the same, with expiry and late failures |
| `cash_session_all` | does a close reconcile, and a count tell the cash expected? | 2 clients, 2 sessions, 2 movements, 2 counts |
| `provider_payment_all` | is a capture charged once, recorded once, and never lost; is what is recorded captured? | 2 keys, 2 requests, a total of 2, versions up to 4 |
| `provider_payment_vanish` | is it lost when the provider refuses to answer? It is. | the same |
| `provider_refund_all` | does what the rows say of refunds agree with the provider, and is it asked once per key? | 3 requests, 2 keys, 2 captured, Stripe and Adyen |
| `mail_outbox_all` | is a mail marked as sent and given up only as it should be, and does it settle? | 1 mail, 2 senders, 2 ticks, 2 attempts, 1 fault |
| `reservation_deposit_all` | is the deposit's money real, asked back once and credited only when paid, and does a paid check keep it? | 2 checkouts, any 2 requests of staff, 2 checks, a deposit of 2, 2 attempts |
| `billing_webhook_all` | has a processed event had its effect, and was access paid for? | 2 events, 2 workers, the cron, the owner, 1 attempt, 1 requeue |
| `billing_webhook_live` | is an event one worker's unless a requeue came late, and does every event settle? | 1 event, 2 workers, 2 operators, 2 attempts, 2 requeues, 1 death |

Further configurations show, each with a short counterexample, what the
repository says of itself and the code does not keep (see below):

| configuration | property | quoted from |
|---|---|---|
| `GuestCheckoutRecalculated.cfg` | `PaidNeverRecalculated` | `src/docs/architecture/phase4-commercial-core.md:60` |
| `GuestCheckoutBillLock.cfg` | `PaidBillLocked` | `guest-check/guest-check.service.ts:202` |
| `GuestCheckoutStaleBill.cfg` | `PaymentSeesCurrentBill` | `checkout/checkout-payment.service.ts:193` |
| `IdempotencyExpired.cfg` | `OneClaimantExecutes` | `src/docs/architecture/phase2-integrity.md:46` |
| `CashSessionLatePolicy.cfg` | `CloseWithinThreshold` | `cash/cash.service.ts:793` |
| `CashSessionLateSale.cfg` | `ClosedSessionsAreImmutable` | `src/apps/api/prisma/schema.prisma:2034` |
| `ProviderRefundPending.cfg` | `SucceededWasPaid` | `src/docs/operations/PHASE17_GO_LIVE_RUNBOOK.md:175` |
| `ProviderRefundLate.cfg` | `LateFailureStands` | `src/docs/program/phase17-requirements-matrix.md:51` |
| `ReservationDepositTwoChecks.cfg` | `AllTillCreditWasPaid` | `commercial-core/commercial-core.service.ts:564` |
| `ReservationDepositBounced.cfg` | `RefundedHasMoved` | `growth/phase8-reservation.service.ts:549` |
| `BillingWebhookEnded.cfg` | `EndedStaysEnded` | `src/docs/billing/STATE_MACHINE.md:64` |
| `BillingWebhookRequeued.cfg` | `OneWorkerPerEvent` | `src/docs/billing/WEBHOOKS.md:64` |

### Why the bounds are enough

A race in this code is between two handlers, over one row: each hazard on
the list needs two requests, and a third only repeats what the second does. Two
clients are used where every operation takes part. Three
are used for `Idempotency`, where the claimant, the reclaiming call and the one
that waits are different calls. One source and one order give each kind of
line its life cycle. The version bound leaves room for four
committed requests in a row (calculate, pay, close, reopen; or calculate, pay,
calculate again, close), the longest sequence a property is about; `Headroom` keeps the bound from stopping
a handler half way. A total of 2, paid in parts of 1, makes partial payment and
full payment different. Two sessions and two movements are enough for a close
to be followed by another session and for cash to move in and out. Two keys
of a card payment are two attempts, and two requests are any two of collect,
retry, reconcile, cancel and webhook. Three refund
requests on two keys are a retry of one refund next to another one. A mail's
row is worked on by a request and by ticks of two processes at most, and one
fault lies between any two of their statements; rows of different mails share
nothing but the batch. Any two requests of staff, next to two checkouts, meet in
each pair of lock families, on one check and on two; a deposit of 2 makes parts
possible. Two
billing events reach every pair of handlers at work on one subscription; with
one attempt a failure is final until it is requeued, which makes a second
attempt; retries are the business of the live run, where one event is enough because events wait for
workers only; the cron and the owner, who never touch the inbox, are left out of
it. Symmetry is used where clients, calls, keys or events are
interchangeable, and never where liveness is checked.

### Fairness

`EveryHandlerEnds`: `SF` on the next step of a handler:
Node schedules every continuation, and PostgreSQL grants a row lock in the order
of the requests for it, so a handler that waits again and again gets its turn.
`WF` on the victim of a deadlock: PostgreSQL looks for deadlocks after
`deadlock_timeout` and aborts one transaction. Requests and crashes are not
fair: nothing has to come.

`EveryMailSettles`: `WF` on a sender's and a tick's next step (Node's
continuations, and a tick each minute that takes what is due) and on the end of
a mail's grace or backoff (time passes). Faults are bounded: a deployment whose
every statement fails settles nothing.

`EventsSettle`: `WF` on the claim of each event (a tick each minute takes the
oldest first, so that an event is not overtaken for ever), on a worker's next
step and on the end of a requeue (Node goes on with it). Failures need no bound, since attempts have
one. An event whose process died is excepted: the code leaves it PROCESSING.

### What the violations show

Each of these was met while the handlers were translated. The loss of a capture
is the run `provider_payment_vanish`, listed under `findings`; the others are
the further configurations above.

- `createSettlement` replaces a settlement that is PAID.
- `attach` and `detach` change the links of a check after a payment was
  recorded between their look and their write.
- A payment is taken of a bill that a VenueOrder has changed since: modern
  orders are not among the changed sources.
- Two calls that find an expired receipt both execute: the second deletes the
  fresh claim of the first.
- A cash sale is recorded on a session closed since it was looked up.
- A session is closed with a variance above the threshold of that moment and
  without approval, when the threshold was lowered after the close read it.
- A provider's refusal to tell about (or cancel) a captured payment makes it
  FAILED for good, and the webhook of the capture is refused.
- A refund that Stripe has pending is SUCCEEDED, and stays so when it fails.
- A refund that Adyen reported as failed late turns successful again when the
  notification of its success comes after that.
- Two adjustments on two checks read the same unused deposit and credit more
  than was paid; each check by itself keeps within it (`TillCreditWasPaid`).
- A refund of a deposit that Stripe has pending is entered, and stays in the
  ledger when it fails.
- An event is in the hands of two workers when two operators requeue it at once
  (`BillingWebhookRequeued.cfg`), which
  `src/docs/billing/WEBHOOKS.md:64` excludes.
- A worker, or the cleanup next to it, writes a status it decided on before
  over an ended subscription, which is open again without a new checkout.

Two more are in `ReservationDeposit`, as the properties `LedgerNeverNegative`
and `CreditWithinCaptured`: staff's records and refunds through Stripe hold
different locks, so that their sum may exceed what was captured, and an arrival
and an adjustment may credit one deposit twice. What holds is weaker:
`EachFamilyWithinInflow` and `TillCreditWasPaid`.

Seen as well, and repeated by no configuration, is what the code does not
keep: the
legacy `settle`, `createOrder` and `cancelOrder` decide on what they read
earlier; a late failure deletes a receipt; a close may name an older
count; a losing finalizer marks an operation that is already linked; a mail
may be delivered twice; the billing cron may lose the projection of UNPAID. A
refresh family revoked between the claim of a token and the issue of its
successor (`auth/auth-refresh.service.ts:88`) belongs to a part not modelled
yet.

## Proofs

Every component that has a module has a proof module, and every safety property
that a run checks is a theorem, for every value of the constants. The
assumptions are the named `ASSUME` of each module: model values differ, bounds
are positive, the sets of faults and kinds are those of the code. Three sets must
be finite, since the proofs sum over them: the sources and orders of
a check (`ConstantsAssumption`) and the keys of refunds
(`ProviderRefundAssumption`).

| module | theorem | says |
|---|---|---|
| `GuestCheckoutProofs` | `Invariance`, `TypeCorrect` | `IInv` is an invariant; `TypeOK` |
| | `Balance` | `SettlementBalanced` |
| | `NoStaleCommit` | `CommitsSeeWhatWasRead` |
| | `TenderSpared` | `MutationSparesTender` |
| | `MoneyNeverErased` | `ReopenNeverErasesMoney` |
| | `CloseDeadlockFree` | `PaidCloseNeverDeadlocks` |
| | `Serialised` | `GuestCheckout` implements `SettlementLedger` |
| `IdempotencyProofs` | `IdempotencyTypeCorrect` | `TypeOK` |
| | `GenuineAnswers` | `AnswersAreGenuine`, under all faults |
| | `OncePerKeyRefinement` | `Idempotency` implements `OncePerKey` if nothing but crashes happens |
| `CashSessionProofs` | `CashTypeCorrect` | `TypeOK` |
| | `ClosesReconcile` | `CloseReconciles` |
| | `CountsTellExpectedCash` | `CountTellsExpectedCash` |
| `ProviderPaymentProofs` | `PaymentTypeCorrect` | `TypeOK` |
| | `RecordsOnce` | `RecordedOnce` |
| | `RecordsCaptured` | `RecordedIsCaptured` |
| | `ChargedOnce` | `ChargedOncePerKey` |
| | `CapturesStay` | `NoCaptureDisappears`, unless the provider refuses to tell |
| `ProviderRefundProofs` | `RefundTypeCorrect` | `TypeOK` |
| | `SuccessConfirmed` | `SucceededWasConfirmed` |
| | `RefundVisible` | `PaidRefundStaysVisible` |
| | `AskedOnce` | `AskedOncePerKey` |
| `MailOutboxProofs` | `OutboxTypeCorrect` | `TypeOK` |
| | `SentDelivered` | `SentWasDelivered` |
| | `GivenUpLate` | `GivenUpAfterMaxAttempts` |
| `ReservationDepositProofs` | `DepositTypeCorrect` | `TypeOK` |
| | `OneOpen` | `OneOpenAttempt` |
| | `CapturesPaid` | `CapturesWerePaid` |
| | `RefundsOnce` | `RefundsOncePerRequest` |
| | `WithinInflow` | `EachFamilyWithinInflow` |
| | `TillPaid` | `TillCreditWasPaid` |
| | `PaidCapturable` | `PaidStaysCapturable` |
| | `PaidBillKeeps` | `PaidBillKeepsCredit` |
| `BillingWebhookProofs` | `BillingTypeCorrect` | `TypeOK` |
| | `OneWorker` | `OneWorkerUnlessOverrun` |
| | `ProcessedEffect` | `ProcessedTookEffect` |
| | `AccessPaid` | `AccessWasPaid` |

Two of them have a hypothesis, and the runs show that it is needed:
`OncePerKeyRefinement` (`IdempotencyExpired.cfg` fails when receipts expire) and
`CapturesStay` (`provider_payment_vanish` fails when a refusal is taken for a
failure).

### The arguments

No property below is inductive as it stands; each module has an invariant
`IInv` that is. TLC checked each `IInv` on its run before it was proved.

**GuestCheckout.** A payment writes an amount due
that it computed from what it read, so the invariant has to say that what a
handler read is still so when it writes. That is `CommitsSeeWhatWasRead`, and
it is the heart of the argument:

- csCommit, mutCommit and closeCommit hold the check's row, which every step
  that changes the check needs free (`CheckFrame`): so status, version and
  current are as they were read;
- payCommit and voidCommit hold the settlement's row, which every step
  that changes its state or amount needs free (`RowFrame`); a recalculation
  writes to another row;
- a mutation counts the payments without the settlement's row. A payment that
  commits in between needs the check's row, so it cannot (`CheckFrame`);
- a close does not lock the settlement either, but nothing is due on it any
  more, and that stays so (`DueFrame`).

`OwnStep` says that a handler's step into its last state makes all of this
true, and `CommitsStep` puts it together with the three frames.

`LocalsPresent` says that the local variables a step uses are there,
`RowLockHolders` that a locked settlement has a handler at work on it,
`CurrentAlive` that the current settlement exists and is not closed, and
`FactsRecordMoney` that money leaves a ledger entry, which is why reopen may
look at the latest closed settlement only. `IInv` is the conjunction. Each has a
lemma of the form "a step keeps it" with a step per action that could disturb
it. The refinement is `LedgerStep`: each action that
changes a settlement maps to one action of the ledger, the others to a stutter.

**Idempotency.** An answer may come from the receipt, from a warm cache or from
the call's own fn. `StoredAreGenuine` says of the first two what the property
says of answers. For the refinement, `ReceiptHeld` adds that, without expiry
and late failures, whoever is at fn or past it still holds the pending receipt,
so that no second call gets there.

**CashSession.** Whoever has read the movements to reconcile them still has the
session's row lock, and what it read is still their sum (`HandlerInv`); the
threshold it read was in force since, because only the lock starts `inForce`
anew; an
insert shares the row, and the lock and its shares exclude each other
(`Exclusive`). The sum is a recursive function over the movements.

**ProviderPayment.** What a handler knows of its operation, from a read or from
an answer that is still on its way, stays true, because the provider's payment
only moves forward (`KnowledgeInv`). The version it would record at is one that
the check has left behind once the operation is recorded (`VersionInv`): that
keeps the second of two finalizers out, although `Payment.correlationId` is not
unique. `OneAsker` says that one request at a time is between the creation of
an operation and the provider's answer.

**ProviderRefund.** The same for refunds: the holder of a row knows something
that the provider does not take back (`HolderInv`), and so does a notification
whose transaction has read and not yet written (`HooksInv`); where there was no
question there is no money (`KeyInv`). Partial refunds need sums over keys.

**MailOutbox.** The count of attempts is read and written back in two
statements, so two deliveries can count as one. The invariant counts the other
way (`Counted`): the row's count, and what any writer holds, plus the attempts
under way never exceeds the attempts that were made. So a mail given up had
them all.

**ReservationDeposit.** Three tables are summed, under locks that do not exclude
each other. `FamilyInv` says that what a request has read still covers what it
is about to write: the balance it decided on is at most what came in less what
its own family took out, and its family's lock keeps that share as it is until
it writes, whatever the other family does. So each family stays within the
inflow, while their sum may not. `TillInv` says the same of the till, check by
check: what it read as succeeded is at most what was paid, which only grows
(`PaidGrows`), although an attempt may stop being SUCCEEDED, and the check's
lock (`Exclusive`) keeps the credit on that check from growing until it writes;
that of other checks may grow, which is why the theorem is about one check.
`HeldInv` says that a refund that takes credits back holds their check while it
is not paid; `GuestInv` that a checkout in its transaction knows
the one open attempt; `AttemptInv` that an attempt is SUCCEEDED only with its
capture in the ledger.

**BillingWebhook.** A claim is by status, so one worker per event needs that a
busy worker's event is PROCESSING unless a requeue was late (`WorkerHolds`).
`Brings` follows a payment and a deletion through their lists of writes: as long
as the event has not had its effect, what is left to do still contains the write
that brings it about, with the right status in hand (`OnPayment`,
`OnDeletion`). A payment has no such status when the subscription has ended,
hence the exception. It is kept by each worker alone, so it holds for two
workers on one event as well. `ActiveWasPaid` follows "active" from Stripe
through the worker's variables to the row and the access.

### Sums and induction

A sum over rows (`ExpectedCash`, `Sum`) is a recursive function over a set, and
what it computes has to be proved by induction. The library's
induction theorems take an operator as a parameter, which the provers cannot
instantiate; the modules that sum use an induction whose statement is a set:
the numbers, or subsets, with the property (`Good`). `LeastElement` follows from
the library's well-founded order of the naturals, `CountingInduction` and
`SubsetInduction` follow from it, and with them that a sum exists (`SumsExist`),
is an integer, does not depend on the order of its rows, grows with them, and
splits into parts (`SumSplit`). The few that a module needs stand at its
beginning.

### Only model-checked

- `EveryHandlerEnds`, `EveryMailSettles` and `EventsSettle`: liveness under
  fairness, and ENABLED, are out of this prover's reach. The recovery from
  deadlocks is part of the first.
- The statements of the repository that the code does not keep: they fail, and
  TLC shows how.
- That the bounds of the instances leave no handler stuck (deadlock checking).

## Not modelled

- Tax, rounding and the split of amounts over lines (`charge-calculator`,
  `money.util`): decimal arithmetic without concurrency.
- Tenancy, permissions, feature flags: guards that only refuse.
- The payments endpoint that is not part of a checkout, payments on Adyen
  terminals, and the translation to Stripe's and Adyen's APIs.
- Of billing: Mollie, checkouts being created, plan changes, trials, pauses,
  manual renewal and the rows of its payments. `reconcileBatch` compares and
  reports, it changes nothing.
- In `ProviderPayment`, liveness: an operation whose process died before the
  provider's answer has no way out, so that "every attempt is resolved" fails
  without further search.
- The components marked `not_modelled` in `PROJECT.json`, each with its reason.

## Plan

Modelled, checked and proved, in the order of what is at stake:
`GuestCheckout` with `SettlementLedger`, `Idempotency` with `OncePerKey`,
`CashSession`, `ProviderPayment`, `ProviderRefund`, `BillingWebhook`,
`MailOutbox`, `ReservationDeposit`.

Next:

1. Theorems that say more than a run's property: that what
   `ReservationDeposit` writes for an arrival is written once, that a refund's
   budget (`captured` less what was paid back) is an abstract specification
   that `ProviderRefund` implements, and that the outbox and the inbox
   implement an at-least-once queue.
2. `CheckMerge`: merging two checks under their row locks; no line is lost or
   billed twice.
3. `AuthSessionFamily`: rotation, reuse and revocation of refresh tokens, as a
   single revocable chain.
4. Later: domain events, offline replay, overlapping reservations, stored
   value.
