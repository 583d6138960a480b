-------------------------- MODULE ReservationDeposit --------------------------
(***************************************************************************)
(* The deposit of one reservation: the guest's hosted checkout, Stripe's   *)
(* webhooks, and what staff do with the money (record, forfeit, apply,     *)
(* arrive, credit on the bill, refund).  The transactions of each family   *)
(* take an advisory lock of their own, so that one family sees the other's *)
(* rows only when they are committed.  Credits are given on guest checks,   *)
(* each of which has a row lock of its own.                                *)
(***************************************************************************)
EXTENDS Integers, SequencesExt

CONSTANTS
    Guests,      \* requests for a checkout
    Calls,       \* requests of staff, each with a correlation id
    Checks,      \* the guest checks that take credits
    NoCheck,     \* of a request that concerns none
    Kinds,       \* what staff ask for
    Required,    \* the deposit of the policy snapshot
    MaxAttempts  \* bound on checkout attempts

RecordTypes == {"CAPTURE", "REFUND", "FORFEIT"}
Outcomes == {"NO_SHOW", "CANCELED"}
AllKinds == RecordTypes \cup Outcomes \cup
    {"apply", "arrive", "adjust", "providerRefund"}

ASSUME ReservationDepositAssumption ==
    /\ Kinds \subseteq AllKinds /\ NoCheck \notin Checks
    /\ Required \in Nat \ {0} /\ MaxAttempts \in Nat \ {0}

Attempts == 1..MaxAttempts

VARIABLES
    status,        \* Reservation.status, as far as it matters here
    ledger,        \* the ReservationDepositLedgerEntry rows
    applications,  \* the ReservationDepositApplication rows
    credits,       \* the checks' DEPOSIT_APPLICATION adjustments
    bill,          \* how far each check is settled
    attempt,       \* the ReservationDepositCheckoutAttempt rows
    succeeded,     \* the successes of attempts; the last one is succeededAt
    session,       \* the checkout session of each attempt at Stripe
    lapsed,        \* attempts whose expiresAt has passed
    refunds,       \* refunds that Stripe accepted
    bounced,       \* those that failed afterwards
    guest,         \* requests for a checkout
    call           \* requests of staff

money == <<ledger, applications, credits>>
checkout == <<attempt, succeeded>>
stripe == <<session, lapsed, refunds, bounced>>
vars == <<status, money, bill, checkout, stripe, guest, call>>

NoAttempt == [state |-> "NONE", amount |-> 0]
AtRest == [pc |-> "done", open |-> 0, amount |-> 0]
NewRequest == [AtRest EXCEPT !.pc = "start"]

\* An outcome and an arrival work out their amount.
Amounts(kind) == IF kind \in Outcomes \cup {"arrive"} THEN {0} ELSE 1..Required

\* Which check a request names; a refund finds the one it concerns.
Named(kind) == IF kind \in {"apply", "arrive", "adjust"} THEN Checks
               ELSE {NoCheck}
NewCall(kind, amount, check) ==
    [pc |-> "idle", kind |-> kind, amount |-> amount, check |-> check,
     applied |-> 0, target |-> 0, holds |-> FALSE, voids |-> {}]

Init ==
    /\ status = "active" /\ bill = [k \in Checks |-> "open"]
    /\ ledger = {} /\ applications = {} /\ credits = {}
    /\ attempt = [n \in Attempts |-> NoAttempt] /\ succeeded = <<>>
    /\ session = [n \in Attempts |-> "none"] /\ lapsed = {}
    /\ refunds = {} /\ bounced = {}
    /\ guest = [g \in Guests |-> NewRequest]
    /\ call \in [Calls ->
         UNION {{NewCall(kind, x[1], x[2]) : x \in Amounts(kind) \X Named(kind)}
                   : kind \in Kinds}]

-----------------------------------------------------------------------------
(* The rows *)

Sum(rows) == MapThenSumSet(LAMBDA r : r.amount, rows)
AtLeastZero(x) == IF x > 0 THEN x ELSE 0
Exists(rows, corr) == \E r \in rows : r.corr = corr

Balance == Sum(ledger)
Applied == Sum(applications)
Unapplied == AtLeastZero(Balance - Applied)
ActiveCredits == {x \in credits : ~x.voided}
CreditsOn(k) == {x \in ActiveCredits : x.check = k}

\* PENDING, CONFIRMED and CHECKED_IN are told apart by no handler but checkIn.
Active == {"active"}

\* Who else is inside a transaction of the family that these steps mark.
Inside(c, steps) == \E d \in Calls \ {c} : call[d].pc \in steps

\* The row lock on a guest check.
NeverLocked(k) == FALSE
CheckLocked(k) ==
    \E c \in Calls : /\ call[c].check = k
                     /\ call[c].pc = "adjusting" \/ call[c].holds

\* The row of an attempt that a checkout has marked EXPIRED and not committed.
RowLocked(n) == \E g \in Guests : guest[g].pc = "create" /\ guest[g].open = n

-----------------------------------------------------------------------------
(* The guest: createCheckout *)

InCheckoutAnyway(g) == FALSE
InCheckout(g) ==
    \E h \in Guests \ {g} : guest[h].pc \in {"retrieve", "create"}

GuestGoto(g, label) == guest' = [guest EXCEPT ![g].pc = label]

\* The status is read before the transaction.
GuestStart(g) ==
    /\ guest[g].pc = "start"
    /\ GuestGoto(g, IF status \in Active THEN "lock" ELSE "done")
    /\ UNCHANGED <<status, money, bill, checkout, stripe, call>>

OpenAttempts == {n \in Attempts \ lapsed : attempt[n].state = "OPEN"}

\* What is still to be paid, and the attempt that is open.
GuestLock(g) ==
    LET remaining == AtLeastZero(Required - Balance)
    IN /\ guest[g].pc = "lock" /\ ~InCheckout(g)
       /\ guest' = [guest EXCEPT ![g] =
             IF remaining = 0 THEN AtRest
             ELSE IF OpenAttempts = {}
             THEN [pc |-> "create", open |-> 0, amount |-> remaining]
             ELSE [pc |-> "retrieve", open |-> Max(OpenAttempts),
                   amount |-> remaining]]
       /\ UNCHANGED <<status, money, bill, checkout, stripe, call>>

\* An open session is offered again.  When it is not open, or Stripe does not
\* answer, its attempt is marked EXPIRED.
GuestRetrieve(g) ==
    /\ guest[g].pc = "retrieve"
    /\ \/ session[guest[g].open] = "open" /\ GuestGoto(g, "done")
       \/ GuestGoto(g, "create")
    /\ UNCHANGED <<status, money, bill, checkout, stripe, call>>

\* The session is created and committed with its attempt.  Of a session whose
\* transaction rolls back nobody learns.
GuestCreate(g) ==
    LET open == guest[g].open
        unused == {n \in Attempts : attempt[n].state = "NONE"}
        expired == IF open = 0 THEN attempt
                   ELSE [attempt EXCEPT ![open].state = "EXPIRED"]
    IN /\ guest[g].pc = "create" /\ unused # {}
       /\ attempt' = [expired EXCEPT ![Min(unused)] =
             [state |-> "OPEN", amount |-> guest[g].amount]]
       /\ session' = [session EXCEPT ![Min(unused)] = "open"]
       /\ guest' = [guest EXCEPT ![g] = AtRest]
       /\ UNCHANGED <<status, money, bill, succeeded, lapsed, refunds, bounced,
                      call>>

GuestAbort(g) ==
    /\ guest[g].pc \in {"retrieve", "create"}
    /\ guest' = [guest EXCEPT ![g] = AtRest]
    /\ UNCHANGED <<status, money, bill, checkout, stripe, call>>

-----------------------------------------------------------------------------
(* Stripe and its webhooks *)

\* The guest pays at once, by a slow method, or not the amount that was asked.
Pay(n) ==
    /\ session[n] = "open"
    /\ \E s \in {"paid", "processing", "differs"} :
          session' = [session EXCEPT ![n] = s]
    /\ UNCHANGED <<status, money, bill, checkout, lapsed, refunds, bounced,
                   guest, call>>

PayLater(n) ==
    /\ session[n] = "processing"
    /\ \E s \in {"paid", "failed"} : session' = [session EXCEPT ![n] = s]
    /\ UNCHANGED <<status, money, bill, checkout, lapsed, refunds, bounced,
                   guest, call>>

\* The half hour of the attempt and of its session is over.
Lapse(n) ==
    /\ attempt[n].state # "NONE" /\ n \notin lapsed
    /\ lapsed' = lapsed \cup {n}
    /\ session' = [session EXCEPT ![n] = IF @ = "open" THEN "expired" ELSE @]
    /\ UNCHANGED <<status, money, bill, checkout, refunds, bounced, guest,
                   call>>

\* The states of an attempt that a paid session no longer changes.
CapturedOrClosed == {"SUCCEEDED", "EXPIRED", "FAILED"}
Captured == {"SUCCEEDED"}

\* The amount that Stripe reports is the one of the attempt.
AmountAccepted(n) == session[n] \in {"paid", "differs"}
AmountMatches(n) == session[n] = "paid"

\* One transaction: only it moves money for the session, and only a checkout
\* writes the attempt meanwhile.  It is delivered until it is answered, and a
\* reconciliation delivers it again.
CaptureSucceededSession(n) ==
    /\ session[n] \in {"paid", "differs"} /\ ~RowLocked(n)
    /\ attempt[n].state \notin Captured
    /\ IF AmountMatches(n)
         THEN /\ ledger' = IF Exists(ledger, <<"checkout", n>>) THEN ledger
                           ELSE ledger \cup {[type |-> "CAPTURE",
                                              corr |-> <<"checkout", n>>,
                                              amount |-> attempt[n].amount]}
              /\ attempt' = [attempt EXCEPT ![n].state = "SUCCEEDED"]
              /\ succeeded' = Append(succeeded, n)
         ELSE /\ attempt' = [attempt EXCEPT ![n].state = "PROVIDER_MISMATCH"]
              /\ UNCHANGED <<ledger, succeeded>>
    /\ UNCHANGED <<status, applications, credits, bill, stripe, guest, call>>

\* Its read and its write are apart, but a session that expired or failed is
\* never paid, so nothing comes between them that matters.
MarkProviderTerminal(n) ==
    /\ session[n] \in {"expired", "failed"} /\ ~RowLocked(n)
    /\ attempt[n].state # "SUCCEEDED"
    /\ attempt' = [attempt EXCEPT ![n].state =
          IF session[n] = "expired" THEN "EXPIRED" ELSE "FAILED"]
    /\ UNCHANGED <<status, money, bill, succeeded, stripe, guest, call>>

-----------------------------------------------------------------------------
(* Staff: record a movement, and close the reservation *)

Goto(c, label) == call' = [call EXCEPT ![c].pc = label]
Done(c) ==
    call' = [call EXCEPT ![c].pc = "done", ![c].holds = FALSE, ![c].voids = {}]

Corr(c) == IF call[c].kind \in Outcomes THEN <<"outcome", call[c].kind>>
           ELSE <<"call", c>>

\* signedLedgerAmount
Movement(c) ==
    IF call[c].kind = "CAPTURE"
      THEN [type |-> "CAPTURE", corr |-> Corr(c), amount |-> call[c].amount]
      ELSE [type |-> IF call[c].kind = "REFUND" THEN "REFUND" ELSE "FORFEIT",
            corr |-> Corr(c), amount |-> -call[c].amount]

AfterRecord(c) ==
    Goto(c, IF call[c].kind \in Outcomes THEN "closing" ELSE "done")

InRecordAnyway(c) == FALSE
InRecord(c) == Inside(c, {"recording"})

\* The evidence of a payment or a refund is taken to exist.
RecordRead(c) ==
    /\ \/ call[c].pc = "idle" /\ call[c].kind \in RecordTypes
       \/ call[c].pc = "summed"
    /\ ~InRecord(c)
    /\ IF Exists(ledger, Corr(c)) THEN AfterRecord(c)
       ELSE IF Movement(c).amount < 0 /\ Balance + Movement(c).amount < 0
       THEN Done(c)
       ELSE Goto(c, "recording")
    /\ UNCHANGED <<status, money, bill, checkout, stripe, guest>>

RecordWrite(c) ==
    /\ call[c].pc = "recording"
    /\ ledger' = ledger \cup {Movement(c)}
    /\ AfterRecord(c)
    /\ UNCHANGED <<status, applications, credits, bill, checkout, stripe,
                   guest>>

\* The policy forfeits some or all of what the summary shows as unapplied.
\* The summary's two queries are one step: recordDeposit looks again.
CloseRead(c) ==
    /\ call[c].pc = "idle" /\ call[c].kind \in Outcomes
    /\ IF status = call[c].kind THEN Done(c)
       ELSE \E forfeit \in 0..Unapplied :
              call' = [call EXCEPT
                 ![c].pc = IF forfeit > 0 THEN "summed" ELSE "closing",
                 ![c].amount = forfeit]
    /\ UNCHANGED <<status, money, bill, checkout, stripe, guest>>

CloseUpdate(c) ==
    /\ call[c].pc = "closing"
    /\ status' = call[c].kind
    /\ Done(c)
    /\ UNCHANGED <<money, bill, checkout, stripe, guest>>

-----------------------------------------------------------------------------
(* Staff: apply the deposit, convert the arrival, credit the bill *)

\* applyDeposit limits itself by the rows that it sees.
ApplyRead(c) ==
    /\ call[c].pc = "idle" /\ call[c].kind = "apply"
    /\ ~Inside(c, {"applying"})
    /\ IF Exists(applications, Corr(c)) \/ Balance - Applied < call[c].amount
         THEN Done(c) ELSE Goto(c, "applying")
    /\ UNCHANGED <<status, money, bill, checkout, stripe, guest>>

ApplyWrite(c) ==
    /\ call[c].pc = "applying"
    /\ applications' = applications \cup
          {[corr |-> Corr(c), check |-> call[c].check,
            amount |-> call[c].amount]}
    /\ Done(c)
    /\ UNCHANGED <<status, ledger, credits, bill, checkout, stripe, guest>>

\* arrive takes all that is not applied, once for a check: the one that the
\* reservation is attached to.  Staff attach it to another one at any time.
ArriveRead(c) ==
    /\ call[c].pc = "idle" /\ call[c].kind = "arrive"
    /\ ~Inside(c, {"arriving"})
    /\ IF status \in Active /\ bill[call[c].check] # "closed"
         THEN call' = [call EXCEPT
                ![c].pc = "arriving",
                ![c].amount = IF Exists(applications,
                                          <<"arrival", call[c].check>>)
                                THEN 0 ELSE Unapplied]
         ELSE Done(c)
    /\ UNCHANGED <<status, money, bill, checkout, stripe, guest>>

\* The application and the credit on the bill are written together.
ArriveWrite(c) ==
    LET k == call[c].check
        row == [corr |-> <<"arrival", k>>, check |-> k,
                amount |-> call[c].amount]
    IN /\ call[c].pc = "arriving"
       /\ IF row.amount > 0
            THEN /\ applications' = applications \cup {row}
                 /\ credits' = credits \cup
                       {[corr |-> row.corr, check |-> k, amount |-> row.amount,
                         voided |-> FALSE]}
            ELSE UNCHANGED <<applications, credits>>
       /\ status' = "active"
       /\ Done(c)
       /\ UNCHANGED <<ledger, bill, checkout, stripe, guest>>

\* It has seen the reservation PENDING or CONFIRMED some time before, as it is
\* at the beginning, and writes whatever it is now.
CheckIn ==
    /\ status' = "active"
    /\ UNCHANGED <<money, bill, checkout, stripe, guest, call>>

\* lockMutableCheck refuses when the current settlement is paid, and voids it.
Mutable(k) == bill[k] = "open"

SucceededAmount ==
    MapThenSumSet(LAMBDA n : attempt[n].amount,
                  {n \in Attempts : attempt[n].state = "SUCCEEDED"})

\* The credits of the deposit that are in use, on any check.  Another check's
\* lock does not keep them as they are.
Used == Sum(ActiveCredits)

AdjustRead(c) ==
    /\ call[c].pc = "idle" /\ call[c].kind = "adjust"
    /\ ~CheckLocked(call[c].check)
    /\ IF /\ Mutable(call[c].check)
          /\ call[c].amount <= SucceededAmount - Used
         THEN Goto(c, "adjusting") ELSE Done(c)
    /\ UNCHANGED <<status, money, bill, checkout, stripe, guest>>

AdjustWrite(c) ==
    /\ call[c].pc = "adjusting"
    /\ credits' = credits \cup
          {[corr |-> Corr(c), check |-> call[c].check,
            amount |-> call[c].amount, voided |-> FALSE]}
    /\ bill' = [bill EXCEPT ![call[c].check] = "open"]
    /\ Done(c)
    /\ UNCHANGED <<status, ledger, applications, checkout, stripe, guest>>

Zeroed(x) == [x EXCEPT !.amount = 0]
Voided(x) == [x EXCEPT !.voided = TRUE]

VoidAdjustment(x) ==
    /\ Mutable(x.check) /\ ~CheckLocked(x.check)
    /\ credits' = (credits \ {x}) \cup {Voided(x)}
    /\ bill' = [bill EXCEPT ![x.check] = "open"]
    /\ UNCHANGED <<status, ledger, applications, checkout, stripe, guest,
                   call>>

-----------------------------------------------------------------------------
(* Staff: refund through Stripe (refundProviderDeposit) *)

RefundSteps == {"release", "ask", "asked"}
Releases(c) == call[c].applied > 0

\* A refund of more than is unapplied takes all, and the credit back, which
\* must have been applied to one check.  It is from the payment that succeeded
\* last.
RefundRead(c) ==
    LET amount == call[c].amount
        payments == {i \in DOMAIN succeeded :
                        attempt[succeeded[i]].state = "SUCCEEDED"}
        releases == amount > Unapplied
        applied == IF releases THEN AtLeastZero(Applied) ELSE 0
        appliedTo == {r.check : r \in {a \in applications : a.amount > 0}}
    IN /\ call[c].pc = "idle" /\ call[c].kind = "providerRefund"
       /\ ~Inside(c, RefundSteps)
       /\ IF \/ Exists(ledger, Corr(c)) \/ amount > Balance
             \/ payments = {} \/ (releases /\ amount # Balance)
            THEN Done(c)
            ELSE \/ \E k \in Checks \cup {NoCheck} :
                       /\ IF applied > 0 THEN appliedTo = {k} ELSE k = NoCheck
                       /\ call' = [call EXCEPT
                             ![c].pc = IF applied > 0 THEN "release" ELSE "ask",
                             ![c].check = k, ![c].applied = applied,
                             ![c].target = succeeded[Max(payments)]]
                 \/ /\ applied > 0 /\ \A k \in Checks : appliedTo # {k}
                    /\ Done(c)
       /\ UNCHANGED <<status, money, bill, checkout, stripe, guest>>

\* The check is locked, and must be open, unpaid, and credited with what was
\* applied.
HoldsNothing(c) == FALSE
Holds(c) == Releases(c)
RefundRelease(c) ==
    /\ call[c].pc = "release" /\ ~CheckLocked(call[c].check)
    /\ IF /\ Mutable(call[c].check)
          /\ Sum(CreditsOn(call[c].check)) = call[c].applied
         THEN call' = [call EXCEPT ![c].pc = "ask", ![c].holds = Holds(c),
                                   ![c].voids = CreditsOn(call[c].check)]
         ELSE Done(c)
    /\ UNCHANGED <<status, money, bill, checkout, stripe, guest>>

\* The idempotency key of a refund.
KeyOfPayment(c) == <<c, call[c].target>>
RefundKey(c) == <<c>>

\* Stripe gives no more of a payment back than was paid; a failed refund is
\* with the merchant again.
Refundable(n) ==
    attempt[n].amount - Sum({r \in refunds \ bounced : r.from = n})

\* Stripe accepts the refund (which may be pending), recognises the key, or
\* refuses; an answer that is lost ends as Abort.
RefundAsk(c) ==
    LET r == [key |-> RefundKey(c), corr |-> c, from |-> call[c].target,
              amount |-> call[c].amount]
    IN /\ call[c].pc = "ask"
       /\ \/ r \in refunds /\ UNCHANGED refunds
          \/ /\ ~\E old \in refunds : old.key = r.key
             /\ r.amount <= Refundable(r.from)
             /\ refunds' = refunds \cup {r}
       /\ Goto(c, "asked")
       /\ UNCHANGED <<status, money, bill, checkout, session, lapsed, bounced,
                      guest>>

\* Stripe reports later that the money did not arrive.  No webhook of the
\* deposit's listens.
RefundFails(r) ==
    /\ bounced' = bounced \cup {r}
    /\ UNCHANGED <<status, money, bill, checkout, session, lapsed, refunds,
                   guest, call>>

RefundWrite(c) ==
    /\ call[c].pc = "asked"
    /\ ledger' = ledger \cup {[type |-> "REFUND", corr |-> Corr(c),
                               amount |-> -call[c].amount]}
    /\ IF Releases(c)
         THEN /\ credits' = (credits \ call[c].voids) \cup
                    {Voided(x) : x \in call[c].voids}
              /\ applications' = applications \cup
                    {[corr |-> <<"release", c>>, check |-> call[c].check,
                      amount |-> -call[c].applied]}
              /\ bill' = [bill EXCEPT ![call[c].check] = "open"]
         ELSE UNCHANGED <<credits, applications, bill>>
    /\ Done(c)
    /\ UNCHANGED <<status, checkout, stripe, guest>>

\* The transaction fails, times out or dies with its process, and the request
\* is made again: with its correlation id, where it has one.
Abort(c) ==
    /\ call[c].pc \in {"recording", "applying", "arriving", "adjusting"}
                       \cup RefundSteps
    /\ call' = [call EXCEPT ![c] =
          IF @.kind \in Outcomes THEN [@ EXCEPT !.pc = "done"]
          ELSE NewCall(@.kind, IF @.kind = "arrive" THEN 0 ELSE @.amount,
                       IF @.kind = "providerRefund" THEN NoCheck ELSE @.check)]
    /\ UNCHANGED <<status, money, bill, checkout, stripe, guest>>

-----------------------------------------------------------------------------
(* The checks, as far as their credits depend on them *)

\* A settlement is paid, and the check closed; both lock the check's row.  A
\* check that no request names carries no credit, and is left alone.
BillStep(k) ==
    /\ ~CheckLocked(k) /\ \E c \in Calls : call[c].check = k
    /\ \/ bill[k] = "open" /\ bill' = [bill EXCEPT ![k] = "paid"]
       \/ bill[k] = "paid" /\ bill' = [bill EXCEPT ![k] = "closed"]
    /\ UNCHANGED <<status, money, checkout, stripe, guest, call>>

GuestStep(g) ==
    GuestStart(g) \/ GuestLock(g) \/ GuestRetrieve(g) \/ GuestCreate(g)
       \/ GuestAbort(g)

StripeStep(n) ==
    Pay(n) \/ PayLater(n) \/ Lapse(n) \/ CaptureSucceededSession(n)
       \/ MarkProviderTerminal(n)

CallStep(c) ==
    \/ RecordRead(c) \/ RecordWrite(c) \/ CloseRead(c) \/ CloseUpdate(c)
    \/ ApplyRead(c) \/ ApplyWrite(c) \/ ArriveRead(c) \/ ArriveWrite(c)
    \/ AdjustRead(c) \/ AdjustWrite(c)
    \/ RefundRead(c) \/ RefundRelease(c) \/ RefundAsk(c) \/ RefundWrite(c)
    \/ Abort(c)

Next ==
    \/ \E g \in Guests : GuestStep(g)
    \/ \E n \in Attempts : StripeStep(n)
    \/ \E c \in Calls : CallStep(c)
    \/ \E x \in ActiveCredits : VoidAdjustment(x)
    \/ \E k \in Checks : BillStep(k)
    \/ \E r \in refunds \ bounced : RefundFails(r)
    \/ CheckIn

Spec == Init /\ [][Next]_vars

-----------------------------------------------------------------------------
(* Correctness *)

States == {"NONE", "OPEN", "SUCCEEDED", "EXPIRED", "FAILED",
           "PROVIDER_MISMATCH"}
Steps == {"idle", "summed", "recording", "closing", "applying", "arriving",
          "adjusting", "done"} \cup RefundSteps

\* The rows, Stripe's records and the requests have their types.
TypeOK ==
    /\ status \in Active \cup Outcomes
    /\ \A r \in ledger : r.type \in RecordTypes /\ r.amount \in Int \ {0}
    /\ \A r \in applications \cup credits :
         r.amount \in Int \ {0} /\ r.check \in Checks
    /\ bill \in [Checks -> {"open", "paid", "closed"}]
    /\ attempt \in [Attempts -> [state : States, amount : Nat]]
    /\ succeeded \in Seq(Attempts)
    /\ session \in [Attempts -> {"none", "open", "processing", "paid",
                                 "failed", "differs", "expired"}]
    /\ lapsed \subseteq Attempts
    /\ \A r \in refunds : r.corr \in Calls /\ r.from \in Attempts
    /\ bounced \subseteq refunds
    /\ \A g \in Guests :
         /\ guest[g].pc \in {"start", "lock", "retrieve", "create", "done"}
         /\ guest[g].open \in 0..MaxAttempts /\ guest[g].amount \in Nat
    /\ \A c \in Calls :
         /\ call[c].pc \in Steps /\ call[c].kind \in Kinds
         /\ call[c].amount \in Nat /\ call[c].applied \in Nat
         /\ call[c].check \in Checks \cup {NoCheck}
         /\ call[c].voids \subseteq credits

\* However many guests' requests, expiries and webhooks cross, at most one
\* attempt that has not expired is open, so the guest is shown one session to
\* pay (createCheckout).
OneOpenAttempt == \A n, k \in OpenAttempts : n = k

\* Money enters the ledger for a checkout session only when Stripe has been
\* paid it in full, and with the attempt's amount (captureSucceededSession).
CapturesWerePaid ==
    \A r \in ledger : r.corr[1] = "checkout" =>
        /\ session[r.corr[2]] = "paid"
        /\ r.amount = attempt[r.corr[2]].amount

\* A refund request asks for money once however often it is tried, and what
\* the ledger shows as refunded Stripe has accepted (refundProviderDeposit).
RefundsOncePerRequest ==
    \A c \in Calls :
       LET mine == {r \in refunds : r.corr = c}
       IN /\ \A r, s \in mine : r = s
          /\ call[c].kind = "providerRefund" /\ Exists(ledger, Corr(c)) =>
                mine # {}

Inflow == Sum({r \in ledger : r.amount > 0})
ByStripe(r) ==
    r.corr[1] = "call" /\ call[r.corr[2]].kind = "providerRefund"
Outflow(byStripe) ==
    -Sum({r \in ledger : r.amount < 0 /\ ByStripe(r) = byStripe})

\* Neither staff's records nor the refunds through Stripe take more out of the
\* ledger than came in, although each decides on a sum that others change
\* (recordDeposit, refundProviderDeposit).
EachFamilyWithinInflow ==
    Outflow(TRUE) <= Inflow /\ Outflow(FALSE) <= Inflow

FromTill(credit) == credit.corr[1] = "call"
PaidByGuests == MapThenSumSet(LAMBDA n : attempt[n].amount,
                              {n \in Attempts : session[n] = "paid"})

\* The credit that the till puts on one check is covered by what guests have
\* paid, whatever becomes of the attempts' states and whatever is credited on
\* other checks meanwhile (applyAdjustment).
TillCreditWasPaid ==
    \A k \in Checks :
        Sum({x \in CreditsOn(k) : FromTill(x)}) <= PaidByGuests

\* A check that was paid with a credit keeps it: no refund that was under way
\* takes it back (refundProviderDeposit, voidAdjustment).
PaidBillKeepsCredit ==
    [][\A k \in Checks :
          ~Mutable(k) => CreditsOn(k) \subseteq ActiveCredits']_vars

\* A session that was paid and is not in the ledger yet still gets there: what
\* a checkout or a late event made of its attempt does not make its next
\* delivery, or a reconciliation, pass it over (captureSucceededSession).
PaidStaysCapturable ==
    \A n \in Attempts :
       session[n] = "paid" /\ ~Exists(ledger, <<"checkout", n>>) =>
           attempt[n].state \notin Captured

-----------------------------------------------------------------------------
(* What the repository says of the deposit, which a run examines *)

\* Refunds and forfeits do not exceed what was captured (recordDeposit,
\* refundProviderDeposit).
LedgerNeverNegative == Balance >= 0

\* The credits on the checks do not exceed what was captured (applyAdjustment,
\* arrive).
CreditWithinCaptured == Used <= SucceededAmount

\* The same of all that the till credits, on whichever check
\* (applyAdjustment).
AllTillCreditWasPaid ==
    Sum({x \in ActiveCredits : FromTill(x)}) <= PaidByGuests

\* What the ledger shows as refunded has left the account
\* (refundProviderDeposit).
RefundedHasMoved ==
    \A c \in Calls :
       call[c].kind = "providerRefund" /\ Exists(ledger, Corr(c)) =>
           \E r \in refunds \ bounced : r.corr = c
=============================================================================
