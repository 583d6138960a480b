---------------------------- MODULE BillingWebhook ----------------------------
(***************************************************************************)
(* Stripe events of one shop's subscription: the inbox that takes them in, *)
(* the workers (cron ticks and drains after an ingest) that process them,  *)
(* the billing cron that ends a grace period or gives up a checkout, the   *)
(* owner who cancels, and operators who requeue dead letters.  An event    *)
(* tells that something changed; what it changed to is read from Stripe    *)
(* when it is processed.                                                   *)
(***************************************************************************)
EXTENDS Naturals, Sequences

CONSTANTS
    Events,       \* events that Stripe sends
    Workers,      \* concurrent calls of processEvent
    Operators,    \* concurrent calls of requeueDeadLetter
    Others,       \* who writes as well: the billing cron, the owner or both
    MaxAttempts,  \* BILLING_WEBHOOK_MAX_ATTEMPTS
    MaxRequeues,  \* bound on requeues
    MaxDeaths     \* bound on processes that die with an event

ASSUME BillingWebhookAssumption ==
    /\ "none" \notin Events /\ Others \subseteq {"cron", "owner"}
    /\ MaxAttempts \in Nat \ {0}
    /\ MaxRequeues \in Nat /\ MaxDeaths \in Nat

VARIABLES
    remote,       \* status of the subscription at Stripe
    happened,     \* names of the events that there is a reason for
    inbox,        \* the BillingWebhookEvent rows
    sub,          \* BillingSubscription.canonicalStatus
    grace,        \* whether its grace period runs, or is over
    entitlement,  \* Subscription.status, which gives access
    worker,       \* calls of processEvent
    other,        \* what they have under way
    operator,     \* the event whose requeue each operator has decided on
    requeues,     \* how many requeues were decided on
    deaths,       \* how many processes died
    abandoned,    \* events they died with
    overrun,      \* events that a requeue reset when they were dead no more
    met,          \* events since which access has been what they call for
    ended         \* whether the subscription has ever ended

local == <<sub, grace, entitlement>>
faults == <<operator, requeues, deaths, abandoned, overrun>>
history == <<met, ended>>
vars == <<remote, happened, inbox, local, worker, other, faults, history>>

\* What a change of the subscription gives Stripe a reason to tell; "updated"
\* stands for each event that only has the subscription applied.
Names ==
    [incomplete |-> {"updated", "failed", "action"},
     incomplete_expired |-> {"updated", "sessionExpired"},
     active |-> {"updated", "paid"},
     past_due |-> {"updated", "failed", "action"},
     unpaid |-> {"updated"},
     canceled |-> {"deleted"}]

NoRow == [name |-> "none", status |-> "NONE", attempts |-> 0]
IdleWorker == [pc |-> "idle", event |-> "none", tries |-> 0, todo |-> <<>>,
               seen |-> "none", status |-> "none", grace |-> "none"]
Idle == [pc |-> "idle", status |-> "none"]

\* A checkout has been created and its page is open.
Init ==
    /\ remote = "incomplete" /\ happened = Names["incomplete"]
    /\ inbox = [e \in Events |-> NoRow]
    /\ sub = "CHECKOUT_PENDING" /\ grace = "none" /\ entitlement = "TRIAL"
    /\ worker = [w \in Workers |-> IdleWorker]
    /\ other = [o \in Others |-> Idle]
    /\ operator = [o \in Operators |-> "none"]
    /\ requeues = 0 /\ deaths = 0 /\ abandoned = {} /\ overrun = {}
    /\ met = {} /\ ended = FALSE

-----------------------------------------------------------------------------
(* The state machine of subscriptions, without trials and pauses           *)

Ended == {"CANCELED", "INCOMPLETE_EXPIRED"}

Transitions ==
    [CHECKOUT_PENDING |->
        {"INCOMPLETE", "REQUIRES_ACTION", "ACTIVE"} \cup Ended,
     INCOMPLETE |-> {"REQUIRES_ACTION", "ACTIVE"} \cup Ended,
     REQUIRES_ACTION |-> {"ACTIVE", "PAST_DUE"} \cup Ended,
     ACTIVE |-> {"PAST_DUE", "UNPAID", "CANCELED"},
     PAST_DUE |-> {"ACTIVE", "UNPAID", "CANCELED"},
     UNPAID |-> {"ACTIVE", "PAST_DUE", "CANCELED"},
     CANCELED |-> {},
     INCOMPLETE_EXPIRED |-> {}]

CanTransition(from, to) == from = to \/ to \in Transitions[from]

\* mapSubscriptionState
Canonical ==
    [incomplete |-> "INCOMPLETE", incomplete_expired |-> "INCOMPLETE_EXPIRED",
     active |-> "ACTIVE", past_due |-> "PAST_DUE", unpaid |-> "UNPAID",
     canceled |-> "CANCELED"]

\* canonicalToEntitlementStatus, one that forgets to map and one that trusts a
\* checkout that is open.
UnmappedEntitlement(status) == status
TrustingEntitlement(status) ==
    CASE status \in {"ACTIVE", "REQUIRES_ACTION"} -> "ACTIVE"
      [] status = "PAST_DUE" -> "PAST_DUE"
      [] status \in {"UNPAID"} \cup Ended -> "CANCELED"
      [] OTHER -> "TRIAL"
Entitlement(status) ==
    CASE status = "ACTIVE" -> "ACTIVE"
      [] status = "PAST_DUE" -> "PAST_DUE"
      [] status \in {"UNPAID"} \cup Ended -> "CANCELED"
      [] OTHER -> "TRIAL"

-----------------------------------------------------------------------------
(* What a write of the subscription and of the access adds to the history  *)

\* A payment calls for access, a deletion for its end.
Meets(name, access) ==
    \/ name = "paid" /\ access = "ACTIVE"
    \/ name = "deleted" /\ access = "CANCELED"

WriteSub(status) ==
    /\ sub' = status
    /\ ended' = (ended \/ status \in Ended)

WriteEntitlement(status) ==
    /\ entitlement' = Entitlement(status)
    /\ met' = met \cup {e \in Events : Meets(inbox[e].name, entitlement')}

-----------------------------------------------------------------------------
(* Stripe *)

RemoteTransitions ==
    [incomplete |-> {"active", "incomplete_expired"},
     incomplete_expired |-> {},
     active |-> {"past_due", "canceled"},
     past_due |-> {"active", "unpaid", "canceled"},
     unpaid |-> {"active", "canceled"},
     canceled |-> {}]

RemoteStep ==
    \E s \in RemoteTransitions[remote] :
       /\ remote' = s
       /\ happened' = happened \cup Names[s]
       /\ UNCHANGED <<inbox, local, worker, other, faults, history>>

\* An event is stored once, whenever and in whatever order it comes; the
\* unique key answers each further delivery.
InsertInbox(e) ==
    /\ inbox[e].status = "NONE"
    /\ \E n \in happened :
          /\ inbox' = [inbox EXCEPT ![e] = [name |-> n, status |-> "RECEIVED",
                                            attempts |-> 0]]
          /\ met' = IF Meets(n, entitlement) THEN met \cup {e} ELSE met
    /\ UNCHANGED <<remote, happened, local, worker, other, faults, ended>>

-----------------------------------------------------------------------------
(* Workers: processEvent *)

\* The writes that an event leads to, and what is left of them when each event
\* is taken for one of the subscription.  Each write reads the row, writes it
\* back and projects what it wrote onto the entitlement.  An invoice names its
\* subscription, whose metadata name the row.
PartsOfAnyEvent(name) == <<"apply">>
Parts(name) ==
    CASE name = "paid" -> <<"apply", "succeeded">>
      [] name = "failed" -> <<"apply", "failed">>
      [] name = "sessionExpired" -> <<"check", "expire">>
      [] name = "action" -> <<"find", "action">>
      [] OTHER -> <<"apply">>

Goto(w, label) == worker' = [worker EXCEPT ![w].pc = label]

\* After a part comes the next, or the end.
AfterPart(w) ==
    worker' = [worker EXCEPT
       ![w].todo = Tail(@), ![w].seen = "none", ![w].status = "none",
       ![w].pc = IF Len(worker[w].todo) = 1 THEN "finish" ELSE "read"]

\* Faulty variants: failed rows are left, or rows in hand are taken as well.
ClaimableFresh(e) == inbox[e].status = "RECEIVED"
ClaimableByAnyone(e) ==
    inbox[e].status \in {"RECEIVED", "FAILED", "PROCESSING"}
Claimable(e) == inbox[e].status \in {"RECEIVED", "FAILED"}

\* The conditional update lets one of those win that found the event due.
ClaimEvent(w, e) ==
    /\ worker[w].pc = "idle" /\ Claimable(e)
    /\ inbox' = [inbox EXCEPT ![e].status = "PROCESSING",
                              ![e].attempts = @ + 1]
    /\ worker' = [worker EXCEPT ![w].pc = "claimed", ![w].event = e]
    /\ UNCHANGED <<remote, happened, local, other, faults, history>>

\* The event is read after that, with the attempts it has by then.
Load(w) ==
    LET row == inbox[worker[w].event]
    IN /\ worker[w].pc = "claimed"
       /\ worker' = [worker EXCEPT
             ![w].pc = IF Head(Parts(row.name)) = "apply"
                         THEN "fetch" ELSE "read",
             ![w].tries = row.attempts, ![w].todo = Parts(row.name)]
       /\ UNCHANGED <<remote, happened, inbox, local, other, faults, history>>

\* The subscription as Stripe has it now.
Fetch(w) ==
    /\ worker[w].pc = "fetch"
    /\ worker' = [worker EXCEPT ![w].pc = "read", ![w].seen = remote]
    /\ UNCHANGED <<remote, happened, inbox, local, other, faults, history>>

Target(w) ==
    LET part == Head(worker[w].todo)
        deleted == inbox[worker[w].event].name = "deleted"
    IN CASE part = "apply" ->
              IF deleted THEN "CANCELED" ELSE Canonical[worker[w].seen]
         [] part = "succeeded" -> "ACTIVE"
         [] part = "failed" -> "PAST_DUE"
         [] part = "expire" -> "INCOMPLETE_EXPIRED"
         [] OTHER -> "REQUIRES_ACTION"

\* The statuses that an event is looked up in before it is acted upon.
Expected ==
    [check |-> {"CHECKOUT_PENDING", "INCOMPLETE"},
     find |-> {"CHECKOUT_PENDING", "REQUIRES_ACTION", "ACTIVE", "PAST_DUE"}]

\* A transition that is not allowed is left out by transitionSubscription; the
\* others then write the status that they read.
Read(w) ==
    LET part == Head(worker[w].todo)
    IN /\ worker[w].pc = "read"
       /\ IF part \in DOMAIN Expected
            THEN IF sub \in Expected[part]
                   THEN AfterPart(w) ELSE Goto(w, "finish")
          ELSE IF /\ part \in {"expire", "action"}
                  /\ ~CanTransition(sub, Target(w))
            THEN AfterPart(w)
          ELSE worker' = [worker EXCEPT ![w].pc = "write", ![w].status =
                  IF CanTransition(sub, Target(w)) THEN Target(w) ELSE sub,
                  ![w].seen = "none",
                  ![w].grace = IF part = "failed" THEN grace ELSE "none"]
       /\ UNCHANGED <<remote, happened, inbox, local, other, faults, history>>

\* A failed payment starts a grace period, or writes back the one it read.
Write(w) ==
    LET part == Head(worker[w].todo)
        status == worker[w].status
    IN /\ worker[w].pc = "write"
       /\ WriteSub(status)
       /\ grace' = CASE part = "apply" /\ status = "PAST_DUE" -> "running"
                     [] part = "failed" /\ worker[w].grace = "none" -> "running"
                     [] part = "failed" -> worker[w].grace
                     [] part = "succeeded" -> "none"
                     [] OTHER -> grace
       /\ worker' = [worker EXCEPT ![w].pc = "sync", ![w].grace = "none"]
       /\ UNCHANGED <<remote, happened, inbox, entitlement, other, faults,
                      met>>

\* syncShopEntitlementFromBilling takes the row as this worker wrote it.
Sync(w) ==
    /\ worker[w].pc = "sync"
    /\ WriteEntitlement(worker[w].status)
    /\ AfterPart(w)
    /\ UNCHANGED <<remote, happened, inbox, sub, grace, other, faults, ended>>

Settle(w, status) ==
    /\ inbox' = [inbox EXCEPT ![worker[w].event].status = status]
    /\ worker' = [worker EXCEPT ![w] = IdleWorker]

Finish(w) ==
    /\ worker[w].pc = "finish"
    /\ Settle(w, "PROCESSED")
    /\ UNCHANGED <<remote, happened, local, other, faults, history>>

Exhausted(w) == worker[w].tries >= MaxAttempts

\* Stripe or the database fails at any statement of the handler.
Fail(w) ==
    /\ worker[w].pc \notin {"idle", "claimed"}
    /\ Settle(w, IF Exhausted(w) THEN "DEAD" ELSE "FAILED")
    /\ UNCHANGED <<remote, happened, local, other, faults, history>>

\* The process dies, or cannot even write that the event failed.
Die(w) ==
    /\ worker[w].pc # "idle" /\ deaths < MaxDeaths
    /\ deaths' = deaths + 1
    /\ abandoned' = abandoned \cup {worker[w].event}
    /\ worker' = [worker EXCEPT ![w] = IdleWorker]
    /\ UNCHANGED <<remote, happened, inbox, local, other, operator, requeues,
                   overrun, history>>

-----------------------------------------------------------------------------
(* The operators, the billing cron and the owner *)

\* requeueDeadLetter looks at the event.
RequeueRead(o, e) ==
    /\ operator[o] = "none" /\ requeues < MaxRequeues
    /\ inbox[e].status = "DEAD"
    /\ operator' = [operator EXCEPT ![o] = e]
    /\ requeues' = requeues + 1
    /\ UNCHANGED <<remote, happened, inbox, local, worker, other, deaths,
                   abandoned, overrun, history>>

\* It resets the event by its id, whatever became of it meanwhile.
RequeueWrite(o) ==
    LET e == operator[o]
    IN /\ e # "none"
       /\ inbox' = [inbox EXCEPT ![e].status = "FAILED"]
       /\ overrun' = IF inbox[e].status = "DEAD" THEN overrun
                     ELSE overrun \cup {e}
       /\ operator' = [operator EXCEPT ![o] = "none"]
       /\ UNCHANGED <<remote, happened, local, worker, other, requeues, deaths,
                      abandoned, history>>

GraceEnds ==
    /\ grace = "running"
    /\ grace' = "over"
    /\ UNCHANGED <<remote, happened, inbox, sub, entitlement, worker, other,
                   faults, history>>

Begin(o, label, status) ==
    /\ o \in Others /\ other[o].pc = "idle"
    /\ other' = [other EXCEPT ![o] = [pc |-> label, status |-> status]]

\* expireGracePeriods reads what is due, and writes and projects it after that.
ExpireGracePeriods ==
    /\ sub = "PAST_DUE" /\ grace = "over"
    /\ Begin("cron", "write", "UNPAID")
    /\ UNCHANGED <<remote, happened, inbox, local, worker, faults, history>>

\* The owner cancels at once: first at Stripe, which refuses what has ended.
CancelImmediately ==
    /\ sub \in {"ACTIVE", "PAST_DUE"}
    /\ Begin("owner", "ask", "CANCELED")
    /\ UNCHANGED <<remote, happened, inbox, local, worker, faults, history>>

CancelAtStripe ==
    /\ "owner" \in Others /\ other["owner"].pc = "ask"
    /\ "canceled" \in RemoteTransitions[remote]
    /\ remote' = "canceled" /\ happened' = happened \cup Names["canceled"]
    /\ other' = [other EXCEPT !["owner"].pc = "write"]
    /\ UNCHANGED <<inbox, local, worker, faults, history>>

\* Neither looks at the row again.
OtherWrite(o) ==
    /\ other[o].pc = "write"
    /\ WriteSub(other[o].status)
    /\ other' = [other EXCEPT ![o].pc = "sync"]
    /\ UNCHANGED <<remote, happened, inbox, grace, entitlement, worker, faults,
                   met>>

OtherSync(o) ==
    /\ other[o].pc = "sync"
    /\ WriteEntitlement(other[o].status)
    /\ other' = [other EXCEPT ![o] = Idle]
    /\ UNCHANGED <<remote, happened, inbox, sub, grace, worker, faults, ended>>

OtherFail(o) ==
    /\ other[o].pc # "idle" /\ other' = [other EXCEPT ![o] = Idle]
    /\ UNCHANGED <<remote, happened, inbox, local, worker, faults, history>>

\* A checkout of the day before is given up.
CleanupStaleCheckouts ==
    /\ sub \in {"CHECKOUT_PENDING", "INCOMPLETE"}
    /\ WriteSub("INCOMPLETE_EXPIRED")
    /\ UNCHANGED <<remote, happened, inbox, grace, entitlement, worker, other,
                   faults, met>>

WorkerStep(w) ==
    Load(w) \/ Fetch(w) \/ Read(w) \/ Write(w) \/ Sync(w) \/ Finish(w)

Next ==
    \/ RemoteStep
    \/ \E e \in Events : InsertInbox(e)
    \/ \E w \in Workers, e \in Events : ClaimEvent(w, e)
    \/ \E w \in Workers : WorkerStep(w) \/ Fail(w) \/ Die(w)
    \/ \E o \in Operators, e \in Events : RequeueRead(o, e)
    \/ \E o \in Operators : RequeueWrite(o)
    \/ \E o \in Others : OtherWrite(o) \/ OtherSync(o) \/ OtherFail(o)
    \/ GraceEnds \/ ExpireGracePeriods \/ CleanupStaleCheckouts
    \/ CancelImmediately \/ CancelAtStripe

Spec == Init /\ [][Next]_vars

\* A tick comes every minute and takes the oldest events first, and a worker
\* goes on until it is done; a statement that hangs ends with an error.
LiveSpec ==
    /\ Spec
    /\ \A e \in Events : WF_vars(\E w \in Workers : ClaimEvent(w, e))
    /\ \A w \in Workers : WF_vars(WorkerStep(w))
    /\ \A o \in Operators : WF_vars(RequeueWrite(o))

-----------------------------------------------------------------------------
(* Correctness *)

EventStatuses ==
    {"RECEIVED", "PROCESSING", "PROCESSED", "FAILED", "DEAD"}
EventNames == UNION {Names[s] : s \in DOMAIN Names}
Statuses == DOMAIN Transitions
PartNames ==
    {"apply", "succeeded", "failed", "check", "expire", "find", "action"}

\* The rows, the workers and the history have their types.
TypeOK ==
    /\ remote \in DOMAIN Canonical /\ happened \subseteq EventNames
    /\ inbox \in [Events -> {NoRow} \cup
          [name : EventNames, status : EventStatuses, attempts : Nat]]
    /\ sub \in Statuses /\ grace \in {"none", "running", "over"}
    /\ entitlement \in {"TRIAL", "ACTIVE", "PAST_DUE", "CANCELED"}
    /\ \A w \in Workers :
         /\ worker[w].pc \in {"idle", "claimed", "fetch", "read", "write",
                              "sync", "finish"}
         /\ worker[w].event \in Events \cup {"none"}
         /\ worker[w].tries \in Nat
         /\ worker[w].todo \in Seq(PartNames) /\ Len(worker[w].todo) <= 2
         /\ worker[w].seen \in DOMAIN Canonical \cup {"none"}
         /\ worker[w].status \in Statuses \cup {"none"}
         /\ worker[w].grace \in {"none", "running", "over"}
    /\ other \in [Others -> [pc : {"idle", "ask", "write", "sync"},
                            status : {"none", "UNPAID", "CANCELED"}]]
    /\ operator \in [Operators -> Events \cup {"none"}]
    /\ requeues \in 0..MaxRequeues /\ deaths \in 0..MaxDeaths
    /\ abandoned \subseteq Events /\ overrun \subseteq Events
    /\ met \subseteq Events /\ ended \in BOOLEAN

\* Ticks overlap, drains follow every ingest and operators requeue, and still
\* no event is in the hands of two workers, unless a requeue reset it after
\* another one had (claimEvent, requeueDeadLetter).
OneWorkerUnlessOverrun ==
    \A v, w \in Workers :
       worker[v].pc # "idle" /\ worker[w].pc # "idle"
          /\ worker[v].event = worker[w].event
             => v = w \/ worker[v].event \in overrun

\* A payment event that is PROCESSED has given access since it came, unless
\* the subscription has ended, and a deletion has withdrawn it: however many
\* attempts broke off before and whoever wrote in between (processEvent:
\* "PROCESSED only after mutations commit").
ProcessedTookEffect ==
    \A e \in Events : inbox[e].status = "PROCESSED" =>
       /\ inbox[e].name = "paid" => e \in met \/ ended
       /\ inbox[e].name = "deleted" => e \in met

\* The shop has paid access only after Stripe has reported a payment: neither
\* an open checkout nor an event that is old, repeated or out of order gives
\* it (canTransitionSubscription, canonicalToEntitlementStatus).
AccessWasPaid == entitlement = "ACTIVE" => "paid" \in happened

\* An event that was taken in is processed or becomes a dead letter, unless a
\* process died with it (processDueEvents, processEvent).
EventsSettle ==
    \A e \in Events :
       inbox[e].status = "RECEIVED" ~>
          inbox[e].status \in {"PROCESSED", "DEAD"} \/ e \in abandoned

-----------------------------------------------------------------------------
(* What the repository says of subscriptions, which a run examines *)

\* No event is processed by two workers at once (claimEvent).
OneWorkerPerEvent ==
    \A v, w \in Workers :
       worker[v].pc # "idle" /\ worker[w].pc # "idle"
          /\ worker[v].event = worker[w].event => v = w

\* A subscription that has ended is reopened by a new checkout only, of which
\* there is none here.
EndedStaysEnded == [][(sub \in Ended) => (sub' = sub)]_vars
=============================================================================
