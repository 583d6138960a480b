------------------------- MODULE BillingWebhookProofs -------------------------
(***************************************************************************)
(* Proofs about BillingWebhook, for every set of events and workers and    *)
(* every bound on attempts, requeues and deaths.                           *)
(***************************************************************************)
EXTENDS BillingWebhook, SequenceTheorems, TLAPS

-----------------------------------------------------------------------------
(* The inductive invariant. *)

Rows == [name : EventNames, status : EventStatuses, attempts : Nat]
WorkerType ==
    [pc : {"idle", "claimed", "fetch", "read", "write", "sync", "finish"},
     event : Events \cup {"none"}, tries : Nat, todo : Seq(PartNames),
     seen : DOMAIN Canonical \cup {"none"}, status : Statuses \cup {"none"},
     grace : {"none", "running", "over"}]

Stored(e) == inbox[e].status # "NONE"
Busy(w) == worker[w].pc # "idle"
Loaded(w) == worker[w].pc \notin {"idle", "claimed"}
Name(w) == inbox[worker[w].event].name

\* What a list of writes may be while it is worked off for an event: only the
\* first one applies the subscription, and only a payment succeeds.
TodoOf(name, todo) ==
    /\ todo \in Seq(PartNames) /\ Len(todo) <= 2
    /\ Len(todo) = 2 => todo[2] # "apply"
    /\ \A i \in 1..Len(todo) : todo[i] = "succeeded" => name = "paid"

\* A busy worker holds an event that was taken in, and unless a requeue was
\* late the event says so.
WorkerHolds(w) ==
    /\ worker[w].event \in Events /\ Stored(worker[w].event)
    /\ worker[w].event \notin overrun =>
          inbox[worker[w].event].status = "PROCESSING"
    /\ Loaded(w) => TodoOf(Name(w), worker[w].todo)

\* What a worker has in hand where it needs it.
WorkerReady(w) ==
    /\ worker[w].pc \in {"fetch", "read", "write", "sync"} =>
          worker[w].todo # <<>>
    /\ worker[w].pc = "read" /\ Head(worker[w].todo) = "apply" =>
          worker[w].seen # "none"
    /\ worker[w].pc = "write" => worker[w].status # "none"

\* How far a worker is that has yet to bring about what its event calls for.
OnPayment(r) ==
    /\ r.pc # "finish"
    /\ r.todo \in {<<"apply", "succeeded">>, <<"succeeded">>}
    /\ r.pc \in {"write", "sync"} /\ r.todo = <<"succeeded">> =>
          r.status = "ACTIVE"
OnDeletion(r) ==
    /\ r.pc # "finish" /\ r.todo = <<"apply">>
    /\ r.pc \in {"write", "sync"} => r.status \in Ended

Brings(w) ==
    /\ Name(w) = "paid" =>
          worker[w].event \in met \/ ended \/ OnPayment(worker[w])
    /\ Name(w) = "deleted" =>
          worker[w].event \in met \/ OnDeletion(worker[w])

ShopInv ==
    /\ remote \in DOMAIN Canonical /\ happened \subseteq EventNames
    /\ sub \in Statuses /\ grace \in {"none", "running", "over"}
    /\ entitlement \in {"TRIAL", "ACTIVE", "PAST_DUE", "CANCELED"}
    /\ other \in [Others -> [pc : {"idle", "ask", "write", "sync"},
                             status : {"none", "UNPAID", "CANCELED"}]]
    /\ \A o \in Others : other[o].pc # "idle" => other[o].status # "none"

\* A requeue is decided on for an event that is there.
InboxInv ==
    /\ inbox \in [Events -> {NoRow} \cup Rows]
    /\ operator \in [Operators -> Events \cup {"none"}]
    /\ \A o \in Operators : operator[o] # "none" => Stored(operator[o])
    /\ requeues \in 0..MaxRequeues /\ deaths \in 0..MaxDeaths
    /\ abandoned \subseteq Events /\ overrun \subseteq Events
    /\ met \subseteq Events /\ ended \in BOOLEAN
    /\ \A e \in Events : Stored(e) => inbox[e].name \in happened
    /\ ProcessedTookEffect

WorkerInv ==
    /\ worker \in [Workers -> WorkerType]
    /\ \A w \in Workers : Len(worker[w].todo) <= 2
    /\ \A w \in Workers : Busy(w) => WorkerHolds(w) /\ WorkerReady(w)
    /\ OneWorkerUnlessOverrun

EffectInv ==
    /\ sub \in Ended => ended
    /\ \A w \in Workers : Loaded(w) => Brings(w)

\* Wherever the subscription is active, Stripe has reported a payment.
ActiveWasPaid ==
    \/ "paid" \in happened
    \/ /\ remote # "active" /\ sub # "ACTIVE" /\ entitlement # "ACTIVE"
       /\ \A w \in Workers :
             worker[w].seen # "active" /\ worker[w].status # "ACTIVE"

IInv == ShopInv /\ InboxInv /\ WorkerInv /\ EffectInv /\ ActiveWasPaid

LEMMA TypesFollow == IInv => TypeOK
BY DEF IInv, ShopInv, InboxInv, WorkerInv, TypeOK, Rows, WorkerType

-----------------------------------------------------------------------------
(* Lemmas about the operators of the model. *)

LEMMA StatusesValue ==
    /\ Statuses = {"CHECKOUT_PENDING", "INCOMPLETE", "REQUIRES_ACTION",
                   "ACTIVE", "PAST_DUE", "UNPAID", "CANCELED",
                   "INCOMPLETE_EXPIRED"}
    /\ DOMAIN Canonical = {"incomplete", "incomplete_expired", "active",
                           "past_due", "unpaid", "canceled"}
    /\ \A s \in DOMAIN Canonical : Canonical[s] \in Statuses
    /\ \A s \in DOMAIN Canonical : Canonical[s] = "ACTIVE" => s = "active"
BY DEF Statuses, Transitions, Canonical

\* What has not ended can become active, and can be canceled.
LEMMA TransitionFacts ==
    ASSUME NEW s \in Statuses, s \notin Ended
    PROVE  CanTransition(s, "ACTIVE") /\ CanTransition(s, "CANCELED")
BY StatusesValue DEF CanTransition, Transitions, Ended

LEMMA NamesType ==
    \A s \in DOMAIN Canonical : Names[s] \subseteq EventNames
BY DEF Names, EventNames, Canonical

LEMMA RowType ==
    ASSUME InboxInv, NEW e \in Events, Stored(e)
    PROVE  inbox[e] \in Rows
BY DEF InboxInv, Stored, NoRow

\* The writes of an event are a list that can be worked off.
LEMMA PartsTodo ==
    ASSUME NEW name \in EventNames
    PROVE  TodoOf(name, Parts(name)) /\ Parts(name) # <<>>
<1>1. CASE name = "paid"
  BY <1>1 DEF TodoOf, Parts, PartNames
<1>2. CASE name = "failed"
  BY <1>2 DEF TodoOf, Parts, PartNames
<1>3. CASE name = "sessionExpired"
  BY <1>3 DEF TodoOf, Parts, PartNames
<1>4. CASE name = "action"
  BY <1>4 DEF TodoOf, Parts, PartNames
<1>5. CASE name \notin {"paid", "failed", "sessionExpired", "action"}
  BY <1>5 DEF TodoOf, Parts, PartNames
<1> QED BY <1>1, <1>2, <1>3, <1>4, <1>5

\* What is left of it after a write can, and does not apply the subscription.
LEMMA TailTodo ==
    ASSUME NEW name, NEW todo, TodoOf(name, todo), todo # <<>>
    PROVE  /\ TodoOf(name, Tail(todo))
           /\ Len(todo) # 1 => Tail(todo) # <<>> /\ Head(Tail(todo)) # "apply"
           /\ Head(todo) \in PartNames
           /\ Head(todo) = "succeeded" => name = "paid"
<1>1. /\ todo \in Seq(PartNames) /\ Len(todo) \in Nat /\ Len(todo) <= 2
      /\ Len(todo) # 0
  BY EmptySeq, LenProperties DEF TodoOf
<1>2. Head(todo) = todo[1] /\ todo[1] \in PartNames /\ 1 \in 1..Len(todo)
  BY <1>1, LenProperties
<1>3. /\ Tail(todo) \in Seq(PartNames) /\ Len(Tail(todo)) = Len(todo) - 1
      /\ \A i \in 1..(Len(todo) - 1) : Tail(todo)[i] = todo[i + 1]
  BY <1>1, HeadTailProperties
<1>4. TodoOf(name, Tail(todo))
  BY <1>1, <1>3 DEF TodoOf
<1>5. ASSUME Len(todo) # 1
      PROVE  Tail(todo) # <<>> /\ Head(Tail(todo)) # "apply"
  <2>1. Len(todo) = 2 /\ todo[2] # "apply" /\ Len(Tail(todo)) = 1
    BY <1>1, <1>3, <1>5 DEF TodoOf
  <2>2. Tail(todo)[1] = todo[2]
    BY <1>3, <2>1
  <2>3. Tail(todo) # <<>>
    BY <2>1, EmptySeq
  <2>4. Head(Tail(todo)) = Tail(todo)[1]
    BY <1>3, <2>1, LenProperties
  <2> QED BY <2>1, <2>2, <2>3, <2>4
<1>6. Head(todo) = "succeeded" => name = "paid"
  BY <1>2 DEF TodoOf
<1> QED BY <1>2, <1>4, <1>5, <1>6

-----------------------------------------------------------------------------
(* Initial states. *)

LEMMA InitInv == Init => IInv
<1> SUFFICES ASSUME Init PROVE IInv
  OBVIOUS
<1> USE BillingWebhookAssumption DEF Init
<1>1. ShopInv
  BY StatusesValue, NamesType DEF ShopInv, Idle
<1>2. InboxInv
  <2>1. ended \in BOOLEAN
    OBVIOUS
  <2>2. /\ inbox \in [Events -> {NoRow} \cup Rows]
        /\ operator \in [Operators -> Events \cup {"none"}]
        /\ \A o \in Operators : operator[o] = "none"
        /\ \A e \in Events : ~Stored(e) /\ inbox[e].status # "PROCESSED"
    BY DEF Stored, NoRow
  <2>3. /\ requeues \in 0..MaxRequeues /\ deaths \in 0..MaxDeaths
        /\ abandoned = {} /\ overrun = {} /\ met = {}
    OBVIOUS
  <2> QED BY <2>1, <2>2, <2>3 DEF InboxInv, ProcessedTookEffect
<1>3. WorkerInv
  <2>1. IdleWorker \in WorkerType /\ Len(IdleWorker.todo) <= 2
    BY DEF IdleWorker, WorkerType
  <2> QED BY <2>1 DEF WorkerInv, IdleWorker, Busy, OneWorkerUnlessOverrun
<1>4. EffectInv
  BY DEF EffectInv, Ended, Loaded, IdleWorker
<1>5. ActiveWasPaid
  BY DEF ActiveWasPaid, IdleWorker
<1> QED BY <1>1, <1>2, <1>3, <1>4, <1>5 DEF IInv

-----------------------------------------------------------------------------
(* What a step that does not concern the inbox or the workers keeps. *)

\* The history only grows.
Grows ==
    /\ met \subseteq met' /\ met' \subseteq Events
    /\ ended' \in BOOLEAN /\ (ended => ended')

LEMMA HistoryGrows ==
    ASSUME IInv
    PROVE  /\ UNCHANGED history => Grows
           /\ \A s \in Statuses : WriteSub(s) /\ met' = met =>
                 Grows /\ sub' = s /\ (s \in Ended => ended')
           /\ \A s \in Statuses : WriteEntitlement(s) /\ ended' = ended =>
                 Grows /\ entitlement' = Entitlement(s)
BY DEF IInv, InboxInv, history, WriteSub, WriteEntitlement, Grows

LEMMA InboxKept ==
    ASSUME InboxInv, UNCHANGED <<inbox, faults>>, Grows,
           happened \subseteq happened'
    PROVE  InboxInv'
BY DEF InboxInv, Stored, ProcessedTookEffect, faults, Grows

\* What a worker holds depends on its own record and on the row it holds.
LEMMA HeldTransfer ==
    ASSUME WorkerInv, UNCHANGED <<worker, overrun>>,
           \A w \in Workers : Busy(w) =>
              inbox'[worker[w].event] = inbox[worker[w].event]
    PROVE  WorkerInv'
BY DEF WorkerInv, WorkerHolds, WorkerReady, Busy, OneWorkerUnlessOverrun,
     Stored, Loaded, Name

\* What it brings about depends on that, and on a history that grows.
LEMMA EffectTransfer ==
    ASSUME EffectInv, Grows, sub' \in Ended => ended',
           \A w \in Workers : Loaded(w)' =>
              \/ Brings(w)'
              \/ Loaded(w) /\ worker'[w] = worker[w] /\ Name(w)' = Name(w)
    PROVE  EffectInv'
<1>1. ASSUME NEW w \in Workers, Loaded(w), worker'[w] = worker[w],
             Name(w)' = Name(w)
      PROVE  Brings(w)'
  BY <1>1 DEF EffectInv, Brings, Grows
<1> QED BY <1>1 DEF EffectInv

-----------------------------------------------------------------------------
(* Stripe, the operators, the billing cron and the owner. *)

LEMMA RemoteStepInv == IInv /\ RemoteStep => IInv'
<1> SUFFICES ASSUME IInv, RemoteStep PROVE IInv'
  OBVIOUS
<1> USE DEF IInv
<1>1. PICK s \in RemoteTransitions[remote] :
         /\ remote' = s
         /\ happened' = happened \cup Names[s]
         /\ UNCHANGED <<inbox, local, worker, other, faults, history>>
  BY DEF RemoteStep
<1>2. s \in DOMAIN Canonical /\ (s = "active" => "paid" \in Names[s])
  BY DEF RemoteTransitions, Canonical, Names, ShopInv
<1>3. Grows
  BY <1>1, HistoryGrows
<1>4. ShopInv'
  BY <1>1, <1>2, NamesType DEF ShopInv, local
<1>5. InboxInv'
  BY <1>1, <1>3, InboxKept
<1>6. WorkerInv'
  BY <1>1, HeldTransfer DEF faults
<1>7. EffectInv'
  BY <1>1, <1>3, EffectTransfer DEF EffectInv, local, history, Loaded, Name
<1>8. ActiveWasPaid'
  BY <1>1, <1>2 DEF ActiveWasPaid, local
<1> QED BY <1>4, <1>5, <1>6, <1>7, <1>8

LEMMA InsertInboxInv ==
    ASSUME IInv, NEW e \in Events, InsertInbox(e)
    PROVE  IInv'
<1> USE DEF IInv
<1>1. PICK n \in happened :
         /\ inbox' = [inbox EXCEPT ![e] = [name |-> n, status |-> "RECEIVED",
                                           attempts |-> 0]]
         /\ met' = IF Meets(n, entitlement) THEN met \cup {e} ELSE met
  BY DEF InsertInbox
<1>2. /\ inbox[e].status = "NONE"
      /\ UNCHANGED <<remote, happened, local, worker, other, faults, ended>>
  BY DEF InsertInbox
<1>3. Grows
  BY <1>1, <1>2 DEF InboxInv, Grows
<1>4. \A w \in Workers : Busy(w) =>
         inbox'[worker[w].event] = inbox[worker[w].event]
  BY <1>1, <1>2 DEF WorkerInv, WorkerHolds, Stored
<1>5. ShopInv' /\ ActiveWasPaid'
  BY <1>2 DEF ShopInv, ActiveWasPaid, local
<1>6. InboxInv'
  <2>1. n \in EventNames
    BY DEF ShopInv
  <2> QED
    BY <1>1, <1>2, <1>3, <2>1 DEF InboxInv, Rows, EventStatuses, Stored,
       ProcessedTookEffect, faults, Grows
<1>7. WorkerInv'
  BY <1>2, <1>4, HeldTransfer DEF faults
<1>8. EffectInv'
  BY <1>2, <1>3, <1>4, EffectTransfer
     DEF EffectInv, local, Loaded, Busy, Name
<1> QED BY <1>5, <1>6, <1>7, <1>8

LEMMA RequeueReadInv ==
    ASSUME IInv, NEW o \in Operators, NEW e \in Events, RequeueRead(o, e)
    PROVE  IInv'
<1> USE DEF IInv, RequeueRead
<1>1. Grows
  BY HistoryGrows
<1>2. ShopInv' /\ ActiveWasPaid'
  BY DEF ShopInv, ActiveWasPaid, local
<1>3. InboxInv'
  <2>1. requeues' \in 0..MaxRequeues
    BY BillingWebhookAssumption DEF InboxInv
  <2>2. /\ operator' \in [Operators -> Events \cup {"none"}]
        /\ \A p \in Operators : operator'[p] # "none" => Stored(operator'[p])
    BY DEF InboxInv, Stored
  <2> QED
    BY <1>1, <2>1, <2>2 DEF InboxInv, Stored, ProcessedTookEffect, Grows,
       history
<1>4. WorkerInv'
  BY HeldTransfer
<1>5. EffectInv'
  BY <1>1, EffectTransfer DEF EffectInv, local, history, Loaded, Name
<1> QED BY <1>2, <1>3, <1>4, <1>5

\* A requeue that comes late is what lets two workers have one event.
LEMMA RequeueWriteInv ==
    ASSUME IInv, NEW o \in Operators, RequeueWrite(o)
    PROVE  IInv'
<1> USE DEF IInv
<1> DEFINE e == operator[o]
<1>1. e \in Events /\ Stored(e) /\ inbox[e] \in Rows
  BY RowType DEF RequeueWrite, InboxInv
<1>2. /\ inbox' = [inbox EXCEPT ![e].status = "FAILED"]
      /\ overrun' = IF inbox[e].status = "DEAD" THEN overrun
                    ELSE overrun \cup {e}
      /\ operator' = [operator EXCEPT ![o] = "none"]
      /\ UNCHANGED <<remote, happened, local, worker, other, requeues, deaths,
                     abandoned, history>>
  BY DEF RequeueWrite
<1>3. /\ inbox'[e] = [inbox[e] EXCEPT !.status = "FAILED"]
      /\ \A d \in Events : d # e => inbox'[d] = inbox[d]
      /\ inbox' \in [Events -> {NoRow} \cup Rows]
      /\ \A d \in Events : Stored(d)' <=> Stored(d)
      /\ \A d \in Events : inbox'[d].name = inbox[d].name
  BY <1>1, <1>2 DEF InboxInv, Rows, EventStatuses, Stored
<1>4. Grows
  BY <1>2, HistoryGrows
<1>5. ShopInv' /\ ActiveWasPaid'
  BY <1>2 DEF ShopInv, ActiveWasPaid, local
<1>6. InboxInv'
  <2>0. operator' \in [Operators -> Events \cup {"none"}]
    BY <1>2 DEF InboxInv
  <2>1. /\ overrun' \subseteq Events
        /\ \A p \in Operators : operator'[p] # "none" =>
              Stored(operator[p])'
    <3>1. overrun' \subseteq Events
      BY <1>1, <1>2 DEF InboxInv
    <3>2. ASSUME NEW p \in Operators, operator'[p] # "none"
          PROVE  Stored(operator[p])'
      <4>1. operator'[p] = operator[p]
        BY <1>2, <3>2 DEF InboxInv
      <4>2. operator[p] \in Events /\ Stored(operator[p])
        BY <3>2, <4>1 DEF InboxInv
      <4> QED BY <1>3, <4>1, <4>2 DEF Stored
    <3> QED BY <3>1, <3>2
  <2>2. ProcessedTookEffect'
    BY <1>1, <1>3, <1>4 DEF InboxInv, ProcessedTookEffect, Rows, Grows
  <2>3. \A d \in Events : Stored(d)' => inbox'[d].name \in happened'
    BY <1>2, <1>3 DEF InboxInv
  <2> QED
    BY <1>2, <1>3, <1>4, <2>0, <2>1, <2>2, <2>3 DEF InboxInv, Grows
<1>7. WorkerInv'
  <2>1. ASSUME NEW w \in Workers, Busy(w)
        PROVE  WorkerHolds(w)' /\ WorkerReady(w)'
    <3>1. WorkerHolds(w)
      BY <2>1 DEF WorkerInv
    <3>2. worker[w].event \notin overrun' =>
             inbox'[worker[w].event].status = "PROCESSING"
      BY <1>1, <1>2, <1>3, <3>1 DEF WorkerHolds
    <3>3. WorkerHolds(w)'
      BY <1>2, <1>3, <3>1, <3>2 DEF WorkerHolds, Loaded, Name
    <3> QED BY <1>2, <2>1, <3>3 DEF WorkerInv, WorkerReady
  <2>2. OneWorkerUnlessOverrun'
    BY <1>2 DEF WorkerInv, OneWorkerUnlessOverrun
  <2> QED BY <1>2, <2>1, <2>2 DEF WorkerInv, Busy
<1>8. EffectInv'
  <2>1. \A w \in Workers : Loaded(w) => worker[w].event \in Events
    BY DEF WorkerInv, WorkerHolds, Loaded, Busy
  <2> QED
    BY <1>2, <1>3, <1>4, <2>1, EffectTransfer
       DEF EffectInv, local, history, Loaded, Name
<1> QED BY <1>5, <1>6, <1>7, <1>8

LEMMA OthersInv ==
    ASSUME IInv,
           \/ GraceEnds \/ ExpireGracePeriods \/ CleanupStaleCheckouts
           \/ CancelImmediately \/ CancelAtStripe
           \/ \E o \in Others : OtherWrite(o) \/ OtherSync(o) \/ OtherFail(o)
    PROVE  IInv'
<1> USE DEF IInv
<1>1. UNCHANGED <<inbox, worker, faults>> /\ happened \subseteq happened'
  BY DEF GraceEnds, ExpireGracePeriods, CleanupStaleCheckouts, faults,
       CancelImmediately, CancelAtStripe, OtherWrite, OtherSync, OtherFail
<1>2. ShopInv' /\ ActiveWasPaid' /\ Grows /\ (sub' \in Ended => ended')
  <2> USE StatusesValue DEF ShopInv, ActiveWasPaid, EffectInv, local
  <2>1. CASE GraceEnds
    BY <2>1, HistoryGrows DEF GraceEnds, history
  <2>2. CASE ExpireGracePeriods
    BY <2>2, HistoryGrows DEF ExpireGracePeriods, Begin, history
  <2>3. CASE CleanupStaleCheckouts
    <3>1. WriteSub("INCOMPLETE_EXPIRED") /\ met' = met
      BY <2>3 DEF CleanupStaleCheckouts
    <3>2. /\ Grows /\ sub' = "INCOMPLETE_EXPIRED"
          /\ "INCOMPLETE_EXPIRED" \in Ended => ended'
      BY <3>1, HistoryGrows
    <3> QED BY <2>3, <3>2 DEF CleanupStaleCheckouts
  <2>4. CASE CancelImmediately
    BY <2>4, HistoryGrows DEF CancelImmediately, Begin, history
  <2>5. CASE CancelAtStripe
    <3>1. other["owner"].status \in {"none", "UNPAID", "CANCELED"}
      BY <2>5 DEF CancelAtStripe
    <3>2. "canceled" \in DOMAIN Canonical
      OBVIOUS
    <3> QED
      BY <2>5, <3>1, <3>2, NamesType, HistoryGrows DEF CancelAtStripe, history
  <2>6. ASSUME NEW o \in Others, OtherWrite(o)
        PROVE  ShopInv' /\ ActiveWasPaid' /\ Grows /\ (sub' \in Ended => ended')
    <3>1. /\ other[o].status \in {"UNPAID", "CANCELED"}
          /\ WriteSub(other[o].status) /\ met' = met
      BY <2>6 DEF OtherWrite
    <3>2. /\ Grows /\ sub' = other[o].status
          /\ other[o].status \in Ended => ended'
      BY <3>1, HistoryGrows
    <3> QED BY <2>6, <3>1, <3>2 DEF OtherWrite
  <2>7. ASSUME NEW o \in Others, OtherSync(o)
        PROVE  ShopInv' /\ ActiveWasPaid' /\ Grows /\ (sub' \in Ended => ended')
    <3>1. /\ other[o].status \in {"UNPAID", "CANCELED"}
          /\ WriteEntitlement(other[o].status) /\ ended' = ended
      BY <2>7 DEF OtherSync
    <3>2. Grows /\ entitlement' = Entitlement(other[o].status)
      BY <3>1, HistoryGrows
    <3>3. Entitlement(other[o].status) = "CANCELED"
      BY <3>1 DEF Entitlement, Ended
    <3> QED BY <2>7, <3>2, <3>3 DEF OtherSync, Idle
  <2>8. ASSUME NEW o \in Others, OtherFail(o)
        PROVE  ShopInv' /\ ActiveWasPaid' /\ Grows /\ (sub' \in Ended => ended')
    BY <2>8, HistoryGrows DEF OtherFail, Idle, history
  <2> QED BY <2>1, <2>2, <2>3, <2>4, <2>5, <2>6, <2>7, <2>8
<1>3. InboxInv'
  BY <1>1, <1>2, InboxKept
<1>4. WorkerInv'
  BY <1>1, HeldTransfer DEF faults
<1>5. EffectInv'
  BY <1>1, <1>2, EffectTransfer DEF EffectInv, Loaded, Name
<1> QED BY <1>2, <1>3, <1>4, <1>5

-----------------------------------------------------------------------------
(* Workers. *)

\* A worker that goes on with its event.
LEMMA WorkerGoesOn ==
    ASSUME WorkerInv, NEW w \in Workers, Busy(w),
           NEW r \in WorkerType, r.pc \notin {"idle", "claimed"},
           r.event = worker[w].event, TodoOf(Name(w), r.todo),
           r.pc \in {"fetch", "read", "write", "sync"} => r.todo # <<>>,
           r.pc = "read" /\ Head(r.todo) = "apply" => r.seen # "none",
           r.pc = "write" => r.status # "none",
           worker' = [worker EXCEPT ![w] = r], UNCHANGED <<inbox, overrun>>
    PROVE  WorkerInv'
<1>1. /\ worker' \in [Workers -> WorkerType]
      /\ worker'[w] = r /\ \A v \in Workers : v # w => worker'[v] = worker[v]
  BY DEF WorkerInv
<1>2. \A v \in Workers : Len(worker'[v].todo) <= 2
  BY <1>1 DEF WorkerInv, TodoOf
<1>3. ASSUME NEW v \in Workers, Busy(v)'
      PROVE  WorkerHolds(v)' /\ WorkerReady(v)'
  BY <1>1, <1>3
     DEF WorkerInv, WorkerHolds, WorkerReady, Busy, Stored, Loaded, Name
<1>4. OneWorkerUnlessOverrun'
  BY <1>1 DEF WorkerInv, OneWorkerUnlessOverrun, Busy
<1> QED BY <1>1, <1>2, <1>3, <1>4 DEF WorkerInv

LEMMA EffectGoesOn ==
    ASSUME WorkerInv, EffectInv, NEW w \in Workers, Busy(w),
           NEW r, r.event = worker[w].event,
           worker' = [worker EXCEPT ![w] = r], UNCHANGED inbox,
           Grows, sub' \in Ended => ended',
           Name(w) = "paid" =>
              r.event \in met' \/ ended' \/ OnPayment(r),
           Name(w) = "deleted" => r.event \in met' \/ OnDeletion(r)
    PROVE  EffectInv'
<1>1. worker'[w] = r /\ \A v \in Workers : v # w => worker'[v] = worker[v]
  BY DEF WorkerInv
<1>2. Brings(w)'
  BY <1>1 DEF Brings, Name
<1> QED BY <1>1, <1>2, EffectTransfer DEF Loaded, Name

\* A worker that is done with its event, whatever it leaves the row at.
LEMMA WorkerDrops ==
    ASSUME WorkerInv, NEW w \in Workers, Busy(w),
           worker' = [worker EXCEPT ![w] = IdleWorker], UNCHANGED overrun,
           \A e \in Events : e # worker[w].event => inbox'[e] = inbox[e],
           \A e \in Events : inbox'[e].name = inbox[e].name,
           \A e \in Events : Stored(e) => Stored(e)'
    PROVE  WorkerInv'
<1>1. IdleWorker \in WorkerType /\ Len(IdleWorker.todo) <= 2
  BY BillingWebhookAssumption DEF IdleWorker, WorkerType
<1>2. /\ worker' \in [Workers -> WorkerType] /\ worker'[w].pc = "idle"
      /\ Len(worker'[w].todo) <= 2
      /\ \A v \in Workers : v # w => worker'[v] = worker[v]
  BY <1>1 DEF WorkerInv, IdleWorker
<1>3. ASSUME NEW v \in Workers, Busy(v)'
      PROVE  WorkerHolds(v)' /\ WorkerReady(v)'
  <2>1. v # w /\ worker'[v] = worker[v] /\ Busy(v)
    BY <1>2, <1>3 DEF Busy
  <2>2. worker[v].event \notin overrun =>
           worker[v].event # worker[w].event
    BY <2>1 DEF WorkerInv, OneWorkerUnlessOverrun, Busy
  <2>3. WorkerHolds(v) /\ WorkerReady(v)
    BY <2>1 DEF WorkerInv
  <2> QED
    BY <2>1, <2>2, <2>3 DEF WorkerHolds, WorkerReady, Loaded, Name
<1>4. OneWorkerUnlessOverrun'
  BY <1>2 DEF WorkerInv, OneWorkerUnlessOverrun, Busy
<1> QED BY <1>2, <1>3, <1>4 DEF WorkerInv

\* What a busy worker has at hand.
LEMMA BusyFacts ==
    ASSUME IInv, NEW w \in Workers, Busy(w)
    PROVE  /\ worker[w] \in WorkerType
           /\ worker[w].event \in Events
           /\ inbox[worker[w].event] \in Rows
           /\ Name(w) \in happened /\ Name(w) \in EventNames
           /\ Loaded(w) => TodoOf(Name(w), worker[w].todo) /\ Brings(w)
           /\ WorkerReady(w)
<1>1. /\ worker[w] \in WorkerType /\ WorkerHolds(w) /\ WorkerReady(w)
      /\ Loaded(w) => Brings(w)
  BY DEF IInv, WorkerInv, EffectInv
<1>2. worker[w].event \in Events /\ Stored(worker[w].event)
  BY <1>1 DEF WorkerHolds
<1>3. inbox[worker[w].event] \in Rows
  BY <1>2, RowType DEF IInv
<1> QED
  BY <1>1, <1>2, <1>3 DEF WorkerHolds, IInv, InboxInv, ShopInv, Name

LEMMA ClaimEventInv ==
    ASSUME IInv, NEW w \in Workers, NEW e \in Events, ClaimEvent(w, e)
    PROVE  IInv'
<1> USE DEF IInv
<1> DEFINE r == [worker[w] EXCEPT !.pc = "claimed", !.event = e]
<1>1. /\ ~Busy(w) /\ inbox[e].status \in {"RECEIVED", "FAILED"}
      /\ inbox' = [inbox EXCEPT ![e].status = "PROCESSING",
                                ![e].attempts = @ + 1]
      /\ worker' = [worker EXCEPT ![w] = r]
      /\ UNCHANGED <<remote, happened, local, other, faults, history>>
  BY DEF ClaimEvent, Claimable, Busy, WorkerInv
<1>2. Stored(e) /\ inbox[e] \in Rows
  BY <1>1, RowType DEF Stored
<1>3. /\ inbox'[e] = [name |-> inbox[e].name, status |-> "PROCESSING",
                      attempts |-> inbox[e].attempts + 1]
      /\ \A d \in Events : d # e => inbox'[d] = inbox[d]
      /\ inbox' \in [Events -> {NoRow} \cup Rows]
      /\ \A d \in Events : Stored(d)' <=> Stored(d)
      /\ \A d \in Events : inbox'[d].name = inbox[d].name
  BY <1>1, <1>2 DEF InboxInv, Rows, EventStatuses, Stored
<1>4. Grows
  BY <1>1, HistoryGrows
<1>5. ShopInv'
  BY <1>1 DEF ShopInv, local
<1>6. InboxInv'
  <2>1. ProcessedTookEffect'
    BY <1>3, <1>4 DEF InboxInv, ProcessedTookEffect, Grows
  <2>2. ASSUME NEW o \in Operators, operator'[o] # "none"
        PROVE  Stored(operator[o])'
    <3>1. operator' = operator /\ operator[o] \in Events /\ Stored(operator[o])
      BY <1>1, <2>2 DEF InboxInv, faults
    <3> QED BY <1>3, <3>1 DEF Stored
  <2> QED
    BY <1>1, <1>3, <1>4, <2>1, <2>2 DEF InboxInv, Grows, faults
<1>7. /\ worker[w] \in WorkerType /\ r \in WorkerType
      /\ Len(r.todo) <= 2 /\ r.pc = "claimed" /\ r.event = e
  BY DEF WorkerInv, WorkerType
<1>8. /\ worker' \in [Workers -> WorkerType] /\ worker'[w] = r
      /\ \A v \in Workers : v # w => worker'[v] = worker[v]
  BY <1>1, <1>7 DEF WorkerInv
<1>9. WorkerInv'
  <2>1. ASSUME NEW v \in Workers, Busy(v), e \notin overrun
        PROVE  worker[v].event # e
    <3>1. worker[v].event = e => inbox[e].status = "PROCESSING"
      BY <2>1 DEF WorkerInv, WorkerHolds
    <3> QED BY <1>1, <3>1
  <2>2. ASSUME NEW v \in Workers, Busy(v)'
        PROVE  WorkerHolds(v)' /\ WorkerReady(v)'
    <3>1. CASE v = w
      <4>1. worker'[v].pc = "claimed" /\ worker'[v].event = e
        BY <1>7, <1>8, <3>1
      <4>2. inbox'[e].status = "PROCESSING"
        BY <1>3
      <4> QED BY <4>1, <4>2 DEF WorkerHolds, WorkerReady, Loaded, Stored
    <3>2. CASE v # w
      <4>1. Busy(v) /\ WorkerHolds(v) /\ WorkerReady(v)
        BY <1>8, <2>2, <3>2 DEF Busy, WorkerInv
      <4>2. WorkerHolds(v)'
        BY <1>1, <1>3, <1>8, <2>1, <3>2, <4>1
           DEF WorkerHolds, Loaded, Name, faults
      <4> QED BY <1>8, <3>2, <4>1, <4>2 DEF WorkerReady
    <3> QED BY <3>1, <3>2
  <2>3. OneWorkerUnlessOverrun'
    BY <1>1, <1>7, <1>8, <2>1 DEF WorkerInv, OneWorkerUnlessOverrun, Busy, faults
  <2>4. \A v \in Workers : Len(worker'[v].todo) <= 2
    BY <1>7, <1>8 DEF WorkerInv
  <2> QED BY <1>8, <2>2, <2>3, <2>4 DEF WorkerInv
<1>10. EffectInv'
  <2>1. ASSUME NEW v \in Workers, Loaded(v)'
        PROVE  Loaded(v) /\ worker'[v] = worker[v] /\ Name(v)' = Name(v)
    <3>1. v # w /\ worker'[v] = worker[v] /\ Loaded(v)
      BY <1>7, <1>8, <2>1 DEF Loaded
    <3>2. worker[v].event \in Events
      BY <3>1 DEF WorkerInv, WorkerHolds, Loaded, Busy
    <3> QED BY <1>3, <3>1, <3>2 DEF Name
  <2> QED BY <1>1, <1>4, <2>1, EffectTransfer DEF EffectInv, local, history
<1>11. ActiveWasPaid'
  <2>1. r.seen = worker[w].seen /\ r.status = worker[w].status
    BY <1>7 DEF WorkerType
  <2> QED BY <1>1, <1>8, <2>1 DEF ActiveWasPaid, local
<1> QED BY <1>5, <1>6, <1>9, <1>10, <1>11

LEMMA LoadInv ==
    ASSUME IInv, NEW w \in Workers, Load(w)
    PROVE  IInv'
<1> USE DEF IInv
<1> DEFINE row == inbox[worker[w].event]
           r == [worker[w] EXCEPT
                   !.pc = IF Head(Parts(row.name)) = "apply"
                            THEN "fetch" ELSE "read",
                   !.tries = row.attempts, !.todo = Parts(row.name)]
<1>1. /\ Busy(w)
      /\ worker' = [worker EXCEPT ![w] = r]
      /\ UNCHANGED <<remote, happened, inbox, local, other, faults, history>>
  BY DEF Load, Busy, WorkerInv, WorkerType
<1>2. /\ worker[w] \in WorkerType /\ row \in Rows
      /\ row.name = Name(w) /\ Name(w) \in EventNames
  BY <1>1, BusyFacts DEF Name
<1>3. TodoOf(Name(w), Parts(Name(w))) /\ Parts(Name(w)) # <<>>
  BY <1>2, PartsTodo
<1>4. /\ r \in WorkerType /\ r.pc \in {"fetch", "read"}
      /\ r.event = worker[w].event /\ r.todo = Parts(Name(w))
      /\ r.pc = "read" => Head(r.todo) # "apply"
      /\ r.seen = worker[w].seen /\ r.status = worker[w].status
  BY <1>2, <1>3 DEF WorkerType, Rows, TodoOf
<1>5. Name(w) = "paid" => OnPayment(r)
  BY <1>4 DEF OnPayment, Parts
<1>6. Name(w) = "deleted" => OnDeletion(r)
  BY <1>4 DEF OnDeletion, Parts
<1> HIDE DEF r
<1>7. Grows
  BY <1>1, HistoryGrows
<1>8. ShopInv' /\ InboxInv'
  BY <1>1, <1>7, InboxKept DEF ShopInv, local
<1>9. WorkerInv'
  BY <1>1, <1>3, <1>4, WorkerGoesOn DEF faults
<1>10. EffectInv'
  BY <1>1, <1>4, <1>5, <1>6, <1>7, EffectGoesOn DEF EffectInv, local, history
<1>11. ActiveWasPaid'
  BY <1>1, <1>4 DEF ActiveWasPaid, WorkerInv, local
<1> QED BY <1>8, <1>9, <1>10, <1>11

LEMMA FetchInv ==
    ASSUME IInv, NEW w \in Workers, Fetch(w)
    PROVE  IInv'
<1> USE DEF IInv
<1> DEFINE r == [worker[w] EXCEPT !.pc = "read", !.seen = remote]
<1>1. /\ Busy(w) /\ Loaded(w) /\ worker[w].pc = "fetch"
      /\ worker' = [worker EXCEPT ![w] = r]
      /\ UNCHANGED <<remote, happened, inbox, local, other, faults, history>>
  BY DEF Fetch, Busy, Loaded, WorkerInv, WorkerType
<1>2. worker[w] \in WorkerType /\ worker[w].todo # <<>>
  BY <1>1, BusyFacts DEF WorkerReady
<1>3. /\ r \in WorkerType /\ r.pc = "read"
      /\ r.seen = remote /\ remote # "none" /\ r.status = worker[w].status
      /\ r.event = worker[w].event /\ r.todo = worker[w].todo
  BY <1>2, StatusesValue DEF WorkerType, ShopInv
<1> HIDE DEF r
<1>4. /\ Name(w) = "paid" => r.event \in met' \/ ended' \/ OnPayment(r)
      /\ Name(w) = "deleted" => r.event \in met' \/ OnDeletion(r)
  BY <1>1, <1>3, BusyFacts DEF Brings, OnPayment, OnDeletion, history
<1>5. Grows
  BY <1>1, HistoryGrows
<1>6. ShopInv' /\ InboxInv'
  BY <1>1, <1>5, InboxKept DEF ShopInv, local
<1>7. WorkerInv'
  BY <1>1, <1>2, <1>3, BusyFacts, WorkerGoesOn DEF faults
<1>8. EffectInv'
  BY <1>1, <1>3, <1>4, <1>5, EffectGoesOn DEF EffectInv, local, history
<1>9. ActiveWasPaid'
  BY <1>1, <1>3 DEF ActiveWasPaid, WorkerInv, local
<1> QED BY <1>6, <1>7, <1>8, <1>9

\* Going on to the next write, or to the end, once what the part stands for
\* has been brought about.
LEMMA AfterPartInv ==
    ASSUME IInv, NEW w \in Workers, Loaded(w), worker[w].todo # <<>>,
           AfterPart(w), UNCHANGED <<inbox, overrun>>,
           Grows, sub' \in Ended => ended',
           Name(w) = "paid" => worker[w].event \in met' \/ ended'
              \/ worker[w].todo = <<"apply", "succeeded">>,
           Name(w) = "deleted" => worker[w].event \in met'
    PROVE  /\ WorkerInv' /\ EffectInv'
           /\ \A v \in Workers :
                 /\ worker'[v].seen \in {worker[v].seen, "none"}
                 /\ worker'[v].status \in {worker[v].status, "none"}
<1> USE DEF IInv
<1> DEFINE todo == worker[w].todo
           r == [worker[w] EXCEPT
                   !.todo = Tail(todo), !.seen = "none", !.status = "none",
                   !.pc = IF Len(todo) = 1 THEN "finish" ELSE "read"]
<1>1. worker' = [worker EXCEPT ![w] = r]
  BY DEF AfterPart, WorkerInv, WorkerType
<1>2. Busy(w) /\ worker[w] \in WorkerType
  BY BusyFacts DEF Loaded, Busy
<1>3. /\ TodoOf(Name(w), Tail(todo))
      /\ Len(todo) # 1 => Tail(todo) # <<>> /\ Head(Tail(todo)) # "apply"
  BY <1>2, BusyFacts, TailTodo
<1>4. Tail(todo) \in Seq(PartNames)
  BY <1>3 DEF TodoOf
<1>5. /\ r \in WorkerType /\ r.pc \in {"read", "finish"}
      /\ r.event = worker[w].event
      /\ r.todo = Tail(todo) /\ r.seen = "none" /\ r.status = "none"
      /\ r.pc = IF Len(todo) = 1 THEN "finish" ELSE "read"
  BY <1>2, <1>4 DEF WorkerType
<1>6. todo = <<"apply", "succeeded">> => OnPayment(r)
  <2>1. todo = <<"apply", "succeeded">> =>
           Tail(todo) = <<"succeeded">> /\ Len(todo) = 2
    OBVIOUS
  <2> HIDE DEF r, todo
  <2> QED BY <1>5, <2>1 DEF OnPayment
<1>7. WorkerInv'
  <2> HIDE DEF r
  <2> QED BY <1>1, <1>2, <1>3, <1>5, WorkerGoesOn
<1>8. EffectInv'
  <2> HIDE DEF r
  <2> QED BY <1>1, <1>2, <1>5, <1>6, EffectGoesOn
<1>9. \A v \in Workers :
         /\ worker'[v].seen \in {worker[v].seen, "none"}
         /\ worker'[v].status \in {worker[v].status, "none"}
  <2> HIDE DEF r
  <2> QED BY <1>1, <1>5 DEF WorkerInv
<1> QED BY <1>7, <1>8, <1>9

\* The status that a write aims at is one of a subscription, and ACTIVE only if
\* Stripe has reported a payment.
LEMMA TargetType ==
    ASSUME IInv, NEW w \in Workers, worker[w].pc = "read"
    PROVE  Target(w) \in Statuses /\ (Target(w) = "ACTIVE" => "paid" \in happened)
<1> USE StatusesValue DEF IInv
<1> DEFINE part == Head(worker[w].todo)
<1>1. /\ Busy(w) /\ Loaded(w) /\ worker[w].todo # <<>>
      /\ part = "apply" => worker[w].seen \in DOMAIN Canonical
  BY BusyFacts DEF Busy, Loaded, WorkerReady, WorkerType
<1>2. part = "succeeded" => "paid" \in happened
  BY <1>1, BusyFacts, TailTodo
<1>3. worker[w].seen = "active" => "paid" \in happened
  BY DEF ActiveWasPaid
<1>4. CASE part = "apply"
  BY <1>1, <1>3, <1>4 DEF Target
<1>5. CASE part # "apply"
  BY <1>2, <1>5 DEF Target
<1> QED BY <1>4, <1>5

LEMMA ReadInv ==
    ASSUME IInv, NEW w \in Workers, Read(w)
    PROVE  IInv'
<1> USE DEF IInv
<1> DEFINE part == Head(worker[w].todo)
           status == IF CanTransition(sub, Target(w)) THEN Target(w) ELSE sub
<1>1. /\ Busy(w) /\ Loaded(w) /\ worker[w].pc = "read"
      /\ worker[w].todo # <<>> /\ worker[w] \in WorkerType
      /\ UNCHANGED <<remote, happened, inbox, local, other, faults, history>>
  BY BusyFacts DEF Read, Busy, Loaded, WorkerReady
<1>2. Grows
  BY <1>1, HistoryGrows
<1>3. ShopInv' /\ InboxInv'
  BY <1>1, <1>2, InboxKept DEF ShopInv, local
<1>4. /\ Name(w) = "paid" => worker[w].event \in met \/ ended
              \/ worker[w].todo \in {<<"apply", "succeeded">>, <<"succeeded">>}
      /\ Name(w) = "deleted" =>
              worker[w].event \in met \/ worker[w].todo = <<"apply">>
  BY <1>1, BusyFacts DEF Brings, OnPayment, OnDeletion
\* Neither a payment nor a deletion is looked up or left out.
<1>5. ASSUME part \notin {"apply", "succeeded"}
      PROVE  /\ Name(w) = "paid" => worker[w].event \in met \/ ended
             /\ Name(w) = "deleted" => worker[w].event \in met
  <2>1. /\ worker[w].todo # <<"apply", "succeeded">>
        /\ worker[w].todo # <<"succeeded">> /\ worker[w].todo # <<"apply">>
    BY <1>5
  <2> QED BY <1>4, <2>1
<1>6. CASE AfterPart(w) /\ part \notin {"apply", "succeeded"}
  <2>1. WorkerInv' /\ EffectInv' /\ \A v \in Workers :
                 /\ worker'[v].seen \in {worker[v].seen, "none"}
                 /\ worker'[v].status \in {worker[v].status, "none"}
    BY <1>1, <1>2, <1>5, <1>6, AfterPartInv
       DEF EffectInv, local, history, faults
  <2>2. ActiveWasPaid'
    BY <1>1, <2>1 DEF ActiveWasPaid, local
  <2> QED BY <1>3, <2>1, <2>2
<1>7. CASE Goto(w, "finish") /\ part \notin {"apply", "succeeded"}
  <2> DEFINE r == [worker[w] EXCEPT !.pc = "finish"]
  <2>1. worker' = [worker EXCEPT ![w] = r]
    BY <1>7 DEF Goto
  <2>2. /\ r \in WorkerType /\ r.pc = "finish"
        /\ r.event = worker[w].event /\ r.todo = worker[w].todo
        /\ r.seen = worker[w].seen /\ r.status = worker[w].status
    BY <1>1 DEF WorkerType
  <2> HIDE DEF r
  <2>3. WorkerInv'
    BY <1>1, <2>1, <2>2, BusyFacts, WorkerGoesOn DEF faults
  <2>4. EffectInv'
    BY <1>1, <1>2, <1>5, <1>7, <2>1, <2>2, EffectGoesOn
       DEF EffectInv, local, history
  <2>5. ActiveWasPaid'
    BY <1>1, <2>1, <2>2 DEF ActiveWasPaid, WorkerInv, local
  <2> QED BY <1>3, <2>3, <2>4, <2>5
<1>8. ASSUME NEW g \in {"none", "running", "over"},
             worker' = [worker EXCEPT ![w].pc = "write", ![w].status = status,
                                      ![w].seen = "none", ![w].grace = g]
      PROVE  IInv'
  <2> DEFINE r == [worker[w] EXCEPT !.pc = "write", !.status = status,
                                    !.seen = "none", !.grace = g]
  <2>1. worker' = [worker EXCEPT ![w] = r]
    BY <1>8 DEF WorkerInv
  <2>2. /\ status \in Statuses /\ status # "none"
        /\ status = "ACTIVE" => "paid" \in happened
    BY <1>1, TargetType, StatusesValue DEF ShopInv, ActiveWasPaid
  <2>3. part = "succeeded" /\ ~ended => status = "ACTIVE"
    BY TransitionFacts DEF EffectInv, ShopInv, Target
  <2>4. part = "apply" /\ Name(w) = "deleted" => status \in Ended
    <3>1. part = "apply" /\ Name(w) = "deleted" => Target(w) = "CANCELED"
      BY DEF Target, Name
    <3>2. sub \notin Ended => CanTransition(sub, "CANCELED")
      BY TransitionFacts DEF ShopInv
    <3> QED BY <3>1, <3>2 DEF Ended
  <2> HIDE DEF status
  <2>5. /\ r \in WorkerType /\ r.pc = "write"
        /\ r.event = worker[w].event /\ r.todo = worker[w].todo
        /\ r.seen = "none" /\ r.status = status /\ r.status # "none"
    BY <1>1, <2>2 DEF WorkerType
  <2> HIDE DEF r
  <2>6. Name(w) = "paid" => r.event \in met' \/ ended' \/ OnPayment(r)
    <3>1. worker[w].todo = <<"succeeded">> => part = "succeeded"
      OBVIOUS
    <3> HIDE DEF part
    <3> QED BY <1>1, <1>4, <2>3, <2>5, <3>1 DEF OnPayment, history
  <2>7. Name(w) = "deleted" => r.event \in met' \/ OnDeletion(r)
    <3>1. worker[w].todo = <<"apply">> => part = "apply"
      OBVIOUS
    <3> HIDE DEF part
    <3> QED BY <1>1, <1>4, <2>4, <2>5, <3>1 DEF OnDeletion, history
  <2>8. WorkerInv'
    BY <1>1, <2>1, <2>5, BusyFacts, WorkerGoesOn DEF faults
  <2>9. EffectInv'
    BY <1>1, <1>2, <2>1, <2>5, <2>6, <2>7, EffectGoesOn
       DEF EffectInv, local, history
  <2>10. ActiveWasPaid'
    BY <1>1, <2>1, <2>2, <2>5 DEF ActiveWasPaid, WorkerInv, local
  <2> QED BY <1>3, <2>8, <2>9, <2>10
<1> QED
  <2>1. DOMAIN Expected = {"check", "find"}
    BY DEF Expected
  <2>2. CASE part \in DOMAIN Expected
    <3>1. AfterPart(w) \/ Goto(w, "finish")
      BY <2>2 DEF Read
    <3> QED BY <1>6, <1>7, <2>1, <2>2, <3>1
  <2>3. CASE part \notin DOMAIN Expected /\ part \in {"expire", "action"}
             /\ ~CanTransition(sub, Target(w))
    <3>1. AfterPart(w)
      BY <2>3 DEF Read
    <3> QED BY <1>6, <2>3, <3>1
  <2>4. CASE part \notin DOMAIN Expected
             /\ ~(part \in {"expire", "action"} /\ ~CanTransition(sub, Target(w)))
    <3> DEFINE g == IF part = "failed" THEN grace ELSE "none"
    <3>1. worker' = [worker EXCEPT ![w].pc = "write", ![w].status = status,
                                   ![w].seen = "none", ![w].grace = g]
      BY <2>4 DEF Read
    <3>2. g \in {"none", "running", "over"}
      BY DEF ShopInv
    <3> HIDE DEF g, status
    <3> QED BY <1>8, <3>1, <3>2
  <2> QED BY <2>2, <2>3, <2>4

LEMMA WriteInv ==
    ASSUME IInv, NEW w \in Workers, Write(w)
    PROVE  IInv'
<1> USE DEF IInv
<1> DEFINE r == [worker[w] EXCEPT !.pc = "sync", !.grace = "none"]
<1>1. /\ Busy(w) /\ Loaded(w) /\ worker[w].pc = "write"
      /\ worker[w].todo # <<>> /\ worker[w] \in WorkerType
      /\ worker[w].status \in Statuses
  BY BusyFacts DEF Write, Busy, Loaded, WorkerReady, WorkerType
<1>2. /\ WriteSub(worker[w].status) /\ met' = met
      /\ grace' \in {"none", "running", grace, worker[w].grace}
      /\ worker' = [worker EXCEPT ![w] = r]
      /\ UNCHANGED <<remote, happened, inbox, entitlement, other, faults>>
  BY DEF Write, WorkerInv
<1>3. /\ Grows /\ sub' = worker[w].status
      /\ worker[w].status \in Ended => ended'
  BY <1>1, <1>2, HistoryGrows
<1>4. ShopInv' /\ InboxInv'
  <2>1. grace' \in {"none", "running", "over"}
    BY <1>1, <1>2 DEF ShopInv, WorkerType
  <2> QED BY <1>1, <1>2, <1>3, <2>1, InboxKept DEF ShopInv
<1>5. /\ r \in WorkerType /\ r.pc = "sync"
      /\ r.event = worker[w].event /\ r.todo = worker[w].todo
      /\ r.seen = worker[w].seen /\ r.status = worker[w].status
  BY <1>1 DEF WorkerType
<1> HIDE DEF r
<1>6. /\ Name(w) = "paid" => r.event \in met' \/ ended' \/ OnPayment(r)
      /\ Name(w) = "deleted" => r.event \in met' \/ OnDeletion(r)
  BY <1>1, <1>2, <1>3, <1>5, BusyFacts
     DEF Brings, OnPayment, OnDeletion, Grows
<1>7. WorkerInv'
  BY <1>1, <1>2, <1>5, BusyFacts, WorkerGoesOn DEF faults
<1>8. EffectInv'
  BY <1>1, <1>2, <1>3, <1>5, <1>6, EffectGoesOn
<1>9. ActiveWasPaid'
  BY <1>2, <1>3, <1>5 DEF ActiveWasPaid, WorkerInv
<1> QED BY <1>4, <1>7, <1>8, <1>9

LEMMA SyncInv ==
    ASSUME IInv, NEW w \in Workers, Sync(w)
    PROVE  IInv'
<1> USE DEF IInv
<1> DEFINE e == worker[w].event
           status == worker[w].status
<1>1. /\ Busy(w) /\ Loaded(w) /\ worker[w].pc = "sync"
      /\ worker[w].todo # <<>> /\ e \in Events /\ AfterPart(w)
      /\ WriteEntitlement(status) /\ ended' = ended
      /\ UNCHANGED <<remote, happened, inbox, sub, grace, other, faults>>
  BY BusyFacts DEF Sync, Busy, Loaded, WorkerReady
<1>2. /\ Entitlement(status) \in {"TRIAL", "ACTIVE", "PAST_DUE", "CANCELED"}
      /\ Entitlement(status) = "ACTIVE" <=> status = "ACTIVE"
      /\ status \in Ended => Entitlement(status) = "CANCELED"
  BY DEF Entitlement, Ended
<1>3. entitlement' = Entitlement(status) /\ Grows
  BY <1>1 DEF WriteEntitlement, Grows, InboxInv
<1>4. Meets(Name(w), entitlement') => e \in met'
  BY <1>1 DEF WriteEntitlement, Name
<1>5. ShopInv' /\ InboxInv'
  BY <1>1, <1>2, <1>3, InboxKept DEF ShopInv
<1>6. /\ Name(w) = "paid" => e \in met' \/ ended'
              \/ worker[w].todo = <<"apply", "succeeded">>
      /\ Name(w) = "deleted" => e \in met'
  BY <1>1, <1>2, <1>3, <1>4, BusyFacts
     DEF Brings, OnPayment, OnDeletion, Meets, Grows
<1>7. WorkerInv' /\ EffectInv' /\ \A v \in Workers :
                 /\ worker'[v].seen \in {worker[v].seen, "none"}
                 /\ worker'[v].status \in {worker[v].status, "none"}
  BY <1>1, <1>3, <1>6, AfterPartInv DEF EffectInv, faults
<1>8. ActiveWasPaid'
  BY <1>1, <1>2, <1>3, <1>7 DEF ActiveWasPaid
<1> QED BY <1>5, <1>7, <1>8

\* The end of an attempt, good or bad.
LEMMA SettleInv ==
    ASSUME IInv, NEW w \in Workers, Busy(w),
           NEW status \in {"PROCESSED", "FAILED", "DEAD"}, Settle(w, status),
           status = "PROCESSED" => worker[w].pc = "finish",
           UNCHANGED <<remote, happened, local, other, faults, history>>
    PROVE  IInv'
<1> USE DEF IInv
<1> DEFINE e == worker[w].event
<1>1. e \in Events /\ inbox[e] \in Rows
  BY BusyFacts
<1>2. /\ inbox' = [inbox EXCEPT ![e].status = status]
      /\ worker' = [worker EXCEPT ![w] = IdleWorker]
  BY DEF Settle
<1>3. /\ inbox'[e] = [inbox[e] EXCEPT !.status = status]
      /\ \A d \in Events : d # e => inbox'[d] = inbox[d]
      /\ inbox' \in [Events -> {NoRow} \cup Rows]
      /\ \A d \in Events : Stored(d) => Stored(d)'
      /\ \A d \in Events : inbox'[d].name = inbox[d].name
      /\ inbox'[e].status = status
  BY <1>1, <1>2 DEF InboxInv, Rows, EventStatuses, Stored
<1>4. Grows
  BY HistoryGrows
<1>5. ShopInv'
  BY DEF ShopInv, local
<1>6. InboxInv'
  <2>1. status = "PROCESSED" =>
           /\ Name(w) = "paid" => e \in met \/ ended
           /\ Name(w) = "deleted" => e \in met
    <3>1. status = "PROCESSED" => Loaded(w) /\ Brings(w)
      BY BusyFacts DEF Loaded
    <3> QED BY <3>1 DEF Brings, OnPayment, OnDeletion
  <2>2. ProcessedTookEffect'
    BY <1>1, <1>3, <1>4, <2>1 DEF InboxInv, ProcessedTookEffect, Grows, Name
  <2>3. \A d \in Events : Stored(d)' => inbox'[d].name \in happened'
    <3>1. \A d \in Events : Stored(d)' => Stored(d)
      BY <1>3, BusyFacts DEF WorkerInv, WorkerHolds, Stored
    <3> QED BY <1>3, <3>1 DEF InboxInv
  <2>4. ASSUME NEW o \in Operators, operator'[o] # "none"
        PROVE  Stored(operator[o])'
    <3>1. operator' = operator /\ operator[o] \in Events /\ Stored(operator[o])
      BY <2>4 DEF InboxInv, faults
    <3> QED BY <1>3, <3>1 DEF Stored
  <2> QED BY <1>3, <1>4, <2>2, <2>3, <2>4 DEF InboxInv, Grows, faults
<1>7. WorkerInv'
  BY <1>2, <1>3, WorkerDrops DEF faults
<1>8. EffectInv'
  <2>1. ASSUME NEW v \in Workers, Loaded(v)'
        PROVE  Loaded(v) /\ worker'[v] = worker[v] /\ Name(v)' = Name(v)
    <3>1. v # w /\ worker'[v] = worker[v] /\ Loaded(v)
      BY <1>2, <2>1 DEF Loaded, WorkerInv, IdleWorker
    <3>2. worker[v].event \in Events
      BY <3>1 DEF WorkerInv, WorkerHolds, Loaded, Busy
    <3> QED BY <1>3, <3>1, <3>2 DEF Name
  <2> QED BY <1>4, <2>1, EffectTransfer DEF EffectInv, local, history
<1>9. ActiveWasPaid'
  BY <1>2 DEF ActiveWasPaid, WorkerInv, IdleWorker, local
<1> QED BY <1>5, <1>6, <1>7, <1>8, <1>9

LEMMA EndInv ==
    ASSUME IInv, NEW w \in Workers, Finish(w) \/ Fail(w)
    PROVE  IInv'
<1>1. CASE Finish(w)
  <2>1. Busy(w) /\ worker[w].pc = "finish"
    BY <1>1 DEF Finish, Busy
  <2> QED BY <1>1, <2>1, SettleInv DEF Finish
<1>2. CASE Fail(w)
  <2>1. Busy(w)
    BY <1>2 DEF Fail, Busy
  <2>2. PICK status \in {"DEAD", "FAILED"} : Settle(w, status)
    BY <1>2 DEF Fail
  <2> QED BY <1>2, <2>1, <2>2, SettleInv DEF Fail
<1> QED BY <1>1, <1>2

LEMMA DieInv ==
    ASSUME IInv, NEW w \in Workers, Die(w)
    PROVE  IInv'
<1> USE DEF IInv
<1>1. /\ Busy(w) /\ deaths < MaxDeaths /\ deaths' = deaths + 1
      /\ abandoned' = abandoned \cup {worker[w].event}
      /\ worker' = [worker EXCEPT ![w] = IdleWorker]
      /\ UNCHANGED <<remote, happened, inbox, local, other, operator,
                     requeues, overrun, history>>
  BY DEF Die, Busy
<1>2. Grows
  BY <1>1, HistoryGrows
<1>3. ShopInv'
  BY <1>1 DEF ShopInv, local
<1>4. InboxInv'
  <2>1. deaths' \in 0..MaxDeaths
    BY <1>1, BillingWebhookAssumption DEF InboxInv
  <2>2. abandoned' \subseteq Events
    BY <1>1, BusyFacts DEF InboxInv
  <2> QED
    BY <1>1, <1>2, <2>1, <2>2 DEF InboxInv, Stored, ProcessedTookEffect,
       Grows, history
<1>5. WorkerInv'
  BY <1>1, WorkerDrops DEF Stored
<1>6. EffectInv'
  <2>1. ASSUME NEW v \in Workers, Loaded(v)'
        PROVE  Loaded(v) /\ worker'[v] = worker[v] /\ Name(v)' = Name(v)
    BY <1>1, <2>1 DEF Loaded, WorkerInv, IdleWorker, Name
  <2> QED BY <1>1, <1>2, <2>1, EffectTransfer DEF EffectInv, local, history
<1>7. ActiveWasPaid'
  BY <1>1 DEF ActiveWasPaid, WorkerInv, IdleWorker, local
<1> QED BY <1>3, <1>4, <1>5, <1>6, <1>7

-----------------------------------------------------------------------------
(* The theorems. *)

LEMMA NextInv == IInv /\ [Next]_vars => IInv'
<1> SUFFICES ASSUME IInv, [Next]_vars PROVE IInv'
  OBVIOUS
<1>1. CASE Next
  BY <1>1, RemoteStepInv, InsertInboxInv, RequeueReadInv, RequeueWriteInv,
     OthersInv, ClaimEventInv, LoadInv, FetchInv, ReadInv, WriteInv, SyncInv,
     EndInv, DieInv
     DEF Next, WorkerStep
<1>2. CASE UNCHANGED vars
  <2>1. Grows
    BY <1>2, HistoryGrows DEF vars
  <2>2. InboxInv'
    BY <1>2, <2>1, InboxKept DEF vars, IInv
  <2>3. WorkerInv'
    BY <1>2, HeldTransfer DEF vars, IInv, faults
  <2>4. EffectInv'
    BY <1>2, <2>1, EffectTransfer
       DEF vars, local, history, IInv, EffectInv, Loaded, Name
  <2>5. ShopInv' /\ ActiveWasPaid'
    BY <1>2 DEF vars, local, IInv, ShopInv, ActiveWasPaid
  <2> QED BY <2>2, <2>3, <2>4, <2>5 DEF IInv
<1> QED BY <1>1, <1>2

LEMMA Invariance == Spec => []IInv
BY InitInv, NextInv, PTL DEF Spec

\* The rows of the inbox, the subscription, the workers and the history keep
\* their types.
THEOREM BillingTypeCorrect == Spec => []TypeOK
BY Invariance, TypesFollow, PTL

\* Whatever ticks overlap, drains run, processes die and however many operators
\* requeue at once, an event is in the hands of two workers only after a requeue
\* has reset it that was decided on before another one (claimEvent,
\* requeueDeadLetter).
THEOREM OneWorker == Spec => []OneWorkerUnlessOverrun
<1>1. IInv => OneWorkerUnlessOverrun
  BY DEF IInv, WorkerInv
<1> QED BY <1>1, Invariance, PTL

\* A payment that is PROCESSED has given access since it came, unless the
\* subscription has ended, and a deletion has withdrawn it, whichever attempts
\* failed before and even when two workers had the event (processEvent,
\* handleInvoicePaymentSucceeded, transitionSubscription).
THEOREM ProcessedEffect == Spec => []ProcessedTookEffect
<1>1. IInv => ProcessedTookEffect
  BY DEF IInv, InboxInv
<1> QED BY <1>1, Invariance, PTL

\* However many events come, in whatever order, how often and how late, the
\* shop has paid access only after Stripe has reported a payment
\* (canTransitionSubscription, canonicalToEntitlementStatus).
THEOREM AccessPaid == Spec => []AccessWasPaid
<1>1. IInv => AccessWasPaid
  BY DEF IInv, ActiveWasPaid, AccessWasPaid
<1> QED BY <1>1, Invariance, PTL
=============================================================================
