----------------------------- MODULE MailOutbox -----------------------------
(***************************************************************************)
(* The durable outbox of mails: MailService.send delivers at once a mail   *)
(* that it has put into the outbox; the ticks of MailOutboxProcessor, one  *)
(* per minute and API instance, deliver what is due.  Both work on a row   *)
(* statement by statement, without a claim.  Time is nondeterministic: the *)
(* grace of a new row or the backoff of a failed one may end at any point, *)
(* also while its first delivery is still under way.                       *)
(***************************************************************************)
EXTENDS Naturals, FiniteSets

CONSTANTS
    Mails,         \* outbox rows, each named by its idempotency key
    Senders,       \* requests that send a mail
    Workers,       \* ticks
    MaxAttempts,   \* MAIL_OUTBOX_MAX_ATTEMPTS
    MaxFaults      \* bound on crashes and on statements that fail

ASSUME MailOutboxAssumption ==
    /\ Senders \cap Workers = {}
    /\ MaxAttempts \in Nat \ {0} /\ MaxFaults \in Nat

VARIABLES
    mode,       \* how the deployment delivers: "resend", "preview", "refuse"
    row,        \* the row of each mail
    proc,       \* where each sender and worker is, and its local variables
    lock,       \* the tick whose transaction holds the advisory lock
    requeueing, \* mails that an operator has found dead and is to requeue
    delivered,  \* mails that the provider has accepted at least once
    tries,      \* attempts made to deliver a mail, up to MaxAttempts
    faults      \* faults so far

vars == <<mode, row, proc, lock, requeueing, delivered, tries, faults>>

Procs == Senders \cup Workers
NoOne == "no one"
NoMail == "no mail"
Open == {"PENDING", "FAILED"}

NoRow == [status |-> "NONE", attempts |-> 0, due |-> FALSE]

\* A new row; the grace of MAIL_OUTBOX_SYNC_GRACE_MS has not passed.
NewRowCounted == [status |-> "PENDING", attempts |-> 1, due |-> FALSE]
NewRowWithoutDate == [status |-> "PENDING", attempts |-> 0]
NewRow == [status |-> "PENDING", attempts |-> 0, due |-> FALSE]

Local(pc, m) == [pc |-> pc, mail |-> m, attempts |-> 0, batch |-> {}]

Init ==
    /\ mode \in {"resend", "preview", "refuse"}
    /\ row = [m \in Mails |-> NoRow]
    /\ \E wanted \in [Senders -> Mails] :
         proc = [p \in Procs |-> IF p \in Senders THEN Local("lookup", wanted[p])
                                 ELSE Local("idle", NoMail)]
    /\ lock = NoOne /\ requeueing = {}
    /\ delivered = {} /\ tries = [m \in Mails |-> 0] /\ faults = 0

Goto(p, label) == proc' = [proc EXCEPT ![p].pc = label]

\* A statement throws.
Fault == faults < MaxFaults /\ faults' = faults + 1

\* Counts of attempts beyond MaxAttempts are all alike.
OneMore(n) == IF n < MaxAttempts THEN n + 1 ELSE n

-----------------------------------------------------------------------------
(* A sender puts its mail into the outbox *)

\* A hit on the key does not keep the sender from delivering the mail.
Lookup(s) ==
    /\ proc[s].pc = "lookup"
    /\ Goto(s, IF row[proc[s].mail] = NoRow THEN "create" ELSE "deliver")
    /\ UNCHANGED <<mode, row, lock, requeueing, delivered, tries, faults>>

\* The second insert with a key is refused by its unique index.
Create(s) ==
    LET m == proc[s].mail
    IN /\ proc[s].pc = "create"
       /\ IF row[m] = NoRow
            THEN row' = [row EXCEPT ![m] = NewRow] /\ Goto(s, "deliver")
            ELSE UNCHANGED row /\ Goto(s, "done")
       /\ UNCHANGED <<mode, lock, requeueing, delivered, tries, faults>>

-----------------------------------------------------------------------------
(* A worker looks for due rows under the advisory lock *)

Tick(w) ==
    /\ proc[w].pc = "idle" /\ lock = NoOne
    /\ lock' = w /\ Goto(w, "select")
    /\ UNCHANGED <<mode, row, requeueing, delivered, tries, faults>>

\* The transaction that holds the lock times out; what it was held for goes on.
LockTimeout(w) ==
    /\ lock = w /\ lock' = NoOne
    /\ UNCHANGED <<mode, row, proc, requeueing, delivered, tries, faults>>

DuePendingRows == {m \in Mails : row[m].status = "PENDING" /\ row[m].due}
DueRows == {m \in Mails : row[m].status \in Open /\ row[m].due}

\* The batch is a list of ids: a row is not looked at again before delivery.
Select(w) ==
    /\ proc[w].pc = "select"
    /\ proc' = [proc EXCEPT ![w].pc = "next", ![w].batch = DueRows]
    /\ UNCHANGED <<mode, row, lock, requeueing, delivered, tries, faults>>

Take(w) ==
    /\ proc[w].pc = "next"
    /\ \E m \in proc[w].batch :
         proc' = [proc EXCEPT ![w].pc = "deliver", ![w].mail = m,
                              ![w].batch = @ \ {m}]
    /\ UNCHANGED <<mode, row, lock, requeueing, delivered, tries, faults>>

FreeLock(w) == lock' = IF lock = w THEN NoOne ELSE lock
Stop(w) == proc' = [proc EXCEPT ![w] = Local("idle", NoMail)]

TickEnd(w) ==
    /\ proc[w].pc = "next" /\ proc[w].batch = {}
    /\ Stop(w) /\ FreeLock(w)
    /\ UNCHANGED <<mode, row, requeueing, delivered, tries, faults>>

-----------------------------------------------------------------------------
(* What both do with a mail *)

\* A sender returns; a worker turns to the next row of its batch.
After(p) ==
    proc' = [proc EXCEPT ![p].pc = IF p \in Senders THEN "done" ELSE "next",
                         ![p].mail = IF p \in Senders THEN @ ELSE NoMail,
                         ![p].attempts = 0]

\* The exception that leaves markFailed ends the request, or the whole tick.
Throw(p) ==
    IF p \in Senders THEN After(p) /\ UNCHANGED lock
    ELSE Stop(p) /\ FreeLock(p)

\* What deliverPayload makes of the provider's answer.
AnyAnswer(ok) == "sent"
Answer(ok) == IF ok THEN "sent" ELSE "failed"

\* Resend refuses the mail, or accepts it; its acceptance may get lost.
\* Without a key a mail is only previewed, and refused in production.
Deliver(p) ==
    LET m == proc[p].mail
    IN /\ proc[p].pc = "deliver"
       /\ tries' = [tries EXCEPT ![m] = OneMore(@)]
       /\ CASE mode = "resend" ->
                 \/ \E ok \in BOOLEAN : /\ delivered' = delivered \cup {m}
                                        /\ Goto(p, Answer(ok))
                 \/ UNCHANGED delivered /\ Goto(p, Answer(FALSE))
            [] mode = "preview" -> UNCHANGED delivered /\ Goto(p, "skipped")
            [] mode = "refuse" -> UNCHANGED delivered /\ Goto(p, "failed")
       /\ UNCHANGED <<mode, row, lock, requeueing, faults>>

\* markSent and markSkipped write over whatever the row says by now.  When the
\* statement throws, the catch of the delivery takes it for a failed one.
Mark(p) ==
    LET m == proc[p].mail
    IN /\ proc[p].pc \in {"sent", "skipped"}
       /\ \/ /\ row' = [row EXCEPT ![m].status =
                   IF proc[p].pc = "sent" THEN "SENT" ELSE "SKIPPED"]
             /\ After(p) /\ UNCHANGED faults
          \/ Fault /\ Goto(p, "failed") /\ UNCHANGED row
       /\ UNCHANGED <<mode, lock, requeueing, delivered, tries>>

\* markFailed reads the attempts made so far ...
FailRead(p) ==
    /\ proc[p].pc = "failed"
    /\ \/ /\ proc' = [proc EXCEPT ![p].pc = "write",
                                  ![p].attempts = row[proc[p].mail].attempts]
          /\ UNCHANGED <<lock, faults>>
       \/ Fault /\ Throw(p)
    /\ UNCHANGED <<mode, row, requeueing, delivered, tries>>

\* ... and writes one more, whatever others have written since.
ExhaustedEarly(attempts) == attempts + 1 >= MaxAttempts
Exhausted(attempts) == attempts >= MaxAttempts
FailWrite(p) ==
    LET m == proc[p].mail
        n == OneMore(proc[p].attempts)
        dead == Exhausted(n)
    IN /\ proc[p].pc = "write"
       /\ \/ /\ row' = [row EXCEPT ![m] =
                   [status |-> IF dead THEN "DEAD" ELSE "FAILED",
                    attempts |-> n, due |-> dead]]
             /\ After(p) /\ UNCHANGED <<lock, faults>>
          \/ Fault /\ Throw(p) /\ UNCHANGED row
       /\ UNCHANGED <<mode, requeueing, delivered, tries>>

\* The process of a request or of a tick dies, and its transaction with it.
Crash(p) ==
    /\ proc[p].pc \notin {"idle", "done"} /\ Fault /\ Throw(p)
    /\ UNCHANGED <<mode, row, requeueing, delivered, tries>>

-----------------------------------------------------------------------------
(* Time, operators and retention *)

\* Grace or backoff passes.
Elapse(m) ==
    /\ row[m].status \in Open /\ ~row[m].due
    /\ row' = [row EXCEPT ![m].due = TRUE]
    /\ UNCHANGED <<mode, proc, lock, requeueing, delivered, tries, faults>>

\* requeueDeadLetter looks for a dead row and then writes it by its id.
RequeueRead(m) ==
    /\ row[m].status = "DEAD" /\ m \notin requeueing
    /\ requeueing' = requeueing \cup {m}
    /\ UNCHANGED <<mode, row, proc, lock, delivered, tries, faults>>

RequeueWrite(m) ==
    /\ m \in requeueing /\ requeueing' = requeueing \ {m}
    /\ row' = [row EXCEPT ![m] =
                 [status |-> "PENDING", attempts |-> 0, due |-> TRUE]]
    /\ UNCHANGED <<mode, proc, lock, delivered, tries, faults>>

InHand(m) ==
    \/ m \in requeueing
    \/ \E p \in Procs :
         /\ proc[p].pc \notin {"lookup", "create", "done"}
         /\ proc[p].mail = m \/ m \in proc[p].batch

\* Retention deletes rows that were sent days ago; what was at work on such a
\* row then has ended.
Purgeable(m) == row[m].status = "SENT"
Purge(m) ==
    /\ Purgeable(m) /\ ~InHand(m)
    /\ row' = [row EXCEPT ![m] = NoRow]
    /\ UNCHANGED <<mode, proc, lock, requeueing, delivered, tries, faults>>

Handle(p) == Deliver(p) \/ Mark(p) \/ FailRead(p) \/ FailWrite(p)
Send(s) == Lookup(s) \/ Create(s) \/ Handle(s)
Work(w) == Tick(w) \/ Select(w) \/ Take(w) \/ TickEnd(w) \/ Handle(w)

Next ==
    \/ \E s \in Senders : Send(s)
    \/ \E w \in Workers : Work(w) \/ LockTimeout(w)
    \/ \E p \in Procs : Crash(p)
    \/ \E m \in Mails :
         Elapse(m) \/ RequeueRead(m) \/ RequeueWrite(m) \/ Purge(m)

Spec == Init /\ [][Next]_vars

\* Requests and ticks go on, the cron starts the next tick, and time passes.
Fairness ==
    /\ \A s \in Senders : WF_vars(Send(s))
    /\ \A w \in Workers : WF_vars(Work(w))
    /\ \A m \in Mails : WF_vars(Elapse(m))

LiveSpec == Spec /\ Fairness

-----------------------------------------------------------------------------
(* Correctness *)

PCs == {"lookup", "create", "deliver", "sent", "skipped", "failed", "write",
        "done", "idle", "select", "next"}

\* The rows and the local variables have their types.
TypeOK ==
    /\ mode \in {"resend", "preview", "refuse"}
    /\ row \in [Mails ->
          [status : Open \cup {"NONE", "SENT", "SKIPPED", "DEAD"},
           attempts : 0..MaxAttempts, due : BOOLEAN]]
    /\ proc \in [Procs ->
          [pc : PCs, mail : Mails \cup {NoMail}, attempts : 0..MaxAttempts,
           batch : SUBSET Mails]]
    /\ lock \in Workers \cup {NoOne}
    /\ requeueing \subseteq Mails /\ delivered \subseteq Mails
    /\ tries \in [Mails -> 0..MaxAttempts]
    /\ faults \in 0..MaxFaults

\* A row that says SENT is of a mail that the provider has accepted, whoever
\* else failed on it meanwhile (send, processOne, markSent).
SentWasDelivered ==
    \A m \in Mails : row[m].status = "SENT" => m \in delivered

\* A mail is given up after MaxAttempts attempts at least, however many
\* attempts overlap and overwrite each other's count (markFailed).
GivenUpAfterMaxAttempts ==
    \A m \in Mails : row[m].status = "DEAD" => tries[m] = MaxAttempts

\* Every mail that is open, its sender dead or not, is eventually sent,
\* skipped or given up for an operator to look at (tick, markFailed).
EveryMailSettles ==
    \A m \in Mails : row[m].status \in Open ~> row[m].status \notin Open
=============================================================================
