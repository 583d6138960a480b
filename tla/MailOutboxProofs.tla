--------------------------- MODULE MailOutboxProofs ---------------------------
(***************************************************************************)
(* Proofs about MailOutbox, for every set of mails, senders and ticks and  *)
(* every bound on attempts and faults.                                     *)
(***************************************************************************)
EXTENDS MailOutbox, FiniteSetTheorems, TLAPS

-----------------------------------------------------------------------------
(* The inductive invariant. *)

\* A sender or a tick that is at a mail has one.
MailInHand ==
    \A p \in Procs :
       /\ proc[p].pc \notin {"done", "idle", "select", "next"} =>
             proc[p].mail \in Mails
       /\ proc[p].pc = "sent" => proc[p].mail \in delivered

\* Those that have tried to deliver a mail and not yet recorded how that went.
Trying(m) ==
    {p \in Procs : /\ proc[p].pc \in {"sent", "skipped", "failed", "write"}
                   /\ proc[p].mail = m}

\* No count of the attempts made, be it in the row or in the hands of one about
\* to write it, is ahead of them, even when all those who are trying have added
\* theirs; until there were MaxAttempts, from where on they are not told apart.
Counted(m) ==
    /\ IsFiniteSet(Trying(m))
    /\ \/ tries[m] = MaxAttempts
       \/ /\ row[m].attempts + Cardinality(Trying(m)) <= tries[m]
          /\ \A p \in Trying(m) : proc[p].pc = "write" =>
                proc[p].attempts + Cardinality(Trying(m)) <= tries[m]

IInv ==
    /\ TypeOK
    /\ MailInHand
    /\ SentWasDelivered
    /\ \A m \in Mails : Counted(m)
    /\ GivenUpAfterMaxAttempts

-----------------------------------------------------------------------------
(* Lemmas about the operators of the model. *)

Row == [status : Open \cup {"NONE", "SENT", "SKIPPED", "DEAD"},
        attempts : 0..MaxAttempts, due : BOOLEAN]
Proc == [pc : PCs, mail : Mails \cup {NoMail}, attempts : 0..MaxAttempts,
         batch : SUBSET Mails]

LEMMA OneMoreType ==
    ASSUME NEW n \in 0..MaxAttempts
    PROVE  /\ OneMore(n) \in 0..MaxAttempts
           /\ OneMore(n) <= n + 1
           /\ n < MaxAttempts => OneMore(n) = n + 1
           /\ n = MaxAttempts => OneMore(n) = MaxAttempts
BY MailOutboxAssumption DEF OneMore

\* One who is done with a mail, well or with an exception.
LEMMA Leaves ==
    ASSUME TypeOK, NEW p \in Procs, After(p) \/ Stop(p)
    PROVE  /\ proc' \in [Procs -> Proc]
           /\ proc'[p].pc \in {"done", "idle", "next"}
           /\ \A q \in Procs : q # p => proc'[q] = proc[q]
<1> USE DEF TypeOK
<1>1. CASE After(p)
  <2> DEFINE r == [proc[p] EXCEPT
                     !.pc = IF p \in Senders THEN "done" ELSE "next",
                     !.mail = IF p \in Senders THEN proc[p].mail ELSE NoMail,
                     !.attempts = 0]
  <2>1. proc[p] \in Proc /\ 0 \in 0..MaxAttempts
    BY MailOutboxAssumption DEF Proc
  <2>2. r \in Proc /\ r.pc \in {"done", "next"}
    BY <2>1 DEF Proc, PCs
  <2>3. proc' = [proc EXCEPT ![p] = r]
    BY <1>1, <2>1 DEF After, Proc
  <2> HIDE DEF r
  <2> QED BY <2>2, <2>3 DEF Proc
<1>2. CASE Stop(p)
  BY <1>2, MailOutboxAssumption DEF Stop, Local, Proc, PCs
<1> QED BY <1>1, <1>2

LEMMA Throws ==
    ASSUME TypeOK, NEW p \in Procs, Throw(p)
    PROVE  /\ proc' \in [Procs -> Proc]
           /\ proc'[p].pc \in {"done", "idle", "next"}
           /\ \A q \in Procs : q # p => proc'[q] = proc[q]
           /\ lock' \in Workers \cup {NoOne}
<1>1. After(p) \/ Stop(p)
  BY DEF Throw
<1>2. lock' \in Workers \cup {NoOne}
  BY DEF Throw, FreeLock, TypeOK
<1> QED BY <1>1, <1>2, Leaves

\* Counts stay behind when somebody goes on without a new attempt ...
LEMMA StaysCounted ==
    ASSUME TypeOK, NEW m \in Mails, Counted(m), tries'[m] = tries[m],
           Trying(m)' = Trying(m),
           row'[m].attempts \in {row[m].attempts, 0},
           \A q \in Trying(m) : proc'[q].pc = "write" =>
              \/ proc'[q].attempts = row[m].attempts
              \/ proc[q].pc = "write" /\ proc'[q].attempts = proc[q].attempts
    PROVE  Counted(m)'
<1>1. Cardinality(Trying(m)) \in Nat
  BY FS_CardinalityType DEF Counted
<1>2. tries[m] \in Nat /\ row[m].attempts \in Nat /\ MaxAttempts \in Nat
  BY MailOutboxAssumption DEF TypeOK
<1> QED BY <1>1, <1>2 DEF Counted

\* ... or is done, having added at most the own attempt to the row.
LEMMA LeavesCounted ==
    ASSUME TypeOK, NEW m \in Mails, Counted(m), tries'[m] = tries[m],
           NEW p \in Procs, proc'[p].pc \in {"done", "idle", "next"},
           \A q \in Procs : q # p => proc'[q] = proc[q],
           \/ row'[m].attempts = row[m].attempts
           \/ /\ p \in Trying(m) /\ proc[p].pc = "write"
              /\ row'[m].attempts \in Nat
              /\ row'[m].attempts <= proc[p].attempts + 1
    PROVE  Counted(m)'
<1> DEFINE before == Cardinality(Trying(m))
           after == Cardinality(Trying(m)')
<1>1. Trying(m)' = Trying(m) \ {p}
  BY DEF Trying
<1>2. /\ IsFiniteSet(Trying(m)') /\ before \in Nat /\ after \in Nat
      /\ after = IF p \in Trying(m) THEN before - 1 ELSE before
  BY <1>1, FS_RemoveElement, FS_CardinalityType DEF Counted
<1>3. /\ tries[m] \in Nat /\ row[m].attempts \in Nat
      /\ \A q \in Procs : proc[q].attempts \in Nat
  BY MailOutboxAssumption DEF TypeOK
<1>4. CASE tries[m] = MaxAttempts
  BY <1>2, <1>4 DEF Counted
<1>5. CASE tries[m] # MaxAttempts
  <2>1. /\ row[m].attempts + before <= tries[m]
        /\ \A q \in Trying(m) : proc[q].pc = "write" =>
              proc[q].attempts + before <= tries[m]
    BY <1>5 DEF Counted
  <2>2. row'[m].attempts + after <= tries[m]
    BY <1>2, <1>3, <2>1
  <2>3. \A q \in Trying(m)' : proc'[q].pc = "write" =>
           proc'[q].attempts + after <= tries[m]
    <3> SUFFICES ASSUME NEW q \in Trying(m)', proc'[q].pc = "write"
                 PROVE  proc'[q].attempts + after <= tries[m]
      OBVIOUS
    <3>1. q \in Trying(m) /\ proc'[q] = proc[q] /\ q \in Procs
      BY <1>1 DEF Trying
    <3> QED BY <1>2, <1>3, <2>1, <3>1
  <2> QED BY <1>2, <2>2, <2>3 DEF Counted
<1> QED BY <1>4, <1>5

-----------------------------------------------------------------------------
(* Initial states. *)

LEMMA InitInv == Init => IInv
<1> SUFFICES ASSUME Init PROVE IInv
  OBVIOUS
<1> USE MailOutboxAssumption
<1>1. PICK wanted \in [Senders -> Mails] :
         proc = [p \in Procs |-> IF p \in Senders
                                   THEN Local("lookup", wanted[p])
                                   ELSE Local("idle", NoMail)]
  BY DEF Init
<1>2. TypeOK
  <2>1. NoRow \in Row /\ 0 \in 0..MaxAttempts
    BY DEF NoRow, Row
  <2>2. proc \in [Procs -> Proc]
    <3>1. \A m \in Mails \cup {NoMail} :
             Local("lookup", m) \in Proc /\ Local("idle", m) \in Proc
      BY <2>1 DEF Local, Proc, PCs
    <3> QED BY <1>1, <3>1
  <2> QED BY <2>1, <2>2 DEF Init, TypeOK, Row, Proc
<1>3. \A m \in Mails : Trying(m) = {}
  BY <1>1 DEF Trying, Local
<1>4. \A m \in Mails : Counted(m)
  <2>1. \A m \in Mails : /\ row[m].attempts = 0 /\ tries[m] = 0
                         /\ IsFiniteSet(Trying(m))
                         /\ Cardinality(Trying(m)) = 0
    BY <1>3, FS_EmptySet DEF Init, NoRow
  <2> QED BY <1>3, <2>1 DEF Counted
<1>5. MailInHand
  BY <1>1 DEF MailInHand, Local
<1> QED
  BY <1>2, <1>4, <1>5 DEF Init, IInv, SentWasDelivered,
       GivenUpAfterMaxAttempts, NoRow

-----------------------------------------------------------------------------
(* Steps in which nobody attempts a delivery or ends one. *)

LEMMA QueueStepInv ==
    ASSUME IInv,
           \/ \E s \in Senders : Lookup(s) \/ Create(s)
           \/ \E w \in Workers :
                 Tick(w) \/ Select(w) \/ Take(w) \/ TickEnd(w) \/ LockTimeout(w)
           \/ \E m \in Mails :
                 Elapse(m) \/ RequeueRead(m) \/ RequeueWrite(m) \/ Purge(m)
    PROVE  IInv'
<1> USE DEF IInv
<1>1. UNCHANGED <<mode, delivered, tries, faults>>
  BY DEF Lookup, Create, Tick, Select, Take, TickEnd, LockTimeout, Elapse,
       RequeueRead, RequeueWrite, Purge
<1>2. /\ row' \in [Mails -> Row]
      /\ \A m \in Mails :
            /\ row'[m].attempts \in {row[m].attempts, 0}
            /\ row'[m].status \in {row[m].status, "NONE", "PENDING"}
  <2> USE MailOutboxAssumption DEF TypeOK, Row
  <2>1. ASSUME NEW s \in Senders, Create(s)
        PROVE  row' \in {row, [row EXCEPT ![proc[s].mail] = NewRow]}
    BY <2>1 DEF Create
  <2>2. NewRow \in Row /\ NoRow \in Row
    BY DEF NewRow, NoRow, Open
  <2>4. CASE \E m \in Mails : Elapse(m) \/ RequeueWrite(m) \/ Purge(m)
    <3>1. PICK m \in Mails : Elapse(m) \/ RequeueWrite(m) \/ Purge(m)
      BY <2>4
    <3> DEFINE Changed(new) == row' = [row EXCEPT ![m] = new]
    <3>2. PICK new \in Row :
             /\ Changed(new) /\ new.attempts \in {row[m].attempts, 0}
             /\ new.status \in {row[m].status, "NONE", "PENDING"}
      <4>1. row[m] \in Row
        OBVIOUS
      <4>2. CASE Elapse(m)
        <5> DEFINE new == [row[m] EXCEPT !.due = TRUE]
        <5>1. new \in Row /\ Changed(new)
              /\ new.attempts = row[m].attempts /\ new.status = row[m].status
          BY <4>1, <4>2 DEF Elapse
        <5> HIDE DEF new, Changed
        <5> QED BY <5>1
      <4>3. CASE RequeueWrite(m)
        <5> DEFINE new == [status |-> "PENDING", attempts |-> 0, due |-> TRUE]
        <5>1. new \in Row /\ Changed(new)
          BY <4>3 DEF RequeueWrite, Open
        <5>2. new.attempts = 0 /\ new.status = "PENDING"
          OBVIOUS
        <5> HIDE DEF new, Changed
        <5> QED BY <5>1, <5>2
      <4>4. CASE Purge(m)
        BY <2>2, <4>4 DEF Purge, NoRow
      <4> QED BY <3>1, <4>2, <4>3, <4>4
    <3> QED BY <3>2
  <2>5. CASE \E s \in Senders : Create(s)
    <3>1. PICK s \in Senders : Create(s)
      BY <2>5
    <3>2. NewRow.attempts = 0 /\ NewRow.status = "PENDING"
      BY DEF NewRow
    <3> QED BY <2>1, <2>2, <3>1, <3>2
  <2>6. CASE UNCHANGED row
    BY <2>6
  <2> QED
    BY <2>4, <2>5, <2>6 DEF Lookup, Tick, Select, Take, TickEnd, LockTimeout,
         RequeueRead
<1>3. /\ proc' \in [Procs -> Proc]
      /\ \A p \in Procs :
            \/ proc'[p] = proc[p]
            \/ /\ {proc[p].pc, proc'[p].pc} \cap
                     {"sent", "skipped", "failed", "write"} = {}
               /\ proc'[p].pc \in {"create", "deliver"} =>
                     proc'[p].mail \in Mails
               /\ proc'[p].pc \in {"create", "deliver", "done", "select",
                                   "next", "idle"}
  <2> USE DEF TypeOK, Proc, PCs, Procs
  <2>1. ASSUME NEW s \in Senders, Lookup(s) \/ Create(s)
        PROVE  /\ proc[s].pc \in {"lookup", "create"}
               /\ \E label \in {"create", "deliver", "done"} : Goto(s, label)
               /\ proc[s].mail \in Mails
    BY <2>1 DEF Lookup, Create, MailInHand
  <2>2. ASSUME NEW w \in Workers, Tick(w) \/ Select(w) \/ Take(w) \/ TickEnd(w)
        PROVE  /\ proc[w].pc \in {"idle", "select", "next"}
               /\ \A q \in Procs : q # w => proc'[q] = proc[q]
               /\ proc'[w].pc \in {"idle", "select", "next", "deliver"}
               /\ proc'[w].pc = "deliver" => proc'[w].mail \in Mails
               /\ proc' \in [Procs -> Proc]
    <3>1. CASE Tick(w)
      BY <3>1 DEF Tick, Goto
    <3>2. CASE Select(w)
      <4>1. DueRows \subseteq Mails
        BY DEF DueRows
      <4> QED BY <3>2, <4>1 DEF Select
    <3>3. CASE Take(w)
      <4>1. PICK m \in proc[w].batch :
               proc' = [proc EXCEPT ![w].pc = "deliver", ![w].mail = m,
                                    ![w].batch = proc[w].batch \ {m}]
        BY <3>3 DEF Take
      <4>2. proc[w] \in Proc /\ m \in Mails /\ proc[w].pc = "next"
        BY <3>3 DEF Take
      <4> QED BY <4>1, <4>2
    <3>4. CASE TickEnd(w)
      BY <3>4, MailOutboxAssumption DEF TickEnd, Stop, Local
    <3> QED BY <2>2, <3>1, <3>2, <3>3, <3>4
  <2>3. CASE \E s \in Senders : Lookup(s) \/ Create(s)
    BY <2>1, <2>3 DEF Goto
  <2>4. CASE \E w \in Workers : Tick(w) \/ Select(w) \/ Take(w) \/ TickEnd(w)
    BY <2>2, <2>4
  <2>5. CASE UNCHANGED proc
    BY <2>5
  <2> QED
    BY <2>3, <2>4, <2>5 DEF LockTimeout, Elapse, RequeueRead, RequeueWrite,
         Purge
<1>4. lock' \in Workers \cup {NoOne} /\ requeueing' \subseteq Mails
  BY DEF TypeOK, Lookup, Create, Tick, Select, Take, TickEnd, FreeLock,
       LockTimeout, Elapse, RequeueRead, RequeueWrite, Purge
<1>5. TypeOK'
  BY <1>1, <1>2, <1>3, <1>4 DEF TypeOK, Row, Proc
<1>6. MailInHand'
  BY <1>1, <1>3 DEF MailInHand
<1>7. ASSUME NEW m \in Mails PROVE Counted(m)'
  <2>1. Trying(m)' = Trying(m)
    BY <1>3 DEF Trying
  <2>2. \A q \in Trying(m) : proc'[q] = proc[q]
    BY <1>3 DEF Trying
  <2> QED BY <1>1, <1>2, <2>1, <2>2, StaysCounted
<1>8. SentWasDelivered' /\ GivenUpAfterMaxAttempts'
  BY <1>1, <1>2 DEF SentWasDelivered, GivenUpAfterMaxAttempts
<1> QED BY <1>5, <1>6, <1>7, <1>8

-----------------------------------------------------------------------------
(* Deliveries. *)

\* A delivery that begins is counted as an attempt, and as one being made.
LEMMA DeliverInv ==
    ASSUME IInv, NEW p \in Procs, Deliver(p)
    PROVE  IInv'
<1> USE DEF IInv
<1> DEFINE mail == proc[p].mail
<1>1. /\ mail \in Mails /\ proc[p].pc = "deliver" /\ proc[p] \in Proc
      /\ UNCHANGED <<mode, row, lock, requeueing, faults>>
      /\ tries' = [tries EXCEPT ![mail] = OneMore(tries[mail])]
  BY DEF Deliver, MailInHand, TypeOK, Proc
<1>2. PICK label \in {"sent", "skipped", "failed"} :
         /\ Goto(p, label)
         /\ delivered' \in {delivered, delivered \cup {mail}}
         /\ label = "sent" => mail \in delivered'
  <2>1. mode \in {"resend", "preview", "refuse"}
    BY DEF TypeOK
  <2>2. CASE mode = "resend"
    BY <2>2 DEF Deliver, Answer
  <2>3. CASE mode = "preview"
    BY <2>3 DEF Deliver
  <2>4. CASE mode = "refuse"
    BY <2>4 DEF Deliver
  <2> QED BY <2>1, <2>2, <2>3, <2>4
<1>3. /\ proc' \in [Procs -> Proc]
      /\ proc'[p].pc = label /\ proc'[p].mail = mail
      /\ \A q \in Procs : q # p => proc'[q] = proc[q]
  BY <1>1, <1>2 DEF Goto, TypeOK, Proc, PCs
<1>4. TypeOK'
  <2>1. tries' \in [Mails -> 0..MaxAttempts]
    BY <1>1, OneMoreType DEF TypeOK
  <2>2. delivered' \subseteq Mails
    BY <1>1, <1>2 DEF TypeOK
  <2> QED BY <1>1, <1>3, <2>1, <2>2 DEF TypeOK, Proc
<1>5. MailInHand'
  BY <1>1, <1>2, <1>3 DEF MailInHand
<1>6. SentWasDelivered'
  BY <1>1, <1>2 DEF SentWasDelivered
<1>7. GivenUpAfterMaxAttempts'
  BY <1>1, OneMoreType DEF GivenUpAfterMaxAttempts, TypeOK
<1>8. ASSUME NEW m \in Mails PROVE Counted(m)'
  <2>1. CASE m # mail
    <3>1. Trying(m)' = Trying(m) /\ \A q \in Trying(m) : proc'[q] = proc[q]
      BY <1>1, <1>3, <2>1 DEF Trying
    <3>2. tries'[m] = tries[m]
      BY <1>1, <2>1 DEF TypeOK
    <3> QED BY <1>1, <3>1, <3>2, StaysCounted DEF TypeOK
  <2>2. CASE m = mail
    <3> DEFINE before == Cardinality(Trying(m))
               after == Cardinality(Trying(m)')
    <3>1. p \notin Trying(m) /\ Trying(m)' = Trying(m) \cup {p}
      BY <1>1, <1>2, <1>3, <2>2 DEF Trying
    <3>2. /\ IsFiniteSet(Trying(m)') /\ before \in Nat
          /\ after = before + 1
      BY <3>1, FS_AddElement, FS_CardinalityType DEF Counted
    <3>3. /\ tries[m] \in 0..MaxAttempts /\ row[m].attempts \in Nat
          /\ \A q \in Procs : proc[q].attempts \in Nat
          /\ tries'[m] = OneMore(tries[m])
      BY <1>1, <2>2, MailOutboxAssumption DEF TypeOK
    <3>4. CASE tries[m] = MaxAttempts
      BY <3>2, <3>3, <3>4, OneMoreType DEF Counted
    <3>5. CASE tries[m] # MaxAttempts
      <4>1. tries'[m] = tries[m] + 1
        BY <3>3, <3>5, OneMoreType, MailOutboxAssumption
      <4>2. row'[m].attempts + after <= tries'[m]
        BY <1>1, <3>2, <3>3, <3>5, <4>1 DEF Counted
      <4>3. \A q \in Trying(m)' : proc'[q].pc = "write" =>
               proc'[q].attempts + after <= tries'[m]
        <5> SUFFICES ASSUME NEW q \in Trying(m)', proc'[q].pc = "write"
                     PROVE  proc'[q].attempts + after <= tries'[m]
          OBVIOUS
        <5>1. q \in Trying(m) /\ q \in Procs /\ proc'[q] = proc[q]
          BY <1>2, <1>3, <3>1 DEF Trying
        <5>2. proc[q].attempts + before <= tries[m]
          BY <3>5, <5>1 DEF Counted
        <5> QED BY <3>2, <3>3, <4>1, <5>1, <5>2
      <4> QED BY <3>2, <4>2, <4>3 DEF Counted
    <3> QED BY <3>4, <3>5
  <2> QED BY <2>1, <2>2
<1> QED BY <1>4, <1>5, <1>6, <1>7, <1>8

\* One who ends a delivery without a word, or who crashes.
LEMMA ThrowInv ==
    ASSUME IInv, NEW p \in Procs, Throw(p), Fault,
           UNCHANGED <<mode, row, requeueing, delivered, tries>>
    PROVE  IInv'
<1> USE DEF IInv
<1>1. TypeOK'
  BY Throws, MailOutboxAssumption DEF Fault, TypeOK, Proc
<1>2. MailInHand'
  BY Throws DEF MailInHand
<1>3. \A m \in Mails : Counted(m)'
  BY Throws, LeavesCounted
<1>4. SentWasDelivered' /\ GivenUpAfterMaxAttempts'
  BY DEF SentWasDelivered, GivenUpAfterMaxAttempts
<1> QED BY <1>1, <1>2, <1>3, <1>4

\* Going on with the same mail, after a statement that may have failed.
LEMMA GoesOnInv ==
    ASSUME IInv, NEW p \in Procs, NEW r \in Proc,
           proc[p].pc \in {"sent", "skipped", "failed"},
           proc' = [proc EXCEPT ![p] = r],
           r.mail = proc[p].mail, r.pc \in {"failed", "write"},
           r.pc = "write" => r.attempts = row[r.mail].attempts,
           UNCHANGED <<mode, row, lock, requeueing, delivered, tries>>,
           faults' \in 0..MaxFaults
    PROVE  IInv'
<1> USE DEF IInv
<1>1. proc[p].mail \in Mails
  BY DEF MailInHand
<1>2. /\ proc' \in [Procs -> Proc] /\ proc'[p] = r
      /\ \A q \in Procs : q # p => proc'[q] = proc[q]
  BY DEF TypeOK, Proc
<1>3. TypeOK'
  BY <1>2 DEF TypeOK, Proc
<1>4. MailInHand'
  BY <1>1, <1>2 DEF MailInHand
<1>5. ASSUME NEW m \in Mails PROVE Counted(m)'
  <2>1. Trying(m)' = Trying(m)
    BY <1>2 DEF Trying
  <2>2. ASSUME NEW q \in Trying(m), proc'[q].pc = "write"
        PROVE  \/ proc'[q].attempts = row[m].attempts
               \/ proc[q].pc = "write" /\ proc'[q].attempts = proc[q].attempts
    BY <1>2, <2>2 DEF Trying
  <2> QED BY <2>1, <2>2, StaysCounted
<1>6. SentWasDelivered' /\ GivenUpAfterMaxAttempts'
  BY DEF SentWasDelivered, GivenUpAfterMaxAttempts
<1> QED BY <1>3, <1>4, <1>5, <1>6

LEMMA MarkInv ==
    ASSUME IInv, NEW p \in Procs, Mark(p)
    PROVE  IInv'
<1> USE DEF IInv
<1> DEFINE mail == proc[p].mail
           status == IF proc[p].pc = "sent" THEN "SENT" ELSE "SKIPPED"
<1>1. /\ mail \in Mails /\ proc[p] \in Proc /\ row[mail] \in Row
      /\ proc[p].pc \in {"sent", "skipped"}
      /\ proc[p].pc = "sent" => mail \in delivered
      /\ UNCHANGED <<mode, lock, requeueing, delivered, tries>>
  BY DEF Mark, MailInHand, TypeOK, Proc, Row
<1>2. CASE row' = [row EXCEPT ![mail].status = status] /\ After(p)
           /\ UNCHANGED faults
  <2>1. /\ row' \in [Mails -> Row]
        /\ \A m \in Mails : row'[m].attempts = row[m].attempts
        /\ row'[mail].status = status
        /\ \A m \in Mails : m # mail => row'[m] = row[m]
    BY <1>1, <1>2 DEF TypeOK, Row
  <2>2. TypeOK'
    BY <1>1, <1>2, <2>1, Leaves DEF TypeOK, Row, Proc
  <2>3. MailInHand'
    BY <1>1, <1>2, Leaves DEF MailInHand
  <2>4. \A m \in Mails : Counted(m)'
    BY <1>1, <1>2, <2>1, Leaves, LeavesCounted
  <2>5. SentWasDelivered' /\ GivenUpAfterMaxAttempts'
    BY <1>1, <2>1 DEF SentWasDelivered, GivenUpAfterMaxAttempts
  <2> QED BY <2>2, <2>3, <2>4, <2>5
<1>3. CASE Fault /\ Goto(p, "failed") /\ UNCHANGED row
  <2> DEFINE r == [proc[p] EXCEPT !.pc = "failed"]
  <2>1. proc' = [proc EXCEPT ![p] = r]
    BY <1>3 DEF Goto
  <2>2. r \in Proc /\ r.mail = mail /\ r.pc = "failed"
    BY <1>1 DEF Proc, PCs
  <2>3. faults' \in 0..MaxFaults
    BY <1>3, MailOutboxAssumption DEF Fault, TypeOK
  <2> HIDE DEF r
  <2> QED BY <1>1, <1>3, <2>1, <2>2, <2>3, GoesOnInv
<1> QED BY <1>2, <1>3 DEF Mark

LEMMA FailReadInv ==
    ASSUME IInv, NEW p \in Procs, FailRead(p)
    PROVE  IInv'
<1> USE DEF IInv
<1>1. CASE Fault /\ Throw(p)
  BY <1>1, ThrowInv DEF FailRead
<1>2. CASE ~(Fault /\ Throw(p))
  <2> DEFINE r == [proc[p] EXCEPT !.pc = "write",
                                  !.attempts = row[proc[p].mail].attempts]
  <2>1. /\ proc[p].pc = "failed" /\ proc[p] \in Proc /\ proc[p].mail \in Mails
        /\ proc' = [proc EXCEPT ![p] = r]
        /\ UNCHANGED <<mode, row, lock, requeueing, delivered, tries, faults>>
    BY <1>2 DEF FailRead, MailInHand, TypeOK, Proc
  <2>2. /\ r \in Proc /\ r.mail = proc[p].mail /\ r.pc = "write"
        /\ r.attempts = row[r.mail].attempts
    BY <2>1 DEF Proc, PCs, TypeOK
  <2>3. faults' \in 0..MaxFaults
    BY <2>1 DEF TypeOK
  <2> HIDE DEF r
  <2> QED BY <2>1, <2>2, <2>3, GoesOnInv
<1> QED BY <1>1, <1>2

LEMMA FailWriteInv ==
    ASSUME IInv, NEW p \in Procs, FailWrite(p)
    PROVE  IInv'
<1> USE DEF IInv
<1>1. CASE Fault /\ Throw(p) /\ UNCHANGED row
  BY <1>1, ThrowInv DEF FailWrite
<1>2. CASE ~(Fault /\ Throw(p) /\ UNCHANGED row)
  <2> DEFINE mail == proc[p].mail
             n == OneMore(proc[p].attempts)
             dead == Exhausted(n)
             new == [status |-> IF dead THEN "DEAD" ELSE "FAILED",
                     attempts |-> n, due |-> dead]
  <2>1. /\ proc[p].pc = "write" /\ proc[p] \in Proc /\ mail \in Mails
        /\ row' = [row EXCEPT ![mail] = new] /\ After(p)
        /\ UNCHANGED <<mode, lock, requeueing, delivered, tries, faults>>
    BY <1>2 DEF FailWrite, MailInHand, TypeOK, Proc
  <2>2. proc[p].attempts \in 0..MaxAttempts
    BY <2>1 DEF Proc
  <2>3. n \in 0..MaxAttempts /\ n <= proc[p].attempts + 1
    BY <2>2, OneMoreType
  <2>4. /\ new \in Row /\ new.attempts = n
        /\ new.status = IF dead THEN "DEAD" ELSE "FAILED"
    <3>1. dead \in BOOLEAN
      BY DEF Exhausted
    <3> HIDE DEF n, dead
    <3> QED BY <2>3, <3>1 DEF Row, Open
  <2>5. p \in Trying(mail)
    BY <2>1 DEF Trying
  <2> HIDE DEF new
  <2>6. /\ row' \in [Mails -> Row] /\ row'[mail] = new
        /\ \A m \in Mails : m # mail => row'[m] = row[m]
    BY <2>1, <2>4 DEF TypeOK, Row
  <2>7. TypeOK'
    BY <2>1, <2>6, Leaves DEF TypeOK, Row, Proc
  <2>8. MailInHand'
    BY <2>1, Leaves DEF MailInHand
  <2>9. ASSUME NEW m \in Mails PROVE Counted(m)'
    <3>1. CASE m = mail
      <4>1. /\ row'[m].attempts \in Nat
            /\ row'[m].attempts <= proc[p].attempts + 1
        BY <2>3, <2>4, <2>6, <3>1
      <4> QED BY <2>1, <2>5, <3>1, <4>1, Leaves, LeavesCounted
    <3>2. CASE m # mail
      BY <2>1, <2>6, <3>2, Leaves, LeavesCounted
    <3> QED BY <3>1, <3>2
  <2>10. dead => tries[mail] = MaxAttempts
    <3> DEFINE trying == Cardinality(Trying(mail))
    <3>1. trying \in Nat /\ trying # 0 /\ tries[mail] \in 0..MaxAttempts
      BY <2>1, <2>5, FS_CardinalityType, FS_EmptySet DEF Counted, TypeOK
    <3>2. \/ tries[mail] = MaxAttempts
          \/ proc[p].attempts + trying <= tries[mail]
      BY <2>1, <2>5 DEF Counted
    <3>3. dead => proc[p].attempts + 1 >= MaxAttempts
      BY <2>2, <2>3, MailOutboxAssumption DEF Exhausted
    <3> QED BY <2>2, <3>1, <3>2, <3>3, MailOutboxAssumption
  <2>11. SentWasDelivered' /\ GivenUpAfterMaxAttempts'
    BY <2>1, <2>4, <2>6, <2>10 DEF SentWasDelivered, GivenUpAfterMaxAttempts
  <2> QED BY <2>7, <2>8, <2>9, <2>11
<1> QED BY <1>1, <1>2

-----------------------------------------------------------------------------
(* The theorems. *)

LEMMA NextInv == IInv /\ [Next]_vars => IInv'
<1> SUFFICES ASSUME IInv, [Next]_vars PROVE IInv'
  OBVIOUS
<1>1. ASSUME NEW p \in Procs, Handle(p) PROVE IInv'
  BY <1>1, DeliverInv, MarkInv, FailReadInv, FailWriteInv DEF Handle
<1>2. ASSUME NEW p \in Procs, Crash(p) PROVE IInv'
  BY <1>2, ThrowInv DEF Crash
<1>3. CASE UNCHANGED vars
  BY <1>3 DEF vars, IInv, TypeOK, MailInHand, SentWasDelivered, Counted,
       Trying, GivenUpAfterMaxAttempts
<1> QED
  BY <1>1, <1>2, <1>3, QueueStepInv DEF Next, Send, Work, Procs

LEMMA Invariance == Spec => []IInv
BY InitInv, NextInv, PTL DEF Spec

\* The rows and what the senders and the ticks hold keep their types.
THEOREM OutboxTypeCorrect == Spec => []TypeOK
<1>1. IInv => TypeOK
  BY DEF IInv
<1> QED BY <1>1, Invariance, PTL

\* A row says SENT only if the provider has accepted the mail, however many
\* ticks and senders work on it without a claim (processOne, markSent).
THEOREM SentDelivered == Spec => []SentWasDelivered
<1>1. IInv => SentWasDelivered
  BY DEF IInv
<1> QED BY <1>1, Invariance, PTL

\* Counts of attempts that overwrite each other, requeues and crashes make the
\* outbox try more often than it counts, and never less: a mail is given up
\* after MaxAttempts attempts at least (markFailed).
THEOREM GivenUpLate == Spec => []GivenUpAfterMaxAttempts
<1>1. IInv => GivenUpAfterMaxAttempts
  BY DEF IInv
<1> QED BY <1>1, Invariance, PTL
=============================================================================
