---------------------------- MODULE GuestCheckout ----------------------------
(***************************************************************************)
(* One guest check, the settlements calculated for it, the payments taken  *)
(* on them, and every request handler that touches these rows, run         *)
(* concurrently by a set of API clients.                                   *)
(*                                                                         *)
(* A handler is cut where another handler can get in between: where it     *)
(* waits for a row lock and between two statements of a handler that opens *)
(* no transaction.  A database transaction writes only at its commit; the  *)
(* rows it locked earlier stay locked until then.  Isolation is READ       *)
(* COMMITTED, the default of the interactive transactions the code opens.  *)
(*                                                                         *)
(* A settlement is identified by its checkVersion: (guestCheckId,          *)
(* checkVersion) is unique, and there is one guest check here.             *)
(***************************************************************************)
EXTENDS Integers, FiniteSets

CONSTANTS
    Clients,      \* concurrent API requests
    Sources,      \* legacy charges that can be linked to the check, worth 1
    Orders,       \* VenueOrder rows that can be created for the check, worth 1
    Nobody,       \* holds the lock of an unlocked row
    NoItem,       \* neither a source nor an order
    MaxVersion,   \* bound on GuestCheck.version, hence on settlements
    Ops           \* the operations a run lets clients start

AllOps == {"createSettlement", "pay", "mutate", "close", "reopen",
           "update", "attach", "detach", "void", "settle", "order"}

ASSUME ConstantsAssumption ==
    /\ IsFiniteSet(Sources)
    /\ IsFiniteSet(Orders)
    /\ Nobody \notin Clients
    /\ NoItem \notin Sources \cup Orders /\ Sources \cap Orders = {}
    /\ MaxVersion \in Nat \ {0}
    /\ Ops \subseteq AllOps

Ids == 1..MaxVersion
Null == 0

VARIABLES
    status,      \* GuestCheck.status
    version,     \* GuestCheck.version
    current,     \* GuestCheck.currentSettlementId, Null when absent
    settlement,  \* CheckSettlement rows, "NONE" when there is no row
    paid,        \* sum of the SUCCESS Payment rows of each settlement
    linked,      \* legacy sources whose guestCheckId is the check
    venue,       \* VenueOrder.status of the orders of the check
    adjust,      \* the amount of the active commercial adjustment, 0 if none
    facts,       \* the check has a LedgerEntry with a non-zero amount
    checkLock,   \* transaction that holds the GuestCheck row lock
    rowLock,     \* transaction that holds the row lock of each settlement
    pc, arg      \* where each client's handler is, and its local variables

check == <<status, version, current>>
bill == <<linked, venue, adjust>>
locks == <<checkLock, rowLock>>
vars == <<check, settlement, paid, bill, facts, locks, pc, arg>>

States == {"NONE", "CALCULATED", "PARTIALLY_PAID", "PAID", "CLOSED", "VOID"}
PCs == {"idle", "csCommit", "payCommit", "mutCommit", "closeCommit",
        "editChild", "editRead", "editVoid", "editClear", "editWrite",
        "voidSettlement", "voidCommit", "settleCommit",
        "orderCreate", "orderCancel"}

NoArg == [op |-> "none", sid |-> Null, ver |-> 0, amt |-> 0, due |-> 0,
          item |-> NoItem]

NoRow == [state |-> "NONE", total |-> 0, due |-> 0, changed |-> {}]

Exists(s) == settlement[s].state # "NONE"

Init ==
    /\ status = "OPEN" /\ version = 1 /\ current = Null
    /\ settlement = [s \in Ids |-> NoRow]
    /\ paid = [s \in Ids |-> 0]
    /\ linked = {} /\ venue = [o \in Orders |-> "NONE"] /\ adjust = 0
    /\ facts = FALSE
    /\ checkLock = Nobody /\ rowLock = [s \in Ids |-> Nobody]
    /\ pc = [c \in Clients |-> "idle"]
    /\ arg = [c \in Clients |-> NoArg]

-----------------------------------------------------------------------------
(* The bill, and how a handler moves on. *)

\* Every charge line is worth 1; the active adjustment adds or takes off 1.
Completed == {o \in Orders : venue[o] = "COMPLETED"}
Lines == linked \cup {o \in Orders : venue[o] \in {"OPEN", "COMPLETED"}}
BillTotal == Cardinality(linked) + Cardinality(Completed) + adjust

\* A discount that matches no line makes the projection throw.
Projectable == adjust = -1 => Lines # {}
BillReady == \A o \in Orders : venue[o] # "OPEN"

\* MaxVersion leaves room for what every handler that is running may add, so
\* that the bound never stops a handler half way.
Headroom ==
    LET running == {d \in Clients : pc[d] # "idle"}
        twice == {d \in running : arg[d].op = "update"}
    IN version + Cardinality(running) + Cardinality(twice) + 2 <= MaxVersion

Start(c, op) == pc[c] = "idle" /\ op \in Ops /\ Headroom
Goto(c, label, a) ==
    /\ pc' = [pc EXCEPT ![c] = label]
    /\ arg' = [arg EXCEPT ![c] = a]
Finish(c) == Goto(c, "idle", NoArg)

\* SELECT ... FOR UPDATE of the check and of a settlement.
ForgetLockCheck(c) == checkLock = Nobody /\ UNCHANGED checkLock
LockCheck(c) == checkLock = Nobody /\ checkLock' = c
ForgetLockRow(c, s) == rowLock[s] = Nobody /\ UNCHANGED rowLock
LockRow(c, s) == rowLock[s] = Nobody /\ rowLock' = [rowLock EXCEPT ![s] = c]

\* Ending a transaction, by COMMIT or by ROLLBACK, frees every row it locked.
ReleaseLocks(c) ==
    /\ checkLock' = IF checkLock = c THEN Nobody ELSE checkLock
    /\ rowLock' = [s \in Ids |-> IF rowLock[s] = c THEN Nobody ELSE rowLock[s]]
Rollback(c) ==
    /\ ReleaseLocks(c) /\ Finish(c)
    /\ UNCHANGED <<check, settlement, paid, bill, facts>>

BumpVersion == version < MaxVersion /\ version' = version + 1

-----------------------------------------------------------------------------
(* CommercialSettlementService.createSettlement *)

\* Lock the check, build the projection, compare the expected version.
CreateSettlementRead(c) ==
    /\ Start(c, "createSettlement")
    /\ LockCheck(c)
    /\ \E ver \in 1..version :
        /\ status = "OPEN" /\ version = ver
        /\ BillReady /\ Projectable
        /\ Goto(c, "csCommit", [NoArg EXCEPT !.ver = ver, !.amt = BillTotal])
    /\ UNCHANGED <<check, settlement, paid, bill, facts, rowLock>>

\* Insert the settlement and its snapshots, make it current, commit.  A second
\* row for the same version violates the unique index and rolls back.
CreateSettlementCommit(c) ==
    /\ pc[c] = "csCommit"
    /\ IF status = "OPEN" /\ version = arg[c].ver /\ ~Exists(version + 1)
         THEN /\ BumpVersion
              /\ settlement' = [settlement EXCEPT ![version + 1] =
                    [state |-> "CALCULATED", total |-> arg[c].amt,
                     due |-> arg[c].amt, changed |-> {}]]
              /\ current' = version + 1
              /\ ReleaseLocks(c) /\ Finish(c)
              /\ UNCHANGED <<status, paid, bill, facts>>
         ELSE Rollback(c)

-----------------------------------------------------------------------------
(* CheckoutPaymentService.createPayment *)

AssertCurrentSettlement(s) ==
    /\ status = "OPEN" /\ current = s
    /\ settlement[s].state \notin {"PAID", "CLOSED", "VOID"}

\* Legacy sources only: a modern order is not among the changed sources.
SourcesUnchanged(s) == settlement[s].changed \cap linked = {}

\* Every allocation is positive and within what is left, and so is their sum.
AmountsBeyondDue(s) == 1..(settlement[s].due + 1)
PayAmounts(s) == 1..settlement[s].due

PayRead(c) ==
    /\ Start(c, "pay")
    /\ \E s \in Ids, ver \in 1..version :
        /\ Exists(s) /\ LockRow(c, s)
        /\ AssertCurrentSettlement(s)
        /\ version = ver
        /\ SourcesUnchanged(s)
        /\ \E a \in PayAmounts(s) :
              Goto(c, "payCommit", [NoArg EXCEPT !.sid = s, !.ver = ver,
                                       !.amt = a, !.due = settlement[s].due])
    /\ UNCHANGED <<check, settlement, paid, bill, facts, checkLock>>

\* The conditional update of the check waits for its row lock; then it either
\* matches no row, and the transaction rolls back, or everything commits.
PayCommit(c) ==
    /\ pc[c] = "payCommit"
    /\ checkLock = Nobody
    /\ LET s == arg[c].sid
           newDue == arg[c].due - arg[c].amt
       IN IF status = "OPEN" /\ version = arg[c].ver /\ current = s
            THEN /\ BumpVersion
                 /\ paid' = [paid EXCEPT ![s] = @ + arg[c].amt]
                 /\ settlement' = [settlement EXCEPT
                       ![s].due = newDue,
                       ![s].state = IF newDue = 0 THEN "PAID"
                                                  ELSE "PARTIALLY_PAID"]
                 /\ facts' = TRUE
                 /\ ReleaseLocks(c) /\ Finish(c)
                 /\ UNCHANGED <<status, current, bill>>
            ELSE Rollback(c)

-----------------------------------------------------------------------------
(* CommercialCoreService: apply or void an adjustment, charge or tip *)

CurrentNotFullyPaid == current # Null => settlement[current].state # "PAID"
CurrentUnpaid == current # Null => paid[current] = 0

MutateRead(c) ==
    /\ Start(c, "mutate")
    /\ LockCheck(c)
    /\ \E ver \in 1..version, a \in {-1, 0, 1} :
        /\ status = "OPEN" /\ version = ver
        /\ CurrentUnpaid
        /\ (adjust = 0) # (a = 0)
        /\ a = -1 => Lines # {}
        /\ Goto(c, "mutCommit",
                [NoArg EXCEPT !.ver = ver, !.amt = a, !.sid = current])
    /\ UNCHANGED <<check, settlement, paid, bill, facts, rowLock>>

\* Voiding the current settlement waits for its row lock.
MutateCommit(c) ==
    /\ pc[c] = "mutCommit"
    /\ LET s == arg[c].sid
       IN /\ s # Null => rowLock[s] = Nobody
          /\ IF status = "OPEN" /\ version = arg[c].ver
               THEN /\ BumpVersion
                    /\ settlement' = IF s = Null THEN settlement
                          ELSE [settlement EXCEPT ![s].state = "VOID"]
                    /\ current' = Null
                    /\ adjust' = arg[c].amt
                    /\ ReleaseLocks(c) /\ Finish(c)
                    /\ UNCHANGED <<status, paid, linked, venue, facts>>
               ELSE Rollback(c)

-----------------------------------------------------------------------------
(* CheckoutService.closeCheck and CommercialCoreService.reopen *)

ZeroValue(s) == settlement[s].total = 0 /\ settlement[s].due = 0

ClosableOncePaying(s) ==
    settlement[s].state # "VOID" /\ (paid[s] > 0 \/ ZeroValue(s))
Closable(s) ==
    /\ settlement[s].state # "VOID"
    /\ settlement[s].state \in {"PAID", "CLOSED"} \/ ZeroValue(s)

CloseRead(c) ==
    /\ Start(c, "close")
    /\ LockCheck(c)
    /\ status = "OPEN" /\ current # Null /\ Closable(current)
    /\ Goto(c, "closeCommit", [NoArg EXCEPT !.sid = current])
    /\ UNCHANGED <<check, settlement, paid, bill, facts, rowLock>>

\* The update of the settlement is unconditional.
CloseCommit(c) ==
    /\ pc[c] = "closeCommit"
    /\ LET s == arg[c].sid
       IN /\ rowLock[s] = Nobody
          /\ IF status = "OPEN" /\ current = s
               THEN /\ BumpVersion
                    /\ settlement' = [settlement EXCEPT ![s].state = "CLOSED",
                                                        ![s].due = 0]
                    /\ status' = "SETTLED" /\ current' = Null
                    /\ facts' = (facts \/ adjust # 0)
                    /\ ReleaseLocks(c) /\ Finish(c)
                    /\ UNCHANGED <<paid, bill>>
               ELSE Rollback(c)

LatestClosed ==
    LET closed == {s \in Ids : settlement[s].state = "CLOSED"}
    IN {s \in closed : \A t \in closed : t <= s}

NoPaymentOnLatest == \A s \in LatestClosed : paid[s] = 0
NoFinancialFacts == NoPaymentOnLatest /\ ~facts

\* A single transaction under the row lock of the check; only the branch that
\* reopens changes the check.
Reopen(c) ==
    /\ Start(c, "reopen")
    /\ checkLock = Nobody
    /\ \E ver \in 1..version :
        /\ status = "SETTLED" /\ version = ver
        /\ NoFinancialFacts
    /\ BumpVersion
    /\ status' = "OPEN" /\ current' = Null
    /\ UNCHANGED <<settlement, paid, bill, facts, locks, pc, arg>>

-----------------------------------------------------------------------------
(* GuestCheckService.update, attach, detach: statements, no transaction *)

AssertCheckoutMutable ==
    current # Null => /\ paid[current] = 0
                      /\ settlement[current].state \notin
                           {"PARTIALLY_PAID", "PAID", "CLOSED"}

EditLoad(c) ==
    /\ status = "OPEN" /\ AssertCheckoutMutable
    /\ \/ /\ Start(c, "update")
          /\ Goto(c, IF current # Null THEN "editRead" ELSE "editWrite",
                  [NoArg EXCEPT !.op = "update"])
       \/ \E op \in {"attach", "detach"}, x \in Sources :
          /\ Start(c, op)
          /\ Goto(c, "editChild", [NoArg EXCEPT !.op = op, !.item = x])
    /\ UNCHANGED <<check, settlement, paid, bill, facts, locks>>

Touch(x) ==
    settlement' = [s \in Ids |->
        IF Exists(s) THEN [settlement[s] EXCEPT !.changed = @ \cup {x}]
                     ELSE settlement[s]]

\* Linking a source checks the foreign key, which waits while a transaction
\* holds the check FOR UPDATE; unlinking does not.  A linked source brings its
\* ledger entries along, if it has any (a completed order).
EditChild(c) ==
    /\ pc[c] = "editChild"
    /\ LET x == arg[c].item
       IN \/ /\ arg[c].op = "attach" /\ checkLock = Nobody
             /\ linked' = linked \cup {x}
             /\ facts' = TRUE \/ UNCHANGED facts
             /\ Touch(x)
             /\ Goto(c, "editRead", arg[c])
          \/ /\ arg[c].op = "detach" /\ x \in linked
             /\ linked' = linked \ {x} /\ UNCHANGED facts
             /\ Touch(x)
             /\ Goto(c, "editRead", arg[c])
          \/ /\ arg[c].op = "detach" /\ x \notin linked
             /\ Finish(c)
             /\ UNCHANGED <<linked, facts, settlement>>
    /\ UNCHANGED <<check, paid, venue, adjust, locks>>

\* invalidateCurrentSettlement, in its three statements.
EditRead(c) ==
    /\ pc[c] = "editRead"
    /\ IF status = "OPEN"
         THEN Goto(c, IF current # Null THEN "editVoid" ELSE "editClear",
                   [arg[c] EXCEPT !.sid = current])
         ELSE Finish(c)
    /\ UNCHANGED <<check, settlement, paid, bill, facts, locks>>

VoidableUnlessFullyPaid(s) ==
    settlement[s].state \in {"CALCULATED", "PARTIALLY_PAID"}
Voidable(s) == settlement[s].state = "CALCULATED" /\ paid[s] = 0

EditVoid(c) ==
    /\ pc[c] = "editVoid"
    /\ LET s == arg[c].sid
       IN /\ rowLock[s] = Nobody
          /\ IF Voidable(s)
               THEN /\ settlement' = [settlement EXCEPT ![s].state = "VOID"]
                    /\ Goto(c, "editClear", arg[c])
               ELSE Finish(c) /\ UNCHANGED settlement
    /\ UNCHANGED <<check, paid, bill, facts, locks>>

EditClear(c) ==
    /\ pc[c] = "editClear"
    /\ checkLock = Nobody
    /\ IF status = "OPEN"
         THEN /\ BumpVersion /\ current' = Null
              /\ IF arg[c].op = "update" THEN Goto(c, "editWrite", arg[c])
                                         ELSE Finish(c)
         ELSE Finish(c) /\ UNCHANGED <<version, current>>
    /\ UNCHANGED <<status, settlement, paid, bill, facts, locks>>

EditWrite(c) ==
    /\ pc[c] = "editWrite"
    /\ checkLock = Nobody
    /\ IF status = "OPEN" THEN BumpVersion ELSE UNCHANGED version
    /\ Finish(c)
    /\ UNCHANGED <<status, current, settlement, paid, bill, facts, locks>>

-----------------------------------------------------------------------------
(* GuestCheckService.void and settle: a read, then a transaction *)

VoidLoad(c) ==
    /\ Start(c, "void")
    /\ status = "OPEN" /\ AssertCheckoutMutable
    /\ Goto(c, IF current # Null THEN "voidSettlement" ELSE "voidCommit",
            [NoArg EXCEPT !.sid = current])
    /\ UNCHANGED <<check, settlement, paid, bill, facts, locks>>

VoidSettlement(c) ==
    /\ pc[c] = "voidSettlement"
    /\ LET s == arg[c].sid
       IN /\ rowLock[s] = Nobody
          /\ IF Voidable(s)
               THEN LockRow(c, s) /\ Goto(c, "voidCommit", arg[c])
               ELSE Finish(c) /\ UNCHANGED rowLock
    /\ UNCHANGED <<check, settlement, paid, bill, facts, checkLock>>

VoidCommit(c) ==
    /\ pc[c] = "voidCommit"
    /\ checkLock = Nobody
    /\ LET s == arg[c].sid
       IN IF status = "OPEN"
            THEN /\ BumpVersion
                 /\ settlement' = IF s = Null THEN settlement
                       ELSE [settlement EXCEPT ![s].state = "VOID"]
                 /\ linked' = {}
                 /\ status' = "VOID" /\ current' = Null
                 /\ ReleaseLocks(c) /\ Finish(c)
                 /\ UNCHANGED <<paid, venue, adjust, facts>>
            ELSE Rollback(c)

SettleLoad(c) ==
    /\ Start(c, "settle")
    /\ status = "OPEN" /\ current = Null
    /\ Goto(c, "settleCommit", NoArg)
    /\ UNCHANGED <<check, settlement, paid, bill, facts, locks>>

SettleCommit(c) ==
    /\ pc[c] = "settleCommit"
    /\ checkLock = Nobody
    /\ IF status = "OPEN"
         THEN BumpVersion /\ status' = "SETTLED" /\ current' = Null
         ELSE UNCHANGED check
    /\ Finish(c)
    /\ UNCHANGED <<settlement, paid, bill, facts, locks>>

-----------------------------------------------------------------------------
(* OrderingService.createOrder, cancelOrder; completeVenueOrder *)

OrderLoad(c) ==
    /\ Start(c, "order")
    /\ status = "OPEN" /\ CurrentUnpaid
    /\ \E o \in Orders :
        /\ venue[o] = "NONE" /\ \A d \in Clients : arg[d].item # o
        /\ Goto(c, "orderCreate", [NoArg EXCEPT !.item = o])
    /\ UNCHANGED <<check, settlement, paid, bill, facts, locks>>

\* VenueOrder.guestCheckId is not a foreign key: nothing makes the insert wait.
OrderCreate(c) ==
    /\ pc[c] = "orderCreate"
    /\ venue' = [venue EXCEPT ![arg[c].item] = "OPEN"]
    /\ Finish(c)
    /\ UNCHANGED <<check, settlement, paid, linked, adjust, facts, locks>>

\* Completing an order, under its row lock, posts its sale fact.
OrderComplete(c) ==
    /\ Start(c, "order")
    /\ \E o \in Orders :
        /\ venue[o] = "OPEN"
        /\ venue' = [venue EXCEPT ![o] = "COMPLETED"]
    /\ facts' = TRUE
    /\ UNCHANGED <<check, settlement, paid, linked, adjust, locks, pc, arg>>

\* Canceling reads the order first and writes it unconditionally afterwards.
OrderCancelLoad(c) ==
    /\ Start(c, "order")
    /\ \E o \in Orders :
        /\ venue[o] = "OPEN"
        /\ Goto(c, "orderCancel", [NoArg EXCEPT !.item = o])
    /\ UNCHANGED <<check, settlement, paid, bill, facts, locks>>

OrderCancel(c) ==
    /\ pc[c] = "orderCancel"
    /\ venue' = [venue EXCEPT ![arg[c].item] = "CANCELED"]
    /\ Finish(c)
    /\ UNCHANGED <<check, settlement, paid, linked, adjust, facts, locks>>

-----------------------------------------------------------------------------
(* The database and the process *)

\* The transaction that c waits for, Nobody when c is not waiting.
BlockedBy(c) ==
    CASE pc[c] \in {"payCommit", "voidCommit"} -> checkLock
      [] pc[c] \in {"mutCommit", "closeCommit"} /\ arg[c].sid # Null
           -> rowLock[arg[c].sid]
      [] OTHER -> Nobody

InDeadlock(c) == BlockedBy(c) # Nobody /\ BlockedBy(BlockedBy(c)) = c

\* PostgreSQL aborts one transaction of a cycle of waits.
NoVictim(c) == FALSE
DeadlockVictim(c) == InDeadlock(c) /\ Rollback(c)

\* The process dies or the transaction times out; what was committed stays.
Crash(c) == pc[c] # "idle" /\ Rollback(c)

Continue(c) ==
    \/ CreateSettlementCommit(c) \/ PayCommit(c) \/ MutateCommit(c)
    \/ CloseCommit(c)
    \/ EditChild(c) \/ EditRead(c) \/ EditVoid(c) \/ EditClear(c)
    \/ EditWrite(c)
    \/ VoidSettlement(c) \/ VoidCommit(c) \/ SettleCommit(c)
    \/ OrderCreate(c) \/ OrderCancel(c)

Request(c) ==
    \/ CreateSettlementRead(c) \/ PayRead(c) \/ MutateRead(c)
    \/ CloseRead(c) \/ Reopen(c)
    \/ EditLoad(c) \/ VoidLoad(c) \/ SettleLoad(c)
    \/ OrderLoad(c) \/ OrderComplete(c) \/ OrderCancelLoad(c)

Step(c) == Request(c) \/ Continue(c) \/ DeadlockVictim(c) \/ Crash(c)

Next == \E c \in Clients : Step(c)

Spec == Init /\ [][Next]_vars

\* A handler runs to its end: Node keeps scheduling it, PostgreSQL grants a row
\* lock in the order it was asked for (hence strong fairness for a step that
\* waits) and aborts a victim of every deadlock.  Nothing obliges a client to
\* send a request, or a process to crash.
FairSpec ==
    /\ Spec
    /\ \A c \in Clients : SF_vars(Continue(c))
    /\ \A c \in Clients : WF_vars(DeadlockVictim(c))

-----------------------------------------------------------------------------
(* Correctness *)

ArgType == [op : {"none", "update", "attach", "detach"}, sid : Ids \cup {Null},
            ver : Nat, amt : Int, due : Nat,
            item : Sources \cup Orders \cup {NoItem}]

SettlementType == [state : States, total : Nat, due : Nat,
                   changed : SUBSET Sources]

CheckTypeOK ==
    /\ status \in {"OPEN", "SETTLED", "VOID"}
    /\ version \in Ids /\ current \in Ids \cup {Null}
RowsTypeOK ==
    settlement \in [Ids -> SettlementType] /\ paid \in [Ids -> Nat]
BillTypeOK ==
    /\ linked \in SUBSET Sources
    /\ venue \in [Orders -> {"NONE", "OPEN", "COMPLETED", "CANCELED"}]
    /\ adjust \in {-1, 0, 1} /\ facts \in BOOLEAN
LocksTypeOK ==
    /\ checkLock \in Clients \cup {Nobody}
    /\ rowLock \in [Ids -> Clients \cup {Nobody}]
HandlersTypeOK == pc \in [Clients -> PCs] /\ arg \in [Clients -> ArgType]

\* The rows and the handlers' local variables hold values of their columns.
TypeOK ==
    /\ CheckTypeOK /\ RowsTypeOK /\ BillTypeOK /\ LocksTypeOK
    /\ HandlersTypeOK

\* What a settlement says is due is its total less the payments recorded on it,
\* and its state says the same: a payment that works from a stale amountDue, a
\* void that races a payment or a close before the last payment breaks it
\* (createPayment, lockMutableCheck, closeCheck).
Balanced(s) ==
    LET r == settlement[s] IN
    /\ paid[s] + r.due = r.total
    /\ r.state \in {"NONE", "CALCULATED", "VOID"} => paid[s] = 0
    /\ r.state \in {"PARTIALLY_PAID", "PAID"} => 0 < paid[s]
    /\ r.state = "PARTIALLY_PAID" => 0 < r.due
    /\ r.state \in {"PAID", "CLOSED"} => r.due = 0
\* Every settlement is balanced, at every moment (Balanced).
SettlementBalanced == \A s \in Ids : Balanced(s)

\* A handler that reaches its last step still sees the rows as it read them,
\* whatever ran since: the lock it took, or the condition of its own update,
\* covers everything its decision was based on.  closeCheck is the one that
\* takes no lock on the settlement: what it relies on is that nothing is due.
SeesWhatItRead(c) ==
    LET s == arg[c].sid IN
    /\ pc[c] \in {"csCommit", "mutCommit", "closeCommit"} =>
          checkLock = c /\ status = "OPEN"
    /\ pc[c] \in {"csCommit", "mutCommit"} => version = arg[c].ver
    /\ pc[c] \in {"mutCommit", "closeCommit"} => s = current
    /\ pc[c] = "mutCommit" => CurrentUnpaid
    /\ pc[c] = "closeCommit" =>
          s # Null /\ (settlement[s].state = "PAID" \/ ZeroValue(s))
    /\ pc[c] = "payCommit" =>
          /\ rowLock[s] = c
          /\ settlement[s].state \in {"CALCULATED", "PARTIALLY_PAID"}
          /\ settlement[s].due = arg[c].due /\ arg[c].amt \in 1..arg[c].due
    /\ pc[c] = "voidCommit" /\ s # Null => rowLock[s] = c /\ Voidable(s)
\* What every handler relies on at its last step is still so (SeesWhatItRead).
CommitsSeeWhatWasRead == \A c \in Clients : SeesWhatItRead(c)

LedgerView == [s \in Ids |-> [state |-> settlement[s].state,
                              total |-> settlement[s].total,
                              paid |-> paid[s]]]
Ledger == INSTANCE SettlementLedger WITH ledger <- LedgerView

\* Every settlement behaves as if each request worked on it alone and at once:
\* the row locks, the conditional updates and the version checks of all
\* handlers together serialise them (GuestCheckout implements
\* SettlementLedger).
SettlementsSerialised == Ledger!LedgerSpec

\* A transaction of the commercial core discards exactly the settlement it
\* looked at, and never one that money was recorded on, although it counts the
\* payments before it waits for the settlement's row (lockMutableCheck).
MutationSparesTender ==
    [][\A c \in Clients :
        MutateCommit(c) /\ version' # version =>
            /\ current = arg[c].sid
            /\ current # Null => paid[current] = 0]_vars

\* A check on which money was taken, on whichever settlement, stays settled:
\* reopen looks at the latest closed settlement and at the ledger, and the
\* ledger is what covers the settlements it does not look at (reopen).
ReopenNeverErasesMoney ==
    [][status = "SETTLED" /\ status' = "OPEN" =>
          \A s \in Ids : paid[s] = 0]_vars

\* Payments and closes take the rows in opposite orders, and so do payments and
\* mutations; yet closing a check that has something to pay never deadlocks,
\* since the payment it could meet has already been refused (closeCheck).
PaidCloseNeverDeadlocks ==
    \A c \in Clients :
        InDeadlock(c) /\ pc[c] = "closeCommit" => ZeroValue(arg[c].sid)

\* Every handler ends, whatever the others hold (row locks, lock order).
EveryHandlerEnds ==
    \A c \in Clients : pc[c] # "idle" ~> pc[c] = "idle"

-----------------------------------------------------------------------------
(* The rest of the inductive invariant, see GuestCheckoutProofs *)

\* Every local variable a step uses is there, and every lock has a holder that
\* will release it.
LocalsPresent ==
    \A c \in Clients :
        /\ pc[c] \in {"payCommit", "editVoid", "voidSettlement"} =>
              arg[c].sid # Null
        /\ pc[c] = "csCommit" => arg[c].amt \in Nat
        /\ pc[c] = "mutCommit" => arg[c].amt \in {-1, 0, 1}
        /\ pc[c] = "editChild" => arg[c].item \in Sources
        /\ pc[c] \in {"orderCreate", "orderCancel"} => arg[c].item \in Orders
RowLockHolders ==
    \A s \in Ids, c \in Clients :
        rowLock[s] = c =>
            pc[c] \in {"payCommit", "voidCommit"} /\ arg[c].sid = s

\* The current settlement exists and is not closed.
CurrentAlive ==
    current # Null => settlement[current].state \notin {"NONE", "CLOSED"}

\* Money always leaves a ledger entry behind.
FactsRecordMoney == ~facts => \A s \in Ids : paid[s] = 0

IInv == /\ TypeOK /\ SettlementBalanced /\ CommitsSeeWhatWasRead
        /\ LocalsPresent /\ RowLockHolders /\ CurrentAlive /\ FactsRecordMoney

-----------------------------------------------------------------------------
(* What the repository says of a check, which the runs examine *)

\* A settlement that was paid in full stays the current one until the check
\* closes: it is not calculated anew (createSettlement).
PaidNeverRecalculated ==
    [][\A c \in Clients :
        CreateSettlementCommit(c) /\ current # Null /\ current' # current =>
            settlement[current].state # "PAID"]_vars

\* Once money is recorded, the bill is neither edited, nor detached, nor voided
\* (update, attach, detach, void of GuestCheckService).
PaidBillLocked ==
    [][current # Null /\ paid[current] > 0 =>
          /\ linked' = linked /\ status' # "VOID"
          /\ current' = Null => status' = "SETTLED"]_vars

\* A payment is recorded only on a settlement that is still the bill: linked
\* activity has not changed since it was calculated (createPayment).
PaymentSeesCurrentBill ==
    [][\A c \in Clients :
        PayCommit(c) /\ paid' # paid =>
            settlement[current].total = BillTotal /\ BillReady]_vars
=============================================================================
