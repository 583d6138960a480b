------------------------- MODULE GuestCheckoutProofs -------------------------
(***************************************************************************)
(* Proofs about GuestCheckout, for every set of clients, every finite set  *)
(* of sources and orders and every bound on the version.                   *)
(*                                                                         *)
(* A lemma about a step proves what the actions that leave its variables   *)
(* alone preserve in one step, and has a step for each of the others.      *)
(***************************************************************************)
EXTENDS GuestCheckout, FiniteSetTheorems, TLAPS

USE DEF Null

-----------------------------------------------------------------------------
(* Lemmas about the operators of the model. *)

\* The bill of a check that can be projected, with no order open, is not
\* negative.
LEMMA BillTotalNat ==
    ASSUME BillTypeOK, BillReady, Projectable
    PROVE  BillTotal \in Nat
<1> DEFINE Open == {o \in Orders : venue[o] \in {"OPEN", "COMPLETED"}}
<1>1. Open = Completed
  BY DEF BillTypeOK, BillReady, Completed
<1>2. IsFiniteSet(linked) /\ IsFiniteSet(Completed)
  BY ConstantsAssumption, FS_Subset DEF BillTypeOK, Completed
<1>3. Cardinality(linked) \in Nat /\ Cardinality(Completed) \in Nat
  BY <1>2, FS_CardinalityType
<1>4. CASE adjust = -1
  <2>1. linked # {} \/ Completed # {}
    BY <1>1, <1>4 DEF Projectable, Lines
  <2>2. Cardinality(linked) # 0 \/ Cardinality(Completed) # 0
    BY <1>2, <2>1, FS_EmptySet
  <2> QED BY <1>3, <1>4, <2>2 DEF BillTotal
<1>5. CASE adjust # -1
  BY <1>3, <1>5 DEF BillTypeOK, BillTotal
<1> QED BY <1>4, <1>5

\* Ending a transaction, ending a handler and counting the version keep the
\* types of what they change.
LEMMA ReleaseType ==
    ASSUME LocksTypeOK, NEW c \in Clients, ReleaseLocks(c)
    PROVE  LocksTypeOK'
BY DEF LocksTypeOK, ReleaseLocks

LEMMA GotoType ==
    ASSUME HandlersTypeOK, NEW c \in Clients,
           NEW label \in PCs, NEW a \in ArgType, Goto(c, label, a)
    PROVE  HandlersTypeOK'
BY DEF Goto, HandlersTypeOK

LEMMA NoArgType == NoArg \in ArgType /\ "idle" \in PCs
BY DEF NoArg, ArgType, PCs

LEMMA FinishType ==
    ASSUME HandlersTypeOK, NEW c \in Clients, Finish(c)
    PROVE  HandlersTypeOK'
BY NoArgType, GotoType DEF Finish

LEMMA BumpType ==
    CheckTypeOK /\ BumpVersion => version' \in Ids /\ version + 1 \in Ids
BY ConstantsAssumption DEF CheckTypeOK, BumpVersion, Ids

-----------------------------------------------------------------------------
(* Initial states. *)

LEMMA InitInv == Init => IInv
<1> SUFFICES ASSUME Init PROVE IInv
  OBVIOUS
<1>1. CheckTypeOK
  BY ConstantsAssumption DEF Init, CheckTypeOK, Ids
<1>2. RowsTypeOK
  <2>1. NoRow \in SettlementType
    BY DEF NoRow, SettlementType, States
  <2> QED BY <2>1 DEF Init, RowsTypeOK
<1>3. BillTypeOK /\ LocksTypeOK
  BY DEF Init, BillTypeOK, LocksTypeOK
<1>4. HandlersTypeOK
  BY NoArgType DEF Init, HandlersTypeOK
<1>5. SettlementBalanced
  BY DEF Init, SettlementBalanced, Balanced, NoRow
<1>6. CommitsSeeWhatWasRead /\ LocalsPresent
  BY DEF Init, CommitsSeeWhatWasRead, SeesWhatItRead, LocalsPresent
<1>7. RowLockHolders
  BY ConstantsAssumption DEF Init, RowLockHolders
<1>8. CurrentAlive /\ FactsRecordMoney
  BY DEF Init, CurrentAlive, FactsRecordMoney
<1> QED
  BY <1>1, <1>2, <1>3, <1>4, <1>5, <1>6, <1>7, <1>8 DEF IInv, TypeOK

-----------------------------------------------------------------------------
(* Every step keeps the types. *)

LEMMA LocksTypeStep ==
    ASSUME TypeOK, NEW c \in Clients, Step(c)
    PROVE  LocksTypeOK'
<1> USE DEF TypeOK
<1>1. CASE \/ Reopen(c) \/ EditLoad(c) \/ EditChild(c) \/ EditRead(c)
           \/ EditVoid(c) \/ EditClear(c) \/ EditWrite(c) \/ VoidLoad(c)
           \/ SettleLoad(c) \/ SettleCommit(c) \/ OrderLoad(c)
           \/ OrderCreate(c) \/ OrderComplete(c) \/ OrderCancelLoad(c)
           \/ OrderCancel(c)
  BY <1>1 DEF Reopen, EditLoad, EditChild, EditRead, EditVoid, EditClear,
       EditWrite, VoidLoad, SettleLoad, SettleCommit, OrderLoad, OrderCreate,
       OrderComplete, OrderCancelLoad, OrderCancel, LocksTypeOK, locks
<1>2. CASE \/ CreateSettlementRead(c) \/ PayRead(c) \/ MutateRead(c)
           \/ CloseRead(c) \/ VoidSettlement(c)
  BY <1>2 DEF CreateSettlementRead, PayRead, MutateRead, CloseRead,
       VoidSettlement, LocksTypeOK, LockCheck, LockRow
<1>3. CASE \/ CreateSettlementCommit(c) \/ PayCommit(c) \/ MutateCommit(c)
           \/ CloseCommit(c) \/ VoidCommit(c) \/ DeadlockVictim(c)
           \/ Crash(c)
  BY ReleaseType, <1>3 DEF CreateSettlementCommit, PayCommit, MutateCommit,
       CloseCommit, VoidCommit, DeadlockVictim, Crash, LocksTypeOK, Rollback
<1> QED
  BY <1>1, <1>2, <1>3 DEF Step, Request, Continue

LEMMA CheckTypeStep ==
    ASSUME TypeOK, NEW c \in Clients, Step(c)
    PROVE  CheckTypeOK'
<1> USE DEF TypeOK
<1>1. CASE \/ CreateSettlementRead(c) \/ PayRead(c) \/ MutateRead(c)
           \/ CloseRead(c) \/ EditLoad(c) \/ EditChild(c) \/ EditRead(c)
           \/ EditVoid(c) \/ VoidLoad(c) \/ VoidSettlement(c)
           \/ SettleLoad(c) \/ OrderLoad(c) \/ OrderCreate(c)
           \/ OrderComplete(c) \/ OrderCancelLoad(c) \/ OrderCancel(c)
           \/ DeadlockVictim(c) \/ Crash(c)
  BY <1>1 DEF CreateSettlementRead, PayRead, MutateRead, CloseRead, EditLoad,
       EditChild, EditRead, EditVoid, VoidLoad, VoidSettlement, SettleLoad,
       OrderLoad, OrderCreate, OrderComplete, OrderCancelLoad, OrderCancel,
       DeadlockVictim, Crash, CheckTypeOK, BumpVersion, check, Rollback
<1>2. CASE CreateSettlementCommit(c)
  BY BumpType, <1>2 DEF CreateSettlementCommit, CheckTypeOK, BumpVersion,
       Rollback, check
<1>3. CASE PayCommit(c)
  BY BumpType, <1>3 DEF PayCommit, CheckTypeOK, BumpVersion, Rollback, check
<1>4. CASE MutateCommit(c)
  BY BumpType, <1>4 DEF MutateCommit, CheckTypeOK, BumpVersion, Rollback, check
<1>5. CASE CloseCommit(c)
  BY BumpType, <1>5 DEF CloseCommit, CheckTypeOK, BumpVersion, Rollback, check
<1>6. CASE Reopen(c)
  BY BumpType, <1>6 DEF Reopen, CheckTypeOK, BumpVersion
<1>7. CASE EditClear(c)
  BY BumpType, <1>7 DEF EditClear, CheckTypeOK, BumpVersion
<1>8. CASE EditWrite(c)
  BY BumpType, <1>8 DEF EditWrite, CheckTypeOK, BumpVersion
<1>9. CASE VoidCommit(c)
  BY BumpType, <1>9 DEF VoidCommit, CheckTypeOK, BumpVersion, Rollback, check
<1>10. CASE SettleCommit(c)
  BY BumpType, <1>10 DEF SettleCommit, CheckTypeOK, BumpVersion, check
<1> QED
  BY <1>1, <1>2, <1>3, <1>4, <1>5, <1>6, <1>7, <1>8, <1>9, <1>10 DEF Step,
       Request, Continue

LEMMA BillTypeStep ==
    ASSUME IInv, NEW c \in Clients, Step(c)
    PROVE  BillTypeOK'
<1> USE DEF IInv, TypeOK
<1>1. CASE \/ CreateSettlementRead(c) \/ CreateSettlementCommit(c)
           \/ PayRead(c) \/ MutateRead(c) \/ CloseRead(c) \/ Reopen(c)
           \/ EditLoad(c) \/ EditRead(c) \/ EditVoid(c) \/ EditClear(c)
           \/ EditWrite(c) \/ VoidLoad(c) \/ VoidSettlement(c)
           \/ SettleLoad(c) \/ SettleCommit(c) \/ OrderLoad(c)
           \/ OrderCancelLoad(c) \/ DeadlockVictim(c) \/ Crash(c)
  BY <1>1 DEF CreateSettlementRead, CreateSettlementCommit, PayRead,
       MutateRead, CloseRead, Reopen, EditLoad, EditRead, EditVoid, EditClear,
       EditWrite, VoidLoad, VoidSettlement, SettleLoad, SettleCommit,
       OrderLoad, OrderCancelLoad, DeadlockVictim, Crash, BillTypeOK,
       LocalsPresent, bill, Rollback
<1>2. CASE PayCommit(c)
  BY <1>2 DEF PayCommit, BillTypeOK, LocalsPresent, Rollback, bill
<1>3. CASE MutateCommit(c)
  BY <1>3 DEF MutateCommit, BillTypeOK, LocalsPresent, Rollback, bill
<1>4. CASE CloseCommit(c)
  BY <1>4 DEF CloseCommit, BillTypeOK, LocalsPresent, Rollback, bill
<1>5. CASE EditChild(c)
  BY <1>5 DEF EditChild, BillTypeOK, LocalsPresent
<1>6. CASE VoidCommit(c)
  BY <1>6 DEF VoidCommit, BillTypeOK, LocalsPresent, Rollback, bill
<1>7. CASE OrderCreate(c)
  BY <1>7 DEF OrderCreate, BillTypeOK, LocalsPresent
<1>8. CASE OrderComplete(c)
  BY <1>8 DEF OrderComplete, BillTypeOK, LocalsPresent
<1>9. CASE OrderCancel(c)
  BY <1>9 DEF OrderCancel, BillTypeOK, LocalsPresent
<1> QED
  BY <1>1, <1>2, <1>3, <1>4, <1>5, <1>6, <1>7, <1>8, <1>9 DEF Step, Request,
       Continue

LEMMA RowsTypeStep ==
    ASSUME IInv, NEW c \in Clients, Step(c)
    PROVE  RowsTypeOK'
<1> USE DEF IInv, TypeOK
<1>1. CASE \/ CreateSettlementRead(c) \/ PayRead(c) \/ MutateRead(c)
           \/ CloseRead(c) \/ Reopen(c) \/ EditLoad(c) \/ EditRead(c)
           \/ EditClear(c) \/ EditWrite(c) \/ VoidLoad(c)
           \/ VoidSettlement(c) \/ SettleLoad(c) \/ SettleCommit(c)
           \/ OrderLoad(c) \/ OrderCreate(c) \/ OrderComplete(c)
           \/ OrderCancelLoad(c) \/ OrderCancel(c) \/ DeadlockVictim(c)
           \/ Crash(c)
  BY BumpType, <1>1 DEF CreateSettlementRead, PayRead, MutateRead, CloseRead,
       Reopen, EditLoad, EditRead, EditClear, EditWrite, VoidLoad,
       VoidSettlement, SettleLoad, SettleCommit, OrderLoad, OrderCreate,
       OrderComplete, OrderCancelLoad, OrderCancel, DeadlockVictim, Crash,
       RowsTypeOK, SettlementType, States, LocalsPresent, Rollback
<1>2. CASE CreateSettlementCommit(c)
  BY BumpType, <1>2 DEF CreateSettlementCommit, RowsTypeOK, SettlementType,
       States, LocalsPresent, Rollback
<1>3. CASE PayCommit(c)
  <2>1. arg[c].due - arg[c].amt \in Nat
    BY <1>3 DEF PayCommit, CommitsSeeWhatWasRead, SeesWhatItRead,
           HandlersTypeOK, ArgType
  <2>2. arg[c].amt \in Nat /\ arg[c].sid \in Ids
    BY <1>3 DEF PayCommit, CommitsSeeWhatWasRead, SeesWhatItRead,
           LocalsPresent, HandlersTypeOK, ArgType
  <2> QED
    BY <1>3, <2>1, <2>2 DEF PayCommit, RowsTypeOK, SettlementType, States,
           Rollback
<1>4. CASE MutateCommit(c)
  BY BumpType, <1>4 DEF MutateCommit, RowsTypeOK, SettlementType, States,
       LocalsPresent, Rollback
<1>5. CASE CloseCommit(c)
  BY BumpType, <1>5 DEF CloseCommit, RowsTypeOK, SettlementType, States,
       LocalsPresent, Rollback
<1>6. CASE EditChild(c)
  <2>1. arg[c].item \in Sources
    BY <1>6 DEF EditChild, LocalsPresent
  <2>2. Touch(arg[c].item) => settlement' \in [Ids -> SettlementType]
    BY <2>1 DEF Touch, RowsTypeOK, SettlementType
  <2> QED
    BY <1>6, <2>2 DEF EditChild, RowsTypeOK
<1>7. CASE EditVoid(c)
  BY <1>7 DEF EditVoid, RowsTypeOK, SettlementType, States, LocalsPresent
<1>8. CASE VoidCommit(c)
  BY BumpType, <1>8 DEF VoidCommit, RowsTypeOK, SettlementType, States,
       LocalsPresent, Rollback
<1> QED
  BY <1>1, <1>2, <1>3, <1>4, <1>5, <1>6, <1>7, <1>8 DEF Step, Request, Continue

LEMMA HandlersTypeStep ==
    ASSUME TypeOK, NEW c \in Clients, Step(c)
    PROVE  HandlersTypeOK'
<1> USE DEF TypeOK
<1>1. CASE \/ CreateSettlementCommit(c) \/ PayCommit(c) \/ MutateCommit(c)
           \/ CloseCommit(c) \/ Reopen(c) \/ EditWrite(c) \/ VoidCommit(c)
           \/ SettleCommit(c) \/ OrderCreate(c) \/ OrderComplete(c)
           \/ OrderCancel(c) \/ DeadlockVictim(c) \/ Crash(c)
  BY FinishType, <1>1 DEF CreateSettlementCommit, PayCommit, MutateCommit,
       CloseCommit, Reopen, EditWrite, VoidCommit, SettleCommit, OrderCreate,
       OrderComplete, OrderCancel, DeadlockVictim, Crash, HandlersTypeOK, Goto,
       PCs, ArgType, NoArg, Rollback
<1>2. CASE CreateSettlementRead(c)
  <2>1. PICK ver \in 1..version :
           /\ BillReady /\ Projectable
           /\ Goto(c, "csCommit",
                   [NoArg EXCEPT !.ver = ver, !.amt = BillTotal])
    BY <1>2 DEF CreateSettlementRead
  <2>2. ver \in Nat /\ BillTotal \in Int
    BY <2>1, ConstantsAssumption, BillTotalNat DEF CheckTypeOK, Ids
  <2>3. [NoArg EXCEPT !.ver = ver, !.amt = BillTotal] \in ArgType
    BY <2>2 DEF NoArg, ArgType
  <2> QED BY <2>1, <2>3, GotoType DEF PCs
<1>3. CASE PayRead(c)
  <2>1. PICK s \in Ids, ver \in 1..version :
           \E a \in PayAmounts(s) :
             Goto(c, "payCommit", [NoArg EXCEPT !.sid = s, !.ver = ver,
                                      !.amt = a, !.due = settlement[s].due])
    BY <1>3 DEF PayRead
  <2>2. settlement[s].due \in Nat
    BY DEF RowsTypeOK, SettlementType
  <2>3. ver \in Nat
    BY ConstantsAssumption DEF CheckTypeOK, Ids
  <2>4. PICK a \in PayAmounts(s) :
             Goto(c, "payCommit", [NoArg EXCEPT !.sid = s, !.ver = ver,
                                      !.amt = a, !.due = settlement[s].due])
    BY <2>1
  <2>5. a \in Int
    BY <2>2 DEF PayAmounts
  <2>6. [NoArg EXCEPT !.sid = s, !.ver = ver, !.amt = a,
                      !.due = settlement[s].due] \in ArgType
    BY <2>2, <2>3, <2>5 DEF NoArg, ArgType
  <2> QED BY <2>4, <2>6, GotoType DEF PCs
<1>4. CASE MutateRead(c)
  <2>1. PICK ver \in 1..version, a \in {-1, 0, 1} :
           Goto(c, "mutCommit",
                [NoArg EXCEPT !.ver = ver, !.amt = a, !.sid = current])
    BY <1>4 DEF MutateRead
  <2>2. ver \in Nat /\ a \in Int /\ current \in Ids \cup {Null}
    BY ConstantsAssumption DEF CheckTypeOK, Ids
  <2>3. [NoArg EXCEPT !.ver = ver, !.amt = a, !.sid = current] \in ArgType
    BY <2>2 DEF NoArg, ArgType
  <2> QED BY <2>1, <2>3, GotoType DEF PCs
<1>5. CASE CloseRead(c)
  <2>1. [NoArg EXCEPT !.sid = current] \in ArgType
    BY DEF NoArg, ArgType, CheckTypeOK
  <2> QED BY <1>5, <2>1, GotoType DEF CloseRead, PCs
<1>6. CASE EditLoad(c)
  <2>1. [NoArg EXCEPT !.op = "update"] \in ArgType
    BY DEF NoArg, ArgType
  <2>2. ASSUME NEW o \in {"attach", "detach"}, NEW x \in Sources
        PROVE  [NoArg EXCEPT !.op = o, !.item = x] \in ArgType
    <3>1. [NoArg EXCEPT !.op = o] \in ArgType
      BY DEF NoArg, ArgType
    <3>2. \A r \in ArgType : [r EXCEPT !.item = x] \in ArgType
      BY DEF ArgType
    <3> QED BY <3>1, <3>2
  <2> QED BY <1>6, <2>1, <2>2, GotoType DEF EditLoad, PCs
<1>7. CASE EditChild(c)
  BY FinishType, <1>7 DEF EditChild, HandlersTypeOK, Goto, PCs, ArgType, NoArg
<1>8. CASE EditRead(c)
  <2>1. [arg[c] EXCEPT !.sid = current] \in ArgType
    BY DEF HandlersTypeOK, ArgType, CheckTypeOK
  <2> QED BY <1>8, <2>1, GotoType, FinishType DEF EditRead, PCs
<1>9. CASE EditVoid(c)
  BY FinishType, <1>9 DEF EditVoid, HandlersTypeOK, Goto, PCs, ArgType, NoArg
<1>10. CASE EditClear(c)
  BY FinishType, <1>10 DEF EditClear, HandlersTypeOK, Goto, PCs, ArgType, NoArg
<1>11. CASE VoidLoad(c)
  <2>1. [NoArg EXCEPT !.sid = current] \in ArgType
    BY DEF NoArg, ArgType, CheckTypeOK
  <2> QED BY <1>11, <2>1, GotoType DEF VoidLoad, PCs
<1>12. CASE VoidSettlement(c)
  BY FinishType, <1>12 DEF VoidSettlement, HandlersTypeOK, Goto, PCs, ArgType,
       NoArg
<1>13. CASE SettleLoad(c)
  BY <1>13 DEF SettleLoad, HandlersTypeOK, Goto, PCs, ArgType, NoArg
<1>14. CASE OrderLoad(c)
  BY <1>14 DEF OrderLoad, HandlersTypeOK, Goto, PCs, ArgType, NoArg
<1>15. CASE OrderCancelLoad(c)
  BY <1>15 DEF OrderCancelLoad, HandlersTypeOK, Goto, PCs, ArgType, NoArg
<1> QED
  BY <1>1, <1>2, <1>3, <1>4, <1>5, <1>6, <1>7, <1>8, <1>9, <1>10, <1>11, <1>12,
       <1>13, <1>14, <1>15 DEF Step, Request, Continue

LEMMA TypeStep ==
    ASSUME IInv, NEW c \in Clients, Step(c)
    PROVE  TypeOK'
BY LocksTypeStep, CheckTypeStep, BillTypeStep, RowsTypeStep, HandlersTypeStep
   DEF TypeOK, IInv

-----------------------------------------------------------------------------
(* Every step keeps the other parts of the inductive invariant. *)

\* The three ways an edit starts have one thing in common.
LEMMA EditLoadMoves ==
    ASSUME NEW c \in Clients, EditLoad(c)
    PROVE  /\ pc[c] = "idle"
           /\ UNCHANGED <<check, settlement, paid, bill, facts, locks>>
           /\ \E label \in {"editChild", "editRead", "editWrite"} : \E a :
                /\ Goto(c, label, a)
                /\ label = "editChild" => a.item \in Sources
<1>1. CASE \E o \in {"attach", "detach"}, x \in Sources :
           /\ Start(c, o)
           /\ Goto(c, "editChild", [NoArg EXCEPT !.op = o, !.item = x])
  <2>1. PICK o \in {"attach", "detach"}, x \in Sources :
           /\ Start(c, o)
           /\ Goto(c, "editChild", [NoArg EXCEPT !.op = o, !.item = x])
    BY <1>1
  <2>2. [NoArg EXCEPT !.op = o, !.item = x].item = x
    BY DEF NoArg
  <2> QED BY <2>1, <2>2 DEF EditLoad, Start
<1>2. CASE /\ Start(c, "update")
           /\ Goto(c, IF current # Null THEN "editRead" ELSE "editWrite",
                   [NoArg EXCEPT !.op = "update"])
  BY <1>2 DEF EditLoad, Start
<1> QED BY <1>1, <1>2 DEF EditLoad

LEMMA LocalsStep ==
    ASSUME IInv, NEW c \in Clients, Step(c)
    PROVE  LocalsPresent'
<1> USE DEF IInv, TypeOK, CheckTypeOK, RowsTypeOK, BillTypeOK, LocksTypeOK,
            HandlersTypeOK, SettlementType, ArgType
<1>1. CASE \/ CreateSettlementCommit(c) \/ PayCommit(c) \/ MutateCommit(c)
           \/ CloseRead(c) \/ CloseCommit(c) \/ Reopen(c) \/ EditChild(c)
           \/ EditVoid(c) \/ EditClear(c) \/ EditWrite(c)
           \/ VoidSettlement(c) \/ VoidCommit(c) \/ SettleLoad(c)
           \/ SettleCommit(c) \/ OrderCreate(c) \/ OrderComplete(c)
           \/ OrderCancel(c) \/ DeadlockVictim(c) \/ Crash(c)
  BY <1>1 DEF CreateSettlementCommit, PayCommit, MutateCommit, CloseRead,
       CloseCommit, Reopen, EditChild, EditVoid, EditClear, EditWrite,
       VoidSettlement, VoidCommit, SettleLoad, SettleCommit, OrderCreate,
       OrderComplete, OrderCancel, DeadlockVictim, Crash, LocalsPresent, Goto,
       Finish, Rollback, NoArg
<1>2. CASE CreateSettlementRead(c)
  BY BillTotalNat, <1>2 DEF CreateSettlementRead, LocalsPresent, Goto, NoArg
<1>3. CASE PayRead(c)
  <2>1. PICK s \in Ids, ver \in 1..version :
           \E a \in PayAmounts(s) :
             Goto(c, "payCommit", [NoArg EXCEPT !.sid = s, !.ver = ver,
                                      !.amt = a, !.due = settlement[s].due])
    BY <1>3 DEF PayRead
  <2>2. s # Null
    BY ConstantsAssumption DEF Ids
  <2> QED BY <2>1, <2>2 DEF LocalsPresent, Goto, NoArg
<1>4. CASE MutateRead(c)
  BY <1>4 DEF MutateRead, LocalsPresent, Goto, NoArg
<1>5. CASE EditLoad(c)
  <2>1. PICK label \in {"editChild", "editRead", "editWrite"} : \E a :
           /\ Goto(c, label, a)
           /\ label = "editChild" => a.item \in Sources
    BY <1>5, EditLoadMoves
  <2> QED BY <1>5, <2>1, EditLoadMoves DEF LocalsPresent, Goto, Start
<1>6. CASE EditRead(c)
  BY <1>6 DEF EditRead, LocalsPresent, Goto, Finish, NoArg
<1>7. CASE VoidLoad(c)
  BY <1>7 DEF VoidLoad, LocalsPresent, Goto, NoArg
<1>8. CASE OrderLoad(c)
  BY <1>8 DEF OrderLoad, LocalsPresent, Goto, NoArg
<1>9. CASE OrderCancelLoad(c)
  BY <1>9 DEF OrderCancelLoad, LocalsPresent, Goto, NoArg
<1> QED
  BY <1>1, <1>2, <1>3, <1>4, <1>5, <1>6, <1>7, <1>8, <1>9 DEF Step, Request,
       Continue

LEMMA RowLockHoldersStep ==
    ASSUME IInv, NEW c \in Clients, Step(c)
    PROVE  RowLockHolders'
<1> USE DEF IInv, TypeOK, CheckTypeOK, RowsTypeOK, BillTypeOK, LocksTypeOK,
            HandlersTypeOK, SettlementType, ArgType
<1>1. CASE \/ CreateSettlementCommit(c) \/ PayCommit(c) \/ MutateCommit(c)
           \/ CloseCommit(c) \/ VoidCommit(c) \/ DeadlockVictim(c)
           \/ Crash(c)
  BY ConstantsAssumption, <1>1 DEF CreateSettlementCommit, PayCommit,
       MutateCommit, CloseCommit, VoidCommit, DeadlockVictim, Crash,
       RowLockHolders, Goto, Finish, Rollback, ReleaseLocks, NoArg
<1>2. CASE \/ Reopen(c) \/ EditChild(c) \/ EditVoid(c) \/ EditClear(c)
           \/ EditWrite(c)
  BY ConstantsAssumption, <1>2 DEF Reopen, EditChild, EditVoid, EditClear,
       EditWrite, RowLockHolders, locks, Start, Goto, Finish, NoArg
<1>3. CASE \/ VoidLoad(c) \/ SettleLoad(c) \/ SettleCommit(c)
           \/ OrderLoad(c) \/ OrderCreate(c)
  BY ConstantsAssumption, <1>3 DEF VoidLoad, SettleLoad, SettleCommit,
       OrderLoad, OrderCreate, RowLockHolders, Goto, locks, NoArg, Start,
       Finish
<1>4. CASE OrderComplete(c) \/ OrderCancelLoad(c) \/ OrderCancel(c)
  BY ConstantsAssumption, <1>4 DEF OrderComplete, OrderCancelLoad, OrderCancel,
       RowLockHolders, locks, Start, Goto, NoArg, Finish
<1>5. CASE CreateSettlementRead(c)
  BY ConstantsAssumption, <1>5 DEF CreateSettlementRead, RowLockHolders, Goto,
       NoArg, Start
<1>6. CASE PayRead(c)
  BY ConstantsAssumption, <1>6 DEF PayRead, RowLockHolders, Goto, LockRow,
       NoArg, Start
<1>7. CASE MutateRead(c)
  BY ConstantsAssumption, <1>7 DEF MutateRead, RowLockHolders, Goto, NoArg,
       Start
<1>8. CASE CloseRead(c)
  BY ConstantsAssumption, <1>8 DEF CloseRead, RowLockHolders, Goto, NoArg,
       Start
<1>9. CASE EditLoad(c)
  <2>1. PICK label \in {"editChild", "editRead", "editWrite"} : \E a :
           Goto(c, label, a)
    BY <1>9, EditLoadMoves
  <2>2. \A s \in Ids : rowLock[s] # c
    BY <1>9, EditLoadMoves DEF RowLockHolders
  <2>3. rowLock' = rowLock
    BY <1>9, EditLoadMoves DEF locks
  <2>4. \A d \in Clients \ {c} : pc'[d] = pc[d] /\ arg'[d] = arg[d]
    BY <2>1 DEF Goto
  <2> QED BY <2>2, <2>3, <2>4 DEF RowLockHolders
<1>10. CASE EditRead(c)
  BY ConstantsAssumption, <1>10 DEF EditRead, RowLockHolders, Goto, Finish,
       locks, NoArg
<1>11. CASE VoidSettlement(c)
  BY ConstantsAssumption, <1>11 DEF VoidSettlement, RowLockHolders, Goto,
       Finish, LockRow, NoArg
<1> QED
  BY <1>1, <1>2, <1>3, <1>4, <1>5, <1>6, <1>7, <1>8, <1>9, <1>10, <1>11 DEF
       Step, Request, Continue

LEMMA CurrentAliveStep ==
    ASSUME IInv, NEW c \in Clients, Step(c)
    PROVE  CurrentAlive'
<1> USE DEF IInv, TypeOK, CheckTypeOK, RowsTypeOK, BillTypeOK, LocksTypeOK,
            HandlersTypeOK, SettlementType, ArgType
<1>1. CASE \/ CreateSettlementRead(c) \/ PayRead(c) \/ MutateRead(c)
           \/ CloseRead(c) \/ Reopen(c) \/ EditLoad(c) \/ EditRead(c)
           \/ VoidLoad(c) \/ VoidSettlement(c) \/ SettleLoad(c)
           \/ OrderLoad(c) \/ OrderCreate(c) \/ OrderComplete(c)
           \/ OrderCancelLoad(c) \/ OrderCancel(c) \/ DeadlockVictim(c)
           \/ Crash(c)
  BY BumpType, <1>1 DEF CreateSettlementRead, PayRead, MutateRead, CloseRead,
       Reopen, EditLoad, EditRead, VoidLoad, VoidSettlement, SettleLoad,
       OrderLoad, OrderCreate, OrderComplete, OrderCancelLoad, OrderCancel,
       DeadlockVictim, Crash, CurrentAlive, check, CommitsSeeWhatWasRead,
       Rollback, SeesWhatItRead
<1>2. CASE CreateSettlementCommit(c)
  BY BumpType, <1>2 DEF CreateSettlementCommit, CurrentAlive, Rollback, check,
       CommitsSeeWhatWasRead
<1>3. CASE PayCommit(c)
  BY BumpType, <1>3 DEF PayCommit, CurrentAlive, Rollback, check,
       CommitsSeeWhatWasRead
<1>4. CASE MutateCommit(c)
  BY BumpType, <1>4 DEF MutateCommit, CurrentAlive, Rollback, check,
       CommitsSeeWhatWasRead
<1>5. CASE CloseCommit(c)
  BY BumpType, <1>5 DEF CloseCommit, CurrentAlive, Rollback, check,
       CommitsSeeWhatWasRead
<1>6. CASE EditChild(c)
  <2>1. \A x : Touch(x) =>
            \A s \in Ids : settlement'[s].state = settlement[s].state
    BY DEF Touch
  <2> QED BY <1>6, <2>1 DEF EditChild, CurrentAlive, check
<1>7. CASE EditVoid(c)
  BY <1>7 DEF EditVoid, CurrentAlive, check, CommitsSeeWhatWasRead
<1>8. CASE EditClear(c)
  BY BumpType, <1>8 DEF EditClear, CurrentAlive, CommitsSeeWhatWasRead
<1>9. CASE EditWrite(c)
  BY BumpType, <1>9 DEF EditWrite, CurrentAlive, CommitsSeeWhatWasRead
<1>10. CASE VoidCommit(c)
  BY BumpType, <1>10 DEF VoidCommit, CurrentAlive, Rollback, check,
       CommitsSeeWhatWasRead
<1>11. CASE SettleCommit(c)
  BY BumpType, <1>11 DEF SettleCommit, CurrentAlive, check,
       CommitsSeeWhatWasRead
<1> QED
  BY <1>1, <1>2, <1>3, <1>4, <1>5, <1>6, <1>7, <1>8, <1>9, <1>10, <1>11 DEF
       Step, Request, Continue

LEMMA FactsRecordMoneyStep ==
    ASSUME IInv, NEW c \in Clients, Step(c)
    PROVE  FactsRecordMoney'
<1> USE DEF IInv, TypeOK, CheckTypeOK, RowsTypeOK, BillTypeOK, LocksTypeOK,
            HandlersTypeOK, SettlementType, ArgType
<1>1. CASE \/ CreateSettlementRead(c) \/ CreateSettlementCommit(c)
           \/ PayRead(c) \/ MutateRead(c) \/ MutateCommit(c) \/ CloseRead(c)
           \/ Reopen(c) \/ EditLoad(c) \/ EditRead(c) \/ EditVoid(c)
           \/ EditClear(c) \/ EditWrite(c) \/ VoidLoad(c)
           \/ VoidSettlement(c) \/ VoidCommit(c) \/ SettleLoad(c)
           \/ SettleCommit(c) \/ OrderLoad(c) \/ OrderCreate(c)
           \/ OrderCancelLoad(c) \/ OrderCancel(c) \/ DeadlockVictim(c)
           \/ Crash(c)
  BY <1>1 DEF CreateSettlementRead, CreateSettlementCommit, PayRead,
       MutateRead, MutateCommit, CloseRead, Reopen, EditLoad, EditRead,
       EditVoid, EditClear, EditWrite, VoidLoad, VoidSettlement, VoidCommit,
       SettleLoad, SettleCommit, OrderLoad, OrderCreate, OrderCancelLoad,
       OrderCancel, DeadlockVictim, Crash, FactsRecordMoney, bill, Rollback
<1>2. CASE PayCommit(c)
  BY <1>2 DEF PayCommit, FactsRecordMoney, Rollback, bill
<1>3. CASE CloseCommit(c)
  BY <1>3 DEF CloseCommit, FactsRecordMoney, Rollback, bill
<1>4. CASE EditChild(c)
  BY <1>4 DEF EditChild, FactsRecordMoney
<1>5. CASE OrderComplete(c)
  BY <1>5 DEF OrderComplete, FactsRecordMoney
<1> QED
  BY <1>1, <1>2, <1>3, <1>4, <1>5 DEF Step, Request, Continue

LEMMA SettlementBalancedStep ==
    ASSUME IInv, NEW c \in Clients, Step(c)
    PROVE  SettlementBalanced'
<1> USE DEF IInv, TypeOK, CheckTypeOK, RowsTypeOK, BillTypeOK, LocksTypeOK,
            HandlersTypeOK, SettlementType, ArgType
<1>1. CASE \/ CreateSettlementRead(c) \/ PayRead(c) \/ MutateRead(c)
           \/ CloseRead(c) \/ Reopen(c) \/ EditLoad(c) \/ EditRead(c)
           \/ EditClear(c) \/ EditWrite(c) \/ VoidLoad(c)
           \/ VoidSettlement(c) \/ SettleLoad(c) \/ SettleCommit(c)
           \/ OrderLoad(c) \/ OrderCreate(c) \/ OrderComplete(c)
           \/ OrderCancelLoad(c) \/ OrderCancel(c) \/ DeadlockVictim(c)
           \/ Crash(c)
  BY <1>1 DEF CreateSettlementRead, PayRead, MutateRead, CloseRead, Reopen,
       EditLoad, EditRead, EditClear, EditWrite, VoidLoad, VoidSettlement,
       SettleLoad, SettleCommit, OrderLoad, OrderCreate, OrderComplete,
       OrderCancelLoad, OrderCancel, DeadlockVictim, Crash, SettlementBalanced,
       Balanced, Rollback, bill
<1>2. CASE CreateSettlementCommit(c)
  BY BumpType, <1>2 DEF CreateSettlementCommit, SettlementBalanced, Balanced,
       Rollback, CommitsSeeWhatWasRead, SeesWhatItRead, LocalsPresent,
       Voidable, Exists, bill
<1>3. CASE PayCommit(c)
  <2> DEFINE t == arg[c].sid
             newDue == arg[c].due - arg[c].amt
             newState == IF newDue = 0 THEN "PAID" ELSE "PARTIALLY_PAID"
  <2>1. SUFFICES ASSUME NEW s \in Ids PROVE Balanced(s)'
    BY DEF SettlementBalanced
  <2>2. /\ Balanced(s) /\ t \in Ids
        /\ settlement[t].due = arg[c].due /\ arg[c].amt \in 1..arg[c].due
    BY <1>3 DEF SettlementBalanced, CommitsSeeWhatWasRead, SeesWhatItRead,
                PayCommit, LocalsPresent
  <2>3. CASE settlement' = settlement /\ paid' = paid
    BY <2>2, <2>3 DEF Balanced
  <2>4. CASE /\ settlement' = [settlement EXCEPT ![t].due = newDue,
                                                ![t].state = newState]
             /\ paid' = [paid EXCEPT ![t] = paid[t] + arg[c].amt]
    <3>1. CASE s = t
      <4>1. /\ settlement'[s].due = newDue
            /\ settlement'[s].total = settlement[s].total
        BY <2>4, <3>1
      <4>3. settlement'[s].state = newState
        BY <2>4, <3>1
      <4>4. paid'[s] = paid[s] + arg[c].amt
        BY <2>4, <3>1 DEF RowsTypeOK
      <4>2. paid[s] + settlement[s].due = settlement[s].total
        BY <2>2 DEF Balanced
      <4> QED BY <2>2, <3>1, <4>1, <4>2, <4>3, <4>4 DEF Balanced
    <3>2. CASE s # t
      BY <2>2, <2>4, <3>2 DEF Balanced
    <3> QED BY <3>1, <3>2
  <2>5. CASE Rollback(c)
    BY <2>3, <2>5 DEF Rollback
  <2>6. CASE ~Rollback(c)
    <3>1. /\ settlement' = [settlement EXCEPT ![t].due = newDue,
                                             ![t].state = newState]
          /\ paid' = [paid EXCEPT ![t] = paid[t] + arg[c].amt]
      BY <1>3, <2>6 DEF PayCommit
    <3> QED BY <2>4, <3>1
  <2> QED BY <2>5, <2>6
<1>4. CASE MutateCommit(c)
  <2> DEFINE t == arg[c].sid
  <2>1. SUFFICES ASSUME NEW s \in Ids PROVE Balanced(s)'
    BY DEF SettlementBalanced
  <2>2. Balanced(s) /\ (t \in Ids => Balanced(t)) /\ SeesWhatItRead(c)
    BY DEF SettlementBalanced, CommitsSeeWhatWasRead
  <2>3. CASE s = t
    BY <1>4, <2>2, <2>3 DEF MutateCommit, Balanced, Rollback, SeesWhatItRead,
           CurrentUnpaid, CurrentAlive, LocalsPresent, ZeroValue
  <2>4. CASE s # t
    BY <1>4, <2>2, <2>4 DEF MutateCommit, Balanced, Rollback, SeesWhatItRead,
           CurrentUnpaid, CurrentAlive, LocalsPresent, ZeroValue
  <2> QED BY <2>3, <2>4
<1>5. CASE CloseCommit(c)
  <2> DEFINE t == arg[c].sid
  <2>1. SUFFICES ASSUME NEW s \in Ids PROVE Balanced(s)'
    BY DEF SettlementBalanced
  <2>2. /\ Balanced(s) /\ paid' = paid
        /\ t \in Ids /\ (settlement[t].state = "PAID" \/ ZeroValue(t))
    BY <1>5 DEF SettlementBalanced, CommitsSeeWhatWasRead, SeesWhatItRead,
                CloseCommit, Rollback
  <2>3. CASE settlement' = settlement
    BY <2>2, <2>3 DEF Balanced
  <2>4. CASE settlement' = [settlement EXCEPT ![t].state = "CLOSED",
                                              ![t].due = 0]
    <3>1. CASE s = t
      <4>1. settlement'[s].state = "CLOSED" /\ settlement'[s].due = 0
            /\ settlement'[s].total = settlement[s].total
        BY <2>4, <3>1
      <4>2. paid[s] = settlement[s].total
        BY <2>2, <3>1 DEF Balanced, ZeroValue
      <4> QED BY <2>2, <4>1, <4>2 DEF Balanced
    <3>2. CASE s # t
      BY <2>2, <2>4, <3>2 DEF Balanced
    <3> QED BY <3>1, <3>2
  <2> QED BY <1>5, <2>3, <2>4 DEF CloseCommit, Rollback
<1>6. CASE EditChild(c)
  BY <1>6 DEF EditChild, SettlementBalanced, Balanced, CommitsSeeWhatWasRead,
       SeesWhatItRead, LocalsPresent, Voidable, Exists, Touch
<1>7. CASE EditVoid(c)
  BY <1>7 DEF EditVoid, SettlementBalanced, Balanced, CommitsSeeWhatWasRead,
       SeesWhatItRead, LocalsPresent, Voidable, bill
<1>8. CASE VoidCommit(c)
  BY BumpType, <1>8 DEF VoidCommit, SettlementBalanced, Balanced, Rollback,
       CommitsSeeWhatWasRead, SeesWhatItRead, LocalsPresent, Voidable, bill
<1> QED
  BY <1>1, <1>2, <1>3, <1>4, <1>5, <1>6, <1>7, <1>8 DEF Step, Request, Continue

\* Whoever holds the lock of the check sees it unchanged by the others.
LEMMA CheckFrame ==
    ASSUME IInv, NEW c \in Clients, Step(c),
           NEW d \in Clients \ {c}, checkLock = d
    PROVE  UNCHANGED <<status, version, current, paid, checkLock>>
<1> USE DEF IInv, TypeOK, LocksTypeOK
<1>1. CASE \/ CreateSettlementRead(c) \/ CreateSettlementCommit(c)
           \/ PayRead(c) \/ PayCommit(c) \/ MutateRead(c) \/ MutateCommit(c)
           \/ CloseRead(c)
  BY ConstantsAssumption, <1>1 DEF CreateSettlementRead,
       CreateSettlementCommit, PayRead, PayCommit, MutateRead, MutateCommit,
       CloseRead, Rollback, ReleaseLocks, LockCheck, check, bill,
       CommitsSeeWhatWasRead, SeesWhatItRead, LockRow
<1>2. CASE \/ CloseCommit(c) \/ Reopen(c) \/ EditChild(c) \/ EditRead(c)
           \/ EditVoid(c) \/ EditClear(c) \/ EditWrite(c)
  BY ConstantsAssumption, <1>2 DEF CloseCommit, Reopen, EditChild, EditRead,
       EditVoid, EditClear, EditWrite, Rollback, ReleaseLocks, check, bill,
       CommitsSeeWhatWasRead, SeesWhatItRead, locks
<1>3. CASE \/ VoidLoad(c) \/ VoidSettlement(c) \/ VoidCommit(c)
           \/ SettleLoad(c) \/ SettleCommit(c) \/ OrderLoad(c)
           \/ OrderCreate(c)
  BY ConstantsAssumption, <1>3 DEF VoidLoad, VoidSettlement, VoidCommit,
       SettleLoad, SettleCommit, OrderLoad, OrderCreate, Rollback,
       ReleaseLocks, locks, check, bill, CommitsSeeWhatWasRead, SeesWhatItRead,
       LockRow
<1>4. CASE \/ OrderComplete(c) \/ OrderCancelLoad(c) \/ OrderCancel(c)
           \/ DeadlockVictim(c) \/ Crash(c)
  BY ConstantsAssumption, <1>4 DEF OrderComplete, OrderCancelLoad, OrderCancel,
       DeadlockVictim, Crash, Rollback, ReleaseLocks, locks, check, bill,
       CommitsSeeWhatWasRead, SeesWhatItRead
<1>5. CASE EditLoad(c)
  BY <1>5, EditLoadMoves DEF check, locks
<1> QED
  BY <1>1, <1>2, <1>3, <1>4, <1>5 DEF Step, Request, Continue

\* Whoever holds the lock of a settlement sees it unchanged by the others.
LEMMA RowFrame ==
    ASSUME IInv, NEW c \in Clients, Step(c),
           NEW d \in Clients \ {c}, NEW s \in Ids, rowLock[s] = d, Exists(s)
    PROVE  /\ settlement'[s].state = settlement[s].state
           /\ settlement'[s].total = settlement[s].total
           /\ settlement'[s].due = settlement[s].due
           /\ paid'[s] = paid[s] /\ rowLock'[s] = d
<1> USE DEF IInv, TypeOK, CheckTypeOK, RowsTypeOK, BillTypeOK, LocksTypeOK,
            HandlersTypeOK, SettlementType, ArgType
<1>1. CASE \/ CreateSettlementRead(c) \/ MutateRead(c) \/ CloseRead(c)
           \/ Reopen(c) \/ EditRead(c) \/ EditClear(c) \/ EditWrite(c)
           \/ VoidLoad(c) \/ SettleLoad(c)
  BY ConstantsAssumption, <1>1 DEF CreateSettlementRead, MutateRead, CloseRead,
       Reopen, EditRead, EditClear, EditWrite, VoidLoad, SettleLoad, Rollback,
       ReleaseLocks, locks, bill
<1>2. CASE \/ SettleCommit(c) \/ OrderLoad(c) \/ OrderCreate(c)
           \/ OrderComplete(c) \/ OrderCancelLoad(c) \/ OrderCancel(c)
           \/ DeadlockVictim(c) \/ Crash(c)
  BY ConstantsAssumption, <1>2 DEF SettleCommit, OrderLoad, OrderCreate,
       OrderComplete, OrderCancelLoad, OrderCancel, DeadlockVictim, Crash,
       Rollback, ReleaseLocks, locks, bill
<1>3. CASE CreateSettlementCommit(c)
  BY ConstantsAssumption, <1>3 DEF CreateSettlementCommit, Rollback,
       ReleaseLocks, check, bill, CommitsSeeWhatWasRead, SeesWhatItRead,
       Exists, LocalsPresent
<1>4. CASE PayRead(c)
  BY ConstantsAssumption, <1>4 DEF PayRead, Rollback, ReleaseLocks, LockRow,
       check, bill, CommitsSeeWhatWasRead, SeesWhatItRead, Exists,
       LocalsPresent
<1>5. CASE PayCommit(c)
  BY ConstantsAssumption, <1>5 DEF PayCommit, Rollback, ReleaseLocks, check,
       bill, CommitsSeeWhatWasRead, SeesWhatItRead, LocalsPresent
<1>6. CASE MutateCommit(c)
  BY ConstantsAssumption, <1>6 DEF MutateCommit, Rollback, ReleaseLocks, check,
       bill, CommitsSeeWhatWasRead, SeesWhatItRead, LocalsPresent
<1>7. CASE CloseCommit(c)
  BY ConstantsAssumption, <1>7 DEF CloseCommit, Rollback, ReleaseLocks, check,
       bill, CommitsSeeWhatWasRead, SeesWhatItRead, LocalsPresent
<1>8. CASE EditLoad(c)
  BY <1>8, EditLoadMoves DEF locks
<1>9. CASE EditChild(c)
  BY ConstantsAssumption, <1>9 DEF EditChild, Rollback, ReleaseLocks, locks,
       check, bill, CommitsSeeWhatWasRead, SeesWhatItRead, Exists, Touch,
       LocalsPresent
<1>10. CASE EditVoid(c)
  <2>1. arg[c].sid # s /\ paid' = paid /\ rowLock' = rowLock
    BY <1>10, ConstantsAssumption DEF EditVoid, locks
  <2> QED BY <1>10, <2>1 DEF EditVoid
<1>11. CASE VoidSettlement(c)
  BY ConstantsAssumption, <1>11 DEF VoidSettlement, Rollback, ReleaseLocks,
       LockRow, check, bill, CommitsSeeWhatWasRead, SeesWhatItRead,
       LocalsPresent
<1>12. CASE VoidCommit(c)
  BY ConstantsAssumption, <1>12 DEF VoidCommit, Rollback, ReleaseLocks, check,
       bill, CommitsSeeWhatWasRead, SeesWhatItRead, LocalsPresent
<1> QED
  BY <1>1, <1>2, <1>3, <1>4, <1>5, <1>6, <1>7, <1>8, <1>9, <1>10, <1>11, <1>12
       DEF Step, Request, Continue

\* What closeCheck relies on stays: nothing more is due on a settlement that is
\* paid or of zero value.
LEMMA DueFrame ==
    ASSUME IInv, NEW c \in Clients, Step(c),
           NEW d \in Clients \ {c}, checkLock = d, NEW s \in Ids, Exists(s),
           settlement[s].state = "PAID" \/ ZeroValue(s)
    PROVE  settlement'[s].state = "PAID" \/ ZeroValue(s)'
<1> USE DEF IInv, TypeOK, CheckTypeOK, RowsTypeOK, BillTypeOK, LocksTypeOK,
            HandlersTypeOK, SettlementType, ArgType
<1>1. CASE \/ CreateSettlementRead(c) \/ MutateRead(c) \/ CloseRead(c)
           \/ Reopen(c) \/ EditRead(c) \/ EditClear(c) \/ EditWrite(c)
           \/ VoidLoad(c) \/ SettleLoad(c) \/ SettleCommit(c)
           \/ OrderLoad(c) \/ OrderCreate(c) \/ OrderComplete(c)
           \/ OrderCancelLoad(c) \/ OrderCancel(c) \/ DeadlockVictim(c)
           \/ Crash(c)
  BY <1>1 DEF CreateSettlementRead, MutateRead, CloseRead, Reopen, EditRead,
       EditClear, EditWrite, VoidLoad, SettleLoad, SettleCommit, OrderLoad,
       OrderCreate, OrderComplete, OrderCancelLoad, OrderCancel,
       DeadlockVictim, Crash, Rollback, ZeroValue, bill
<1>2. CASE CreateSettlementCommit(c)
  BY ConstantsAssumption, <1>2 DEF CreateSettlementCommit, Rollback,
       ReleaseLocks, check, bill, CommitsSeeWhatWasRead, SeesWhatItRead,
       SettlementBalanced, Balanced, Exists, LocalsPresent, Voidable, ZeroValue
<1>3. CASE PayRead(c)
  BY ConstantsAssumption, <1>3 DEF PayRead, Rollback, ReleaseLocks, LockRow,
       check, bill, CommitsSeeWhatWasRead, SeesWhatItRead, SettlementBalanced,
       Balanced, Exists, LocalsPresent, Voidable, ZeroValue
<1>4. CASE PayCommit(c)
  BY ConstantsAssumption, <1>4 DEF PayCommit, Rollback, ReleaseLocks, check,
       bill, CommitsSeeWhatWasRead, SeesWhatItRead, SettlementBalanced,
       Balanced, LocalsPresent, Voidable, ZeroValue
<1>5. CASE MutateCommit(c)
  BY ConstantsAssumption, <1>5 DEF MutateCommit, Rollback, ReleaseLocks, check,
       bill, CommitsSeeWhatWasRead, SeesWhatItRead, SettlementBalanced,
       Balanced, LocalsPresent, Voidable, ZeroValue
<1>6. CASE CloseCommit(c)
  BY ConstantsAssumption, <1>6 DEF CloseCommit, Rollback, ReleaseLocks, check,
       bill, CommitsSeeWhatWasRead, SeesWhatItRead, SettlementBalanced,
       Balanced, LocalsPresent, Voidable, ZeroValue
<1>7. CASE EditLoad(c)
  BY <1>7, EditLoadMoves DEF ZeroValue
<1>8. CASE EditChild(c)
  BY ConstantsAssumption, <1>8 DEF EditChild, Rollback, ReleaseLocks, locks,
       check, bill, CommitsSeeWhatWasRead, SeesWhatItRead, SettlementBalanced,
       Balanced, Exists, Touch, LocalsPresent, Voidable, ZeroValue
<1>9. CASE EditVoid(c)
  BY ConstantsAssumption, <1>9 DEF EditVoid, Rollback, ReleaseLocks, locks,
       check, bill, CommitsSeeWhatWasRead, SeesWhatItRead, SettlementBalanced,
       Balanced, LocalsPresent, Voidable, ZeroValue
<1>10. CASE VoidSettlement(c)
  BY ConstantsAssumption, <1>10 DEF VoidSettlement, Rollback, ReleaseLocks,
       LockRow, check, bill, CommitsSeeWhatWasRead, SeesWhatItRead,
       SettlementBalanced, Balanced, LocalsPresent, Voidable, ZeroValue
<1>11. CASE VoidCommit(c)
  BY ConstantsAssumption, <1>11 DEF VoidCommit, Rollback, ReleaseLocks, check,
       bill, CommitsSeeWhatWasRead, SeesWhatItRead, SettlementBalanced,
       Balanced, LocalsPresent, Voidable, ZeroValue
<1> QED
  BY <1>1, <1>2, <1>3, <1>4, <1>5, <1>6, <1>7, <1>8, <1>9, <1>10, <1>11 DEF
       Step, Request, Continue

\* A step that leads to a last step establishes what that last step relies on.
LEMMA OwnStep ==
    ASSUME IInv, NEW c \in Clients, Step(c)
    PROVE  SeesWhatItRead(c)'
<1> USE DEF IInv, TypeOK, CheckTypeOK, RowsTypeOK, BillTypeOK, LocksTypeOK,
            HandlersTypeOK, SettlementType, ArgType
<1>1. CASE \/ CreateSettlementCommit(c) \/ PayCommit(c) \/ MutateCommit(c)
           \/ CloseCommit(c) \/ Reopen(c) \/ EditChild(c) \/ EditRead(c)
  BY ConstantsAssumption, <1>1 DEF CreateSettlementCommit, PayCommit,
       MutateCommit, CloseCommit, Reopen, EditChild, EditRead, SeesWhatItRead,
       Goto, Finish, Rollback, NoArg, Voidable, Start, locks
<1>2. CASE \/ EditVoid(c) \/ EditClear(c) \/ EditWrite(c)
           \/ VoidSettlement(c) \/ VoidCommit(c) \/ SettleLoad(c)
           \/ SettleCommit(c)
  BY ConstantsAssumption, <1>2 DEF EditVoid, EditClear, EditWrite,
       VoidSettlement, VoidCommit, SettleLoad, SettleCommit, SeesWhatItRead,
       Goto, Finish, NoArg, Voidable, locks, LockRow, Rollback, Start
<1>3. CASE \/ OrderLoad(c) \/ OrderCreate(c) \/ OrderComplete(c)
           \/ OrderCancelLoad(c) \/ OrderCancel(c) \/ DeadlockVictim(c)
           \/ Crash(c)
  BY ConstantsAssumption, <1>3 DEF OrderLoad, OrderCreate, OrderComplete,
       OrderCancelLoad, OrderCancel, DeadlockVictim, Crash, SeesWhatItRead,
       Goto, NoArg, Start, Voidable, locks, Finish, Rollback
<1>4. CASE CreateSettlementRead(c)
  <2>1. PICK ver \in 1..version :
           /\ status = "OPEN" /\ version = ver
           /\ Goto(c, "csCommit",
                   [NoArg EXCEPT !.ver = ver, !.amt = BillTotal])
    BY <1>4 DEF CreateSettlementRead
  <2>2. pc'[c] = "csCommit" /\ arg'[c].ver = ver
    BY <2>1 DEF Goto, NoArg
  <2>3. checkLock' = c /\ UNCHANGED check
    BY <1>4 DEF CreateSettlementRead, LockCheck
  <2> QED BY <2>1, <2>2, <2>3 DEF SeesWhatItRead, check
<1>5. CASE PayRead(c)
  <2>1. PICK s \in Ids, ver \in 1..version :
           /\ Exists(s) /\ LockRow(c, s) /\ AssertCurrentSettlement(s)
           /\ \E a \in PayAmounts(s) :
                Goto(c, "payCommit", [NoArg EXCEPT !.sid = s, !.ver = ver,
                                         !.amt = a, !.due = settlement[s].due])
    BY <1>5 DEF PayRead
  <2>2. PICK a \in PayAmounts(s) :
           Goto(c, "payCommit", [NoArg EXCEPT !.sid = s, !.ver = ver,
                                    !.amt = a, !.due = settlement[s].due])
    BY <2>1
  <2>3. /\ pc'[c] = "payCommit" /\ arg'[c].sid = s
        /\ arg'[c].amt = a /\ arg'[c].due = settlement[s].due
    BY <2>2 DEF Goto, NoArg
  <2>4. settlement[s].state \in {"CALCULATED", "PARTIALLY_PAID"}
    BY <2>1 DEF Exists, AssertCurrentSettlement, States
  <2>5. rowLock'[s] = c /\ settlement' = settlement
    BY <1>5, <2>1 DEF PayRead, LockRow
  <2> QED BY <2>3, <2>4, <2>5 DEF SeesWhatItRead, PayAmounts
<1>6. CASE MutateRead(c)
  <2>1. PICK ver \in 1..version, a \in {-1, 0, 1} :
           /\ status = "OPEN" /\ version = ver /\ CurrentUnpaid
           /\ Goto(c, "mutCommit",
                   [NoArg EXCEPT !.ver = ver, !.amt = a, !.sid = current])
    BY <1>6 DEF MutateRead
  <2>2. pc'[c] = "mutCommit" /\ arg'[c].ver = ver /\ arg'[c].sid = current
    BY <2>1 DEF Goto, NoArg
  <2>3. checkLock' = c /\ UNCHANGED <<check, paid>>
    BY <1>6 DEF MutateRead, LockCheck
  <2> QED BY <2>1, <2>2, <2>3 DEF SeesWhatItRead, CurrentUnpaid, check
<1>7. CASE CloseRead(c)
  <2>1. /\ status = "OPEN" /\ current # Null /\ Closable(current)
        /\ checkLock' = c /\ UNCHANGED <<check, settlement>>
        /\ Goto(c, "closeCommit", [NoArg EXCEPT !.sid = current])
    BY <1>7 DEF CloseRead, LockCheck
  <2>2. pc'[c] = "closeCommit" /\ arg'[c].sid = current
    BY <2>1 DEF Goto, NoArg
  <2>3. settlement[current].state = "PAID" \/ ZeroValue(current)
    BY <2>1 DEF Closable, CurrentAlive
  <2> QED BY <2>1, <2>2, <2>3 DEF SeesWhatItRead, ZeroValue, check
<1>8. CASE EditLoad(c)
  <2>1. pc'[c] \in {"editChild", "editRead", "editWrite"}
    BY <1>8, EditLoadMoves DEF Goto
  <2> QED BY <2>1 DEF SeesWhatItRead
<1>9. CASE VoidLoad(c)
  <2>1. /\ pc'[c] = IF current # Null THEN "voidSettlement" ELSE "voidCommit"
        /\ arg'[c].sid = current
    BY <1>9 DEF VoidLoad, Goto, NoArg
  <2> QED BY <2>1 DEF SeesWhatItRead
<1> QED
  BY <1>1, <1>2, <1>3, <1>4, <1>5, <1>6, <1>7, <1>8, <1>9 DEF Step, Request,
       Continue

LEMMA OnlyOwnHandlerMoves ==
    ASSUME IInv, NEW c \in Clients, Step(c),
           NEW d \in Clients \ {c}
    PROVE  pc'[d] = pc[d] /\ arg'[d] = arg[d]
<1> USE DEF IInv, TypeOK, HandlersTypeOK
<1>1. CASE \/ CreateSettlementRead(c) \/ CreateSettlementCommit(c)
           \/ PayRead(c) \/ PayCommit(c) \/ MutateRead(c) \/ MutateCommit(c)
           \/ CloseRead(c) \/ CloseCommit(c) \/ Reopen(c) \/ EditLoad(c)
           \/ EditChild(c) \/ EditRead(c) \/ EditVoid(c) \/ EditClear(c)
           \/ EditWrite(c) \/ VoidLoad(c) \/ VoidSettlement(c)
           \/ VoidCommit(c) \/ SettleLoad(c) \/ SettleCommit(c)
           \/ OrderLoad(c) \/ OrderCreate(c) \/ OrderComplete(c)
           \/ OrderCancelLoad(c) \/ OrderCancel(c) \/ DeadlockVictim(c)
           \/ Crash(c)
  BY EditLoadMoves, <1>1 DEF CreateSettlementRead, CreateSettlementCommit,
       PayRead, PayCommit, MutateRead, MutateCommit, CloseRead, CloseCommit,
       Reopen, EditLoad, EditChild, EditRead, EditVoid, EditClear, EditWrite,
       VoidLoad, VoidSettlement, VoidCommit, SettleLoad, SettleCommit,
       OrderLoad, OrderCreate, OrderComplete, OrderCancelLoad, OrderCancel,
       DeadlockVictim, Crash, Goto, Finish, Rollback
<1> QED
  BY <1>1 DEF Step, Request, Continue

LEMMA CommitsStep ==
    ASSUME IInv, NEW c \in Clients, Step(c)
    PROVE  CommitsSeeWhatWasRead'
<1>1. SUFFICES ASSUME NEW d \in Clients PROVE SeesWhatItRead(d)'
  BY DEF CommitsSeeWhatWasRead
<1>2. CASE d = c
  BY <1>2, OwnStep
<1>3. CASE d # c
  <2>1. PICK s \in Ids \cup {Null} : s = arg[d].sid
    BY DEF IInv, TypeOK, HandlersTypeOK, ArgType
  <2>2. SeesWhatItRead(d) /\ pc'[d] = pc[d] /\ arg'[d] = arg[d]
    BY <1>3, OnlyOwnHandlerMoves DEF IInv, CommitsSeeWhatWasRead
  <2>3. CASE pc[d] \in {"csCommit", "mutCommit", "closeCommit"}
    <3>1. checkLock = d
      BY <2>1, <2>2, <2>3 DEF SeesWhatItRead
    <3>2. UNCHANGED <<status, version, current, paid, checkLock>>
      BY <1>3, <3>1, CheckFrame
    <3>3. CASE pc[d] # "closeCommit"
      BY <2>1, <2>2, <2>3, <3>2, <3>3 DEF SeesWhatItRead, CurrentUnpaid
    <3>4. CASE pc[d] = "closeCommit"
      <4>1. /\ s \in Ids /\ s = current /\ s # Null
            /\ settlement[s].state = "PAID" \/ ZeroValue(s)
        BY <2>1, <2>2, <3>4 DEF SeesWhatItRead
      <4>2. Exists(s)
        BY <4>1 DEF IInv, CurrentAlive, Exists
      <4>3. settlement'[s].state = "PAID" \/ ZeroValue(s)'
        BY <1>3, <3>1, <4>1, <4>2, DueFrame
      <4> QED BY <2>1, <2>2, <3>2, <3>4, <4>1, <4>3 DEF SeesWhatItRead,
             ZeroValue
    <3> QED BY <3>3, <3>4
  <2>4. CASE pc[d] = "payCommit" \/ (pc[d] = "voidCommit" /\ s # Null)
    <3>1. /\ s \in Ids /\ rowLock[s] = d /\ Exists(s)
      BY <2>1, <2>2, <2>4 DEF IInv, LocalsPresent, SeesWhatItRead, Exists,
             Voidable
    <3>2. /\ settlement'[s].state = settlement[s].state
          /\ settlement'[s].due = settlement[s].due
          /\ paid'[s] = paid[s] /\ rowLock'[s] = d
      BY <1>3, <3>1, RowFrame
    <3> QED BY <2>1, <2>2, <2>4, <3>2 DEF SeesWhatItRead, Voidable
  <2>5. CASE pc[d] = "voidCommit" /\ s = Null
    BY <2>1, <2>2, <2>5 DEF SeesWhatItRead
  <2>6. CASE pc[d] \notin {"csCommit", "mutCommit", "closeCommit", "payCommit",
                          "voidCommit"}
    BY <2>1, <2>2, <2>6 DEF SeesWhatItRead
  <2> QED BY <2>3, <2>4, <2>5, <2>6
<1> QED BY <1>2, <1>3

-----------------------------------------------------------------------------
(* The inductive invariant. *)

\* IInv is inductive.
LEMMA InvStep == IInv /\ [Next]_vars => IInv'
<1> SUFFICES ASSUME IInv, [Next]_vars PROVE IInv'
  OBVIOUS
<1>1. CASE Next
  <2>1. PICK c \in Clients : Step(c)
    BY <1>1 DEF Next
  <2>2. TypeOK' /\ SettlementBalanced' /\ CommitsSeeWhatWasRead'
    BY <2>1, TypeStep, SettlementBalancedStep, CommitsStep
  <2>3. LocalsPresent' /\ RowLockHolders' /\ CurrentAlive' /\ FactsRecordMoney'
    BY <2>1, LocalsStep, RowLockHoldersStep, CurrentAliveStep,
           FactsRecordMoneyStep
  <2> QED BY <2>2, <2>3 DEF IInv
<1>2. CASE UNCHANGED vars
  <2>1. TypeOK'
    BY <1>2 DEF IInv, TypeOK, CheckTypeOK, RowsTypeOK, BillTypeOK, LocksTypeOK,
                HandlersTypeOK, vars, check, bill, locks
  <2>2. SettlementBalanced' /\ FactsRecordMoney' /\ CurrentAlive'
    BY <1>2 DEF IInv, SettlementBalanced, Balanced, FactsRecordMoney,
                CurrentAlive, vars, check, bill
  <2>3. CommitsSeeWhatWasRead'
    BY <1>2 DEF IInv, CommitsSeeWhatWasRead, SeesWhatItRead, CurrentUnpaid,
                ZeroValue, Voidable, vars, check, locks
  <2>4. LocalsPresent' /\ RowLockHolders'
    BY <1>2 DEF IInv, LocalsPresent, RowLockHolders, vars, locks
  <2> QED BY <2>1, <2>2, <2>3, <2>4 DEF IInv
<1> QED BY <1>1, <1>2

\* The inductive invariant holds in every reachable state.
THEOREM Invariance == Spec => []IInv
<1>1. Init => IInv
  BY InitInv
<1>2. IInv /\ [Next]_vars => IInv'
  BY InvStep
<1> QED BY <1>1, <1>2, PTL DEF Spec

\* Every row and every local variable keeps the values of its column.
THEOREM TypeCorrect == Spec => []TypeOK
<1>1. IInv => TypeOK
  BY DEF IInv
<1> QED BY <1>1, Invariance, PTL

\* Total, payments, amount due and state of every settlement always agree.
THEOREM Balance == Spec => []SettlementBalanced
<1>1. IInv => SettlementBalanced
  BY DEF IInv
<1> QED BY <1>1, Invariance, PTL

\* No handler acts at its last step on rows that changed since it read them.
THEOREM NoStaleCommit == Spec => []CommitsSeeWhatWasRead
<1>1. IInv => CommitsSeeWhatWasRead
  BY DEF IInv
<1> QED BY <1>1, Invariance, PTL

-----------------------------------------------------------------------------
(* What no step may do. *)

\* A commercial mutation discards the settlement it looked at, unpaid.
THEOREM TenderSpared == Spec => MutationSparesTender
<1>1. ASSUME IInv, [Next]_vars, NEW c \in Clients, MutateCommit(c)
      PROVE  current = arg[c].sid /\ (current # Null => paid[current] = 0)
  BY <1>1 DEF IInv, CommitsSeeWhatWasRead, SeesWhatItRead, MutateCommit,
              CurrentUnpaid
<1>2. IInv /\ [Next]_vars =>
        [\A c \in Clients :
            MutateCommit(c) /\ version' # version =>
                /\ current = arg[c].sid
                /\ current # Null => paid[current] = 0]_vars
  BY <1>1
<1> QED BY <1>2, Invariance, PTL DEF Spec, MutationSparesTender

\* A check is reopened only when no money was ever recorded on any of its
\* settlements.
THEOREM MoneyNeverErased == Spec => ReopenNeverErasesMoney
<1>1. ASSUME IInv, Next, status = "SETTLED", status' = "OPEN"
      PROVE  \A s \in Ids : paid[s] = 0
  <2>1. PICK c \in Clients : Step(c)
    BY <1>1 DEF Next
  <2>2. Reopen(c)
    BY <1>1, <2>1 DEF Step, Request, Continue, DeadlockVictim, Crash, Rollback,
           check,
         CreateSettlementRead, CreateSettlementCommit, PayRead, PayCommit,
         MutateRead, MutateCommit, CloseRead, CloseCommit, EditLoad, EditChild,
         EditRead, EditVoid, EditClear, EditWrite, VoidLoad, VoidSettlement,
         VoidCommit, SettleLoad, SettleCommit, OrderLoad, OrderCreate,
         OrderComplete, OrderCancelLoad, OrderCancel
  <2> QED BY <1>1, <2>2 DEF Reopen, NoFinancialFacts, IInv, FactsRecordMoney
<1>2. IInv /\ [Next]_vars =>
        [status = "SETTLED" /\ status' = "OPEN" =>
            \A s \in Ids : paid[s] = 0]_vars
  BY <1>1
<1> QED BY <1>2, Invariance, PTL DEF Spec, ReopenNeverErasesMoney

\* The only request that can deadlock with the close of a check is one that
\* voids the check while its settlement is of zero value.
THEOREM CloseDeadlockFree == Spec => []PaidCloseNeverDeadlocks
<1>1. ASSUME IInv PROVE PaidCloseNeverDeadlocks
  <2>1. SUFFICES ASSUME NEW c \in Clients, InDeadlock(c), pc[c] = "closeCommit"
                 PROVE  ZeroValue(arg[c].sid)
    BY DEF PaidCloseNeverDeadlocks
  <2>2. PICK s \in Ids : s = arg[c].sid /\ s # Null
    BY <1>1, <2>1 DEF IInv, TypeOK, HandlersTypeOK, ArgType,
                      CommitsSeeWhatWasRead, SeesWhatItRead
  <2>3. PICK d \in Clients : rowLock[s] = d
    BY <1>1, <2>1, <2>2 DEF InDeadlock, BlockedBy, IInv, TypeOK, LocksTypeOK
  <2>4. pc[d] \in {"payCommit", "voidCommit"} /\ arg[d].sid = s
    BY <1>1, <2>3 DEF IInv, RowLockHolders
  <2>5. settlement[s].state # "PAID"
    BY <1>1, <2>2, <2>4 DEF IInv, CommitsSeeWhatWasRead, SeesWhatItRead,
           Voidable
  <2> QED BY <1>1, <2>1, <2>2, <2>5 DEF IInv, CommitsSeeWhatWasRead,
         SeesWhatItRead
<1> QED BY <1>1, Invariance, PTL

-----------------------------------------------------------------------------
(* GuestCheckout implements SettlementLedger. *)

LEMMA LedgerInitial == Init => Ledger!LedgerInit
BY DEF Init, NoRow, LedgerView, Ledger!LedgerInit, Ledger!NoEntry

\* A step that leaves state, total and payments alone is a stutter.
LEMMA LedgerStutter ==
    ASSUME \A s \in Ids : /\ settlement'[s].state = settlement[s].state
                          /\ settlement'[s].total = settlement[s].total
                          /\ paid'[s] = paid[s]
    PROVE  LedgerView' = LedgerView
BY DEF LedgerView

LEMMA LedgerStep ==
    ASSUME IInv, NEW c \in Clients, Step(c)
    PROVE  Ledger!LedgerNext \/ LedgerView' = LedgerView
<1> USE DEF IInv, TypeOK, RowsTypeOK, SettlementType
<1>1. CASE UNCHANGED <<settlement, paid>>
  BY <1>1, LedgerStutter
<1>2. ASSUME NEW s \in Ids,
             settlement' = [settlement EXCEPT ![s].state = "VOID"],
             paid' = paid,
             settlement[s].state \in {"CALCULATED", "VOID"}, paid[s] = 0
      PROVE  Ledger!Void(s) \/ LedgerView' = LedgerView
  <2>1. CASE settlement[s].state = "VOID"
    BY <1>2, <2>1, LedgerStutter
  <2>2. CASE settlement[s].state = "CALCULATED"
    <3>1. LedgerView' = [LedgerView EXCEPT
                           ![s] = [LedgerView[s] EXCEPT !.state = "VOID"]]
      BY <1>2 DEF LedgerView
    <3>2. LedgerView[s].state = "CALCULATED" /\ LedgerView[s].paid = 0
      BY <1>2, <2>2 DEF LedgerView
    <3> QED BY <3>1, <3>2 DEF Ledger!Void, Ledger!Replace
  <2> QED BY <1>2, <2>1, <2>2
<1>3. CASE CreateSettlementCommit(c) /\ ~UNCHANGED <<settlement, paid>>
  <2> DEFINE s == version + 1
  <2>1. /\ s \in Ids /\ ~Exists(s) /\ paid' = paid
        /\ settlement' = [settlement EXCEPT ![s] =
              [state |-> "CALCULATED", total |-> arg[c].amt,
               due |-> arg[c].amt, changed |-> {}]]
    BY <1>3, BumpType DEF CreateSettlementCommit, Rollback
  <2>2. arg[c].amt \in Nat
    BY <1>3 DEF CreateSettlementCommit, LocalsPresent
  <2>3. paid[s] = 0 /\ settlement[s].state = "NONE"
    BY <2>1 DEF Exists, SettlementBalanced, Balanced
  <2>4. LedgerView' = [LedgerView EXCEPT ![s] =
              [state |-> "CALCULATED", total |-> arg[c].amt, paid |-> 0]]
    BY <2>1, <2>3 DEF LedgerView
  <2>5. LedgerView[s].state = "NONE" /\ LedgerView'[s].total = arg[c].amt
    BY <2>1, <2>3, <2>4 DEF LedgerView
  <2> QED BY <2>1, <2>2, <2>4, <2>5
      DEF Ledger!LedgerNext, Ledger!Calculate, Ledger!Replace
<1>4. CASE PayCommit(c) /\ ~UNCHANGED <<settlement, paid>>
  <2> DEFINE a == arg[c].amt
             newDue == arg[c].due - a
             newState == IF newDue = 0 THEN "PAID" ELSE "PARTIALLY_PAID"
  <2>1. PICK s \in Ids : s = arg[c].sid
    BY <1>4 DEF PayCommit, LocalsPresent, HandlersTypeOK, ArgType
  <2>2. /\ settlement[s].state \in {"CALCULATED", "PARTIALLY_PAID"}
        /\ settlement[s].due = arg[c].due /\ a \in 1..arg[c].due
        /\ paid[s] + settlement[s].due = settlement[s].total
    BY <1>4, <2>1 DEF PayCommit, CommitsSeeWhatWasRead, SeesWhatItRead,
                      SettlementBalanced, Balanced
  <2>3. /\ settlement' = [settlement EXCEPT ![s].due = newDue,
                                           ![s].state = newState]
        /\ paid' = [paid EXCEPT ![s] = paid[s] + a]
    BY <1>4, <2>1 DEF PayCommit, Rollback
  <2>4. LedgerView' = [LedgerView EXCEPT ![s] =
              [state |-> newState, total |-> settlement[s].total,
               paid |-> paid[s] + a]]
    <3> HIDE DEF newState, newDue
    <3> QED BY <2>2, <2>3 DEF LedgerView
  <2>5. /\ LedgerView[s].state = settlement[s].state
        /\ LedgerView[s].total = settlement[s].total
        /\ LedgerView[s].paid = paid[s] /\ LedgerView'[s].paid = paid[s] + a
    BY <2>4 DEF LedgerView
  <2>6. /\ paid[s] < paid[s] + a /\ paid[s] + a <= settlement[s].total
        /\ newState = IF paid[s] + a = settlement[s].total
                        THEN "PAID" ELSE "PARTIALLY_PAID"
    BY <2>2
  <2> QED BY <2>2, <2>4, <2>5, <2>6
      DEF Ledger!LedgerNext, Ledger!Pay, Ledger!Replace
<1>5. CASE MutateCommit(c) /\ ~UNCHANGED <<settlement, paid>>
  <2>1. PICK s \in Ids : s = arg[c].sid /\ s # Null
    BY <1>5 DEF MutateCommit, Rollback, HandlersTypeOK, ArgType
  <2>2. s = current /\ paid[s] = 0
    BY <1>5, <2>1 DEF MutateCommit, CommitsSeeWhatWasRead, SeesWhatItRead,
                      CurrentUnpaid
  <2>3. settlement[s].state \in {"CALCULATED", "VOID"}
    BY <2>1, <2>2 DEF CurrentAlive, SettlementBalanced, Balanced, States
  <2>4. settlement' = [settlement EXCEPT ![s].state = "VOID"] /\ paid' = paid
    BY <1>5, <2>1 DEF MutateCommit, Rollback
  <2> QED BY <1>2, <2>2, <2>3, <2>4 DEF Ledger!LedgerNext
<1>6. CASE EditVoid(c) /\ ~UNCHANGED <<settlement, paid>>
  <2>1. PICK s \in Ids : s = arg[c].sid
    BY <1>6 DEF EditVoid, LocalsPresent, HandlersTypeOK, ArgType
  <2>2. /\ Voidable(s)
        /\ settlement' = [settlement EXCEPT ![s].state = "VOID"]
        /\ paid' = paid
    BY <1>6, <2>1 DEF EditVoid
  <2> QED BY <1>2, <2>2 DEF Ledger!LedgerNext, Voidable
<1>7. CASE VoidCommit(c) /\ ~UNCHANGED <<settlement, paid>>
  <2>1. PICK s \in Ids : s = arg[c].sid /\ s # Null
    BY <1>7 DEF VoidCommit, Rollback, HandlersTypeOK, ArgType
  <2>2. Voidable(s)
    BY <1>7, <2>1 DEF VoidCommit, CommitsSeeWhatWasRead, SeesWhatItRead
  <2>3. settlement' = [settlement EXCEPT ![s].state = "VOID"] /\ paid' = paid
    BY <1>7, <2>1 DEF VoidCommit, Rollback
  <2> QED BY <1>2, <2>2, <2>3 DEF Ledger!LedgerNext, Voidable
<1>8. CASE CloseCommit(c) /\ ~UNCHANGED <<settlement, paid>>
  <2>1. PICK s \in Ids : s = arg[c].sid
    BY <1>8 DEF CloseCommit, CommitsSeeWhatWasRead, SeesWhatItRead,
                HandlersTypeOK, ArgType
  <2>2. settlement[s].state = "PAID" \/ ZeroValue(s)
    BY <1>8, <2>1 DEF CloseCommit, CommitsSeeWhatWasRead, SeesWhatItRead
  <2>3. s = current /\ s # Null /\ Balanced(s)
    BY <1>8, <2>1 DEF CloseCommit, CommitsSeeWhatWasRead, SeesWhatItRead,
                      SettlementBalanced
  <2>4. paid[s] = settlement[s].total
    BY <2>2, <2>3 DEF Balanced, ZeroValue
  <2>5. \/ settlement[s].state = "PAID"
        \/ /\ settlement[s].state \in {"CALCULATED", "VOID"}
           /\ settlement[s].total = 0
    BY <2>2, <2>3 DEF CurrentAlive, Balanced, ZeroValue, States
  <2>6. settlement' = [settlement EXCEPT ![s].state = "CLOSED", ![s].due = 0]
        /\ paid' = paid
    BY <1>8, <2>1 DEF CloseCommit, Rollback
  <2>7. LedgerView' = [LedgerView EXCEPT
                         ![s] = [LedgerView[s] EXCEPT !.state = "CLOSED"]]
    BY <2>6 DEF LedgerView
  <2>8. /\ LedgerView[s].state = settlement[s].state
        /\ LedgerView[s].total = settlement[s].total
        /\ LedgerView[s].paid = paid[s]
    BY DEF LedgerView
  <2> QED BY <2>4, <2>5, <2>7, <2>8
      DEF Ledger!LedgerNext, Ledger!Close, Ledger!Replace
<1>9. CASE EditChild(c)
  <2>1. \A x : Touch(x) =>
           \A s \in Ids : /\ settlement'[s].state = settlement[s].state
                          /\ settlement'[s].total = settlement[s].total
    BY DEF Touch
  <2> QED BY <1>9, <2>1, LedgerStutter DEF EditChild
<1>10. \/ UNCHANGED <<settlement, paid>>
       \/ CreateSettlementCommit(c) \/ PayCommit(c) \/ MutateCommit(c)
       \/ CloseCommit(c) \/ EditVoid(c) \/ VoidCommit(c) \/ EditChild(c)
  BY DEF Step, Request, Continue, DeadlockVictim, Crash, Rollback,
       CreateSettlementRead, PayRead, MutateRead, CloseRead, Reopen, EditLoad,
       EditRead, EditClear, EditWrite, VoidLoad, VoidSettlement, SettleLoad,
       SettleCommit, OrderLoad, OrderCreate, OrderComplete, OrderCancelLoad,
       OrderCancel
<1> QED
  BY <1>1, <1>3, <1>4, <1>5, <1>6, <1>7, <1>8, <1>9, <1>10

\* Every settlement behaves as if the requests worked on it one at a time:
\* GuestCheckout implements SettlementLedger.
THEOREM Serialised == Spec => SettlementsSerialised
<1>1. IInv /\ [Next]_vars => [Ledger!LedgerNext]_LedgerView
  <2> SUFFICES ASSUME IInv, [Next]_vars
               PROVE  Ledger!LedgerNext \/ LedgerView' = LedgerView
    OBVIOUS
  <2>1. CASE Next
    BY <2>1, LedgerStep DEF Next
  <2>2. CASE UNCHANGED vars
    BY <2>2, LedgerStutter DEF vars
  <2> QED BY <2>1, <2>2
<1> QED
  BY <1>1, LedgerInitial, Invariance, PTL
     DEF Spec, SettlementsSerialised, Ledger!LedgerSpec
=============================================================================
