------------------------ MODULE ProviderPaymentProofs ------------------------
(***************************************************************************)
(* Proofs about ProviderPayment, for every set of keys and of clients,     *)
(* every total, every set of amounts and every bound of the version.       *)
(***************************************************************************)
EXTENDS ProviderPayment, TLAPS

-----------------------------------------------------------------------------
(* The inductive invariant *)

\* An answer of the provider says what is so: always when it says that the
\* payment was captured, and otherwise unless a refusal is taken for a failure.
Tells(answer, i) ==
    /\ answer = "CAPTURED" => i = "captured"
    /\ "refusal" \notin Faults =>
          /\ answer = "FAILED" => i \notin {"open", "captured"}
          /\ answer = "CANCELED" => i = "canceled"

\* A handler that asks for a payment, one that has an answer to write, one that
\* finalizes, and those that work on an operation the provider has answered.
Asking == {"process", "charge", "answer"}
Answered == {"answer", "reconciled", "canceled", "webhook"}
Finalizing == {"lookup", "pay", "link", "mark"}
Later == Finalizing \cup {"query", "reconciled", "cancel", "canceled", "webhook"}

\* The version a handler would pay at is one the check has had, and one it has
\* left behind when the operation is paid already.
VersionInv(c) ==
    /\ pc[c] \in {"create"} \cup Asking => arg[c].ver < version
    /\ pc[c] \in {"lookup", "pay", "query", "reconciled"} => arg[c].ver <= version
    /\ pc[c] = "pay" /\ payments[Key(c)] > 0 => arg[c].ver < version

\* What a handler knows of its operation stays so.
KnowledgeInv(c) ==
    /\ pc[c] # "idle" => Key(c) \in Keys
    /\ pc[c] \in Asking =>
          op[Key(c)].state \in {"CREATED", "PROCESSING"} /\ ~op[Key(c)].pid
    /\ pc[c] \in {"process", "charge"} => intent[Key(c)] = "none"
    /\ pc[c] \in Later => op[Key(c)].pid
    /\ pc[c] \in Finalizing => intent[Key(c)] = "captured"
    /\ pc[c] = "link" => payments[Key(c)] > 0
    /\ pc[c] \in Answered =>
          /\ arg[c].answer \in OpStates \ {"NONE", "CREATED"}
          /\ Tells(arg[c].answer, intent[Key(c)])

HandlerInv(c) == VersionInv(c) /\ KnowledgeInv(c)

OneAsker ==
    \A c, d \in Clients :
        pc[c] \in Asking /\ pc[d] \in Asking /\ Key(c) = Key(d) => c = d

OperationInv(k) ==
    /\ op[k].state = "NONE" => ~op[k].pid /\ intent[k] = "none"
    /\ op[k].state \notin {"NONE", "CREATED", "PROCESSING"} => op[k].pid
    /\ op[k].state # "NONE" => op[k].ver < version
    /\ Tells(op[k].state, intent[k])
    /\ payments[k] <= 1
    /\ payments[k] > 0 => intent[k] = "captured"
    /\ op[k].linked => payments[k] > 0

PaymentInv ==
    /\ OneAsker
    /\ \A c \in Clients : HandlerInv(c)
    /\ \A k \in Keys : OperationInv(k)

IInv == TypeOK /\ PaymentInv

-----------------------------------------------------------------------------
(* Types *)

ArgType == [key : Keys \cup {NoKey}, ver : Nat, amount : Nat,
            seen : OpStates, answer : OpStates]
OpType == [state : OpStates, pid : BOOLEAN, recon : BOOLEAN,
           linked : BOOLEAN, amount : Nat, ver : Nat]

HandlerStep(c) ==
    \/ Collect(c) \/ Finalize(c)
    \/ ReconcileLoad(c) \/ ReconcileQuery(c) \/ Reconciled(c)
    \/ CancelLoad(c) \/ CancelAsk(c) \/ Canceled(c)
    \/ WebhookLoad(c) \/ WebhookApply(c)
    \/ Crash(c)

LEMMA NoArgsType == NoArgs \in ArgType
  BY DEF NoArgs, ArgType, OpStates

LEMMA FinalType ==
    /\ DOMAIN Final = {"captured", "failed", "canceled"}
    /\ Final["captured"] = "CAPTURED" /\ Final["failed"] = "FAILED"
    /\ Final["canceled"] = "CANCELED"
  BY DEF Final

\* Every step of a handler takes it to a place, with local variables.
LEMMA Moves ==
    ASSUME TypeOK, NEW c \in Clients, HandlerStep(c)
    PROVE  \E l \in PCs, a \in ArgType : Goto(c, l, a)
<1>0. arg[c] \in ArgType /\ NoArgs \in ArgType
  BY NoArgsType DEF TypeOK, ArgType
<1>1. CASE Finish(c)
  BY <1>0, <1>1 DEF Finish, PCs
<1>2. CASE \E l \in {"claim", "create", "charge", "pay", "link", "mark", "lookup"} :
              Goto(c, l, arg[c])
  BY <1>0, <1>2 DEF PCs
<1>3. CASE CollectLoad(c)
  <2>1. PICK k \in Keys, amount \in Amounts :
           Goto(c, "others", [NoArgs EXCEPT !.key = k, !.ver = version,
                                            !.amount = amount])
    BY <1>3 DEF CollectLoad
  <2>2. [NoArgs EXCEPT !.key = k, !.ver = version, !.amount = amount]
           \in ArgType
    <3>1. version \in Nat /\ amount \in Nat
      BY ProviderPaymentAssumption DEF TypeOK
    <3> QED BY <3>1 DEF NoArgs, ArgType, OpStates
  <2> QED BY <2>1, <2>2 DEF PCs
<1>4. CASE CollectReplay(c) \/ ReconcileLoad(c)
  <2>1. PICK k \in Keys, v \in Nat, l \in {"lookup", "query"} :
           Goto(c, l, [NoArgs EXCEPT !.key = k, !.ver = v])
    <3>1. version \in Nat /\ \A k \in Keys : op[k].ver + 1 \in Nat
      BY ProviderPaymentAssumption DEF TypeOK
    <3> QED BY <1>4, <3>1 DEF CollectReplay, ReconcileLoad
  <2>2. [NoArgs EXCEPT !.key = k, !.ver = v] \in ArgType
    BY DEF NoArgs, ArgType, OpStates
  <2> QED BY <2>1, <2>2 DEF PCs
<1>5. CASE \E l \in {"answer", "reconciled", "canceled"}, a \in OpStates :
              Goto(c, l, [arg[c] EXCEPT !.answer = a])
  <2>1. PICK l \in {"answer", "reconciled", "canceled"}, a \in OpStates :
              Goto(c, l, [arg[c] EXCEPT !.answer = a])
    BY <1>5
  <2>2. [arg[c] EXCEPT !.answer = a] \in ArgType
    BY <1>0 DEF ArgType
  <2> QED BY <2>1, <2>2 DEF PCs
<1>6. CASE CollectCreate(c)
  <2>1. [arg[c] EXCEPT !.amount = 0] \in ArgType
    BY <1>0 DEF ArgType
  <2> QED BY <1>1, <1>6, <2>1 DEF CollectCreate, PCs
<1>7. CASE CollectAnswer(c)
  <2>1. [arg[c] EXCEPT !.ver = @ + 1] \in ArgType
    BY <1>0 DEF ArgType
  <2> QED BY <1>1, <1>7, <2>1 DEF CollectAnswer, PCs
<1>8. CASE CancelLoad(c)
  <2>1. PICK k \in Keys :
           Goto(c, "cancel", [NoArgs EXCEPT !.key = k, !.seen = op[k].state])
    BY <1>8 DEF CancelLoad
  <2>2. op[k].state \in OpStates
    BY DEF TypeOK
  <2>3. [NoArgs EXCEPT !.key = k, !.seen = op[k].state] \in ArgType
    BY <1>0, <2>2 DEF NoArgs, ArgType
  <2> QED BY <2>1, <2>3 DEF PCs
<1>9. CASE WebhookLoad(c)
  <2>1. PICK k \in Keys, a \in OpStates :
           Goto(c, "webhook", [NoArgs EXCEPT !.key = k, !.answer = a])
    BY <1>9, FinalType DEF WebhookLoad, OpStates
  <2>2. [NoArgs EXCEPT !.key = k, !.answer = a] \in ArgType
    BY DEF NoArgs, ArgType, OpStates
  <2> QED BY <2>1, <2>2 DEF PCs
<1>10. CASE CollectOthers(c) \/ CollectClaim(c)
  BY <1>1, <1>2, <1>10 DEF CollectOthers, CollectClaim
<1>11. CASE CollectProcess(c) \/ Finalize(c)
  BY <1>1, <1>2, <1>11
     DEF CollectProcess, Finalize, FinalLookup, FinalPay, FinalLink, FinalMark
<1>12. CASE CollectCharge(c) \/ ReconcileQuery(c) \/ CancelAsk(c)
  <2>1. "CAPTURED" \in OpStates /\ "FAILED" \in OpStates
        /\ "CANCELED" \in OpStates /\ "UNKNOWN" \in OpStates
        /\ "PROCESSING" \in OpStates
    BY DEF OpStates
  <2>2. CASE CollectCharge(c)
    BY <1>5, <2>2 DEF CollectCharge
  <2>3. CASE ReconcileQuery(c)
    BY <1>5, <2>1, <2>3 DEF ReconcileQuery
  <2>4. CASE CancelAsk(c)
    BY <1>5, <2>1, <2>4 DEF CancelAsk, Uncertain
  <2> QED BY <1>12, <2>2, <2>3, <2>4
<1>13. CASE Reconciled(c) \/ Canceled(c) \/ WebhookApply(c) \/ Crash(c)
  BY <1>1, <1>2, <1>13 DEF Reconciled, Canceled, WebhookApply, Crash
<1> QED BY <1>3, <1>4, <1>6, <1>7, <1>8, <1>9, <1>10, <1>11, <1>12, <1>13
     DEF HandlerStep, Collect

LEMMA GotoIs ==
    ASSUME TypeOK, NEW c \in Clients, NEW l, NEW a, Goto(c, l, a)
    PROVE  /\ pc'[c] = l /\ arg'[c] = a
           /\ \A d \in Clients : d # c => pc'[d] = pc[d] /\ arg'[d] = arg[d]
  BY DEF TypeOK, Goto

LEMMA HandlerTypes ==
    ASSUME TypeOK, NEW c \in Clients, HandlerStep(c)
    PROVE  pc' \in [Clients -> PCs] /\ arg' \in [Clients -> ArgType]
<1>1. pc \in [Clients -> PCs] /\ arg \in [Clients -> ArgType]
  BY DEF TypeOK, ArgType
<1> QED BY <1>1, Moves DEF Goto

LEMMA Put ==
    ASSUME TypeOK, NEW k \in Keys, NEW new \in OpType,
           op' = [op EXCEPT ![k] = new]
    PROVE  /\ op' \in [Keys -> OpType] /\ op'[k] = new
           /\ \A j \in Keys : j # k => op'[j] = op[j]
  BY DEF TypeOK, OpType

LEMMA OpOf ==
    TypeOK => op \in [Keys -> OpType]
  BY DEF TypeOK, OpType

-----------------------------------------------------------------------------
(* What the steps of others leave true *)

LEMMA OperationKept ==
    ASSUME IInv, TypeOK', NEW k \in Keys, version' >= version,
           op'[k] = op[k], intent'[k] = intent[k], payments'[k] = payments[k]
    PROVE  OperationInv(k)'
<1>1. op[k].ver \in Nat /\ version \in Nat /\ version' \in Nat
  BY ProviderPaymentAssumption DEF IInv, TypeOK
<1> QED BY <1>1 DEF IInv, PaymentInv, OperationInv, Tells

\* What the provider may do with a payment: one that nobody collects can only be
\* canceled, and one that is over stays as it is.
Advances(k) ==
    /\ intent[k] \notin Uncollected => intent'[k] = intent[k]
    /\ intent[k] = "unread" => intent'[k] \in {"unread", "canceled"}

\* How an operation may change while another handler works on it.
Evolves(k) ==
    /\ op[k].pid => op'[k].pid
    /\ op[k].pid => Advances(k)
    /\ payments'[k] >= payments[k]
    /\ payments'[k] # payments[k] => version' > version

\* And while another handler asks for its payment.
AskedEvolves(k) ==
    /\ op'[k].state \in {"CREATED", "PROCESSING"} /\ ~op'[k].pid
    /\ Advances(k)

LEMMA HandlerKept ==
    ASSUME IInv, TypeOK', NEW d \in Clients, version' >= version,
           pc'[d] = pc[d], arg'[d] = arg[d],
           pc[d] # "idle" => Evolves(Key(d)),
           pc[d] \in Asking => AskedEvolves(Key(d))
    PROVE  HandlerInv(d)'
<1>1. /\ version \in Nat /\ version' \in Nat /\ arg[d].ver \in Nat
      /\ Key(d)' = Key(d)
  BY ProviderPaymentAssumption DEF IInv, TypeOK, Key
<1>2. CASE pc[d] = "idle"
  BY <1>2 DEF HandlerInv, VersionInv, KnowledgeInv, Asking, Finalizing, Later,
              Answered
<1>3. CASE pc[d] # "idle"
  <2> DEFINE k == Key(d)
  <2>1. k \in Keys /\ Evolves(k) /\ VersionInv(d) /\ KnowledgeInv(d)
    BY <1>3 DEF IInv, PaymentInv, HandlerInv, KnowledgeInv
  <2>2. payments[k] \in Nat /\ payments'[k] \in Nat
    BY <2>1 DEF IInv, TypeOK
  <2>3. VersionInv(d)'
    BY <1>1, <2>1, <2>2 DEF VersionInv, Evolves
  <2>4. KnowledgeInv(d)'
    <3>1. pc[d] \in Answered => Tells(arg[d].answer, intent'[k])
      <4>1. CASE intent[k] = "open"
        BY <2>1, <4>1 DEF KnowledgeInv, Tells
      <4>2. CASE intent[k] # "open" /\ pc[d] \in Answered
        <5>1. Advances(k) /\ Tells(arg[d].answer, intent[k])
          BY <2>1, <4>2 DEF KnowledgeInv, Evolves, AskedEvolves, Answered,
                            Asking, Later
        <5> QED BY <4>2, <5>1 DEF Advances, Uncollected, Tells
      <4> QED BY <4>1, <4>2
    <3> QED BY <1>1, <2>1, <2>2, <3>1
         DEF KnowledgeInv, Evolves, AskedEvolves, Advances, Uncollected, Asking,
             Later, Finalizing
  <2> QED BY <2>3, <2>4 DEF HandlerInv
<1> QED BY <1>2, <1>3

\* A step of c that changes only the operation k.
LEMMA StepOn ==
    ASSUME IInv, TypeOK', NEW c \in Clients, NEW k \in Keys, NEW l, NEW a,
           Goto(c, l, a), version' >= version, Evolves(k),
           \A j \in Keys : j # k => /\ op'[j] = op[j]
                                    /\ intent'[j] = intent[j]
                                    /\ payments'[j] = payments[j],
           \/ op[k].pid \/ op[k].state = "NONE"
           \/ pc[c] \in Asking /\ Key(c) = k,
           l \in Asking => a.key = k,
           HandlerInv(c)', OperationInv(k)'
    PROVE  PaymentInv'
<1>1. /\ pc'[c] = l /\ arg'[c] = a
      /\ \A d \in Clients : d # c => pc'[d] = pc[d] /\ arg'[d] = arg[d]
  BY GotoIs DEF IInv
<1>2. \A d \in Clients : d # c /\ pc[d] \in Asking => Key(d) # k
  BY DEF IInv, PaymentInv, OneAsker, HandlerInv, KnowledgeInv
<1>3. OneAsker'
  BY <1>1, <1>2 DEF IInv, PaymentInv, OneAsker, Key
<1>4. \A j \in Keys : OperationInv(j)'
  BY OperationKept
<1>5. ASSUME NEW d \in Clients PROVE HandlerInv(d)'
  <2>1. CASE d = c
    BY <2>1
  <2>2. CASE d # c
    <3>1. pc[d] # "idle" => Key(d) \in Keys /\ KnowledgeInv(d)
      BY DEF IInv, PaymentInv, HandlerInv, KnowledgeInv
    <3>2. pc[d] # "idle" => Evolves(Key(d))
      <4>1. CASE Key(d) = k
        BY <4>1
      <4>2. CASE Key(d) # k /\ pc[d] # "idle"
        BY <3>1, <4>2 DEF Evolves, Advances, IInv, TypeOK
      <4> QED BY <4>1, <4>2
    <3>3. pc[d] \in Asking => AskedEvolves(Key(d))
      BY <1>2, <2>2, <3>1 DEF AskedEvolves, Advances, KnowledgeInv, Asking
    <3> QED BY <1>1, <2>2, <3>2, <3>3, HandlerKept
  <2> QED BY <2>1, <2>2
<1> QED BY <1>3, <1>4, <1>5 DEF PaymentInv

\* A step of c that changes no operation.
LEMMA QuietStep ==
    ASSUME IInv, TypeOK', NEW c \in Clients, NEW l, NEW a, Goto(c, l, a),
           UNCHANGED <<op, intent, payments>>, version' >= version,
           l \in Asking => pc[c] \in Asking /\ a.key = Key(c),
           HandlerInv(c)'
    PROVE  PaymentInv'
<1>1. /\ pc'[c] = l /\ arg'[c] = a
      /\ \A d \in Clients : d # c => pc'[d] = pc[d] /\ arg'[d] = arg[d]
  BY GotoIs DEF IInv
<1>2. OneAsker'
  BY <1>1 DEF IInv, PaymentInv, OneAsker, Key
<1>3. \A j \in Keys : OperationInv(j)'
  BY OperationKept
<1>4. ASSUME NEW d \in Clients PROVE HandlerInv(d)'
  <2>1. CASE d = c
    BY <2>1
  <2>2. CASE d # c
    <3>1. pc[d] # "idle" => Key(d) \in Keys /\ KnowledgeInv(d)
      BY DEF IInv, PaymentInv, HandlerInv, KnowledgeInv
    <3>2. pc[d] # "idle" => Evolves(Key(d))
      BY <3>1 DEF Evolves, Advances, IInv, TypeOK
    <3>3. pc[d] \in Asking => AskedEvolves(Key(d))
      BY <3>1 DEF AskedEvolves, Advances, KnowledgeInv, Asking
    <3> QED BY <1>1, <2>2, <3>2, <3>3, HandlerKept
  <2> QED BY <2>1, <2>2
<1> QED BY <1>2, <1>3, <1>4 DEF PaymentInv

\* The places of the handlers, and the groups of them.
LEMMA Places ==
    /\ Asking = {"process", "charge", "answer"}
    /\ Answered = {"answer", "reconciled", "canceled", "webhook"}
    /\ Finalizing = {"lookup", "pay", "link", "mark"}
    /\ Later = {"lookup", "pay", "link", "mark", "query", "reconciled",
                "cancel", "canceled", "webhook"}
  BY DEF Asking, Answered, Finalizing, Later

LEMMA IdleKept ==
    ASSUME NEW c \in Clients, pc'[c] = "idle"
    PROVE  HandlerInv(c)'
  BY DEF HandlerInv, VersionInv, KnowledgeInv, Asking, Answered, Finalizing,
         Later

LEMMA FinishStep ==
    ASSUME IInv, TypeOK', NEW c \in Clients, Finish(c), version' >= version,
           UNCHANGED <<op, intent, payments>>
    PROVE  PaymentInv'
<1>1. Goto(c, "idle", NoArgs)
  BY DEF Finish
<1>2. pc'[c] = "idle"
  BY <1>1, GotoIs DEF IInv
<1>3. HandlerInv(c)'
  BY <1>2, IdleKept
<1> QED BY <1>1, <1>3, QuietStep DEF Asking

\* A handler that starts with a key and the version that it has seen.
LEMMA LoadStep ==
    ASSUME IInv, TypeOK', NEW c \in Clients, UNCHANGED <<checkout, op, intent>>,
           NEW k \in Keys, NEW l \in {"others", "lookup", "query", "cancel", "webhook"},
           NEW a \in ArgType, Goto(c, l, a), a.key = k,
           l # "others" => op[k].pid,
           l \in {"lookup", "query"} => a.ver <= version,
           l = "lookup" => intent[k] = "captured",
           l = "webhook" => /\ a.answer \in OpStates \ {"NONE", "CREATED"}
                            /\ Tells(a.answer, intent[k])
    PROVE  PaymentInv'
<1>1. pc'[c] = l /\ arg'[c] = a
  BY GotoIs DEF IInv
<1>2. VersionInv(c)'
  BY <1>1 DEF VersionInv, checkout, Asking
<1>3. KnowledgeInv(c)'
  BY <1>1, Places DEF KnowledgeInv, Key, checkout, Tells
<1>4. version' >= version
  BY ProviderPaymentAssumption DEF checkout, IInv, TypeOK
<1> QED BY <1>2, <1>3, <1>4, QuietStep DEF HandlerInv, checkout, Asking

LEMMA LoadSteps ==
    ASSUME IInv, TypeOK', NEW c \in Clients,
           \/ CollectLoad(c) \/ CollectReplay(c) \/ ReconcileLoad(c)
           \/ CancelLoad(c) \/ WebhookLoad(c)
    PROVE  PaymentInv'
<1>0. /\ TypeOK /\ version \in Nat
      /\ \A k \in Keys : OperationInv(k) /\ op[k].ver \in Nat
                         /\ op[k].state \in OpStates
      /\ UNCHANGED <<checkout, op, intent>>
  <2>1. TypeOK /\ \A k \in Keys : OperationInv(k)
    BY DEF IInv, PaymentInv
  <2>2. version \in Nat
    BY <2>1, ProviderPaymentAssumption DEF TypeOK
  <2>3. \A k \in Keys : op[k].ver \in Nat /\ op[k].state \in OpStates
    BY <2>1, OpOf DEF OpType
  <2>4. UNCHANGED <<checkout, op, intent>>
    BY DEF CollectLoad, CollectReplay, ReconcileLoad, CancelLoad, WebhookLoad
  <2> QED BY <2>1, <2>2, <2>3, <2>4
<1>1. CASE CollectLoad(c)
  <2>1. PICK k \in Keys, amount \in Amounts :
           Goto(c, "others", [NoArgs EXCEPT !.key = k, !.ver = version,
                                            !.amount = amount])
    BY <1>1 DEF CollectLoad
  <2> DEFINE a == [NoArgs EXCEPT !.key = k, !.ver = version,
                                 !.amount = amount]
  <2>2. a \in ArgType /\ a.key = k
    <3>1. amount \in Nat
      BY ProviderPaymentAssumption
    <3> QED BY <1>0, <3>1 DEF NoArgs, ArgType, OpStates
  <2> HIDE DEF a
  <2> QED BY <1>0, <2>1, <2>2, LoadStep DEF a
<1>2. CASE CollectReplay(c) \/ ReconcileLoad(c)
  <2>1. PICK k \in Keys, v \in Nat, l \in {"lookup", "query"} :
           /\ Goto(c, l, [NoArgs EXCEPT !.key = k, !.ver = v])
           /\ v <= version /\ op[k].pid
           /\ l = "lookup" => op[k].state = "CAPTURED"
    <3>1. ASSUME NEW k \in Keys, op[k].state # "NONE"
          PROVE  op[k].ver + 1 \in Nat /\ op[k].ver + 1 <= version
      BY <1>0, <3>1 DEF OperationInv
    <3>2. \A k \in Keys : op[k].state \in {"CAPTURED", "UNKNOWN"} => op[k].pid
      BY <1>0 DEF OperationInv
    <3>3. CASE CollectReplay(c)
      <4>1. PICK k \in Keys :
               /\ op[k].state = "CAPTURED"
               /\ Goto(c, "lookup", [NoArgs EXCEPT !.key = k,
                                                   !.ver = op[k].ver + 1])
        BY <3>3 DEF CollectReplay, Finalizable
      <4>2. op[k].ver + 1 \in Nat /\ op[k].ver + 1 <= version /\ op[k].pid
        BY <3>1, <3>2, <4>1
      <4> QED BY <4>1, <4>2
    <3>4. CASE ReconcileLoad(c)
      <4>1. PICK k \in Keys, l \in {"lookup", "query"} :
               /\ op[k].state \in {"CAPTURED", "UNKNOWN"}
               /\ l = "lookup" => op[k].state = "CAPTURED"
               /\ Goto(c, l, [NoArgs EXCEPT !.key = k, !.ver = version])
        BY <3>4 DEF ReconcileLoad, Finalizable
      <4>2. version <= version /\ op[k].pid
        BY <1>0, <3>2, <4>1
      <4> version \in Nat
        BY <1>0
      <4> WITNESS k \in Keys, version \in Nat, l \in {"lookup", "query"}
      <4> QED BY <4>1, <4>2
    <3> QED BY <1>2, <3>3, <3>4
  <2>2. l = "lookup" => intent[k] = "captured"
    BY <1>0, <2>1 DEF OperationInv, Tells
  <2> DEFINE a == [NoArgs EXCEPT !.key = k, !.ver = v]
  <2>3. a \in ArgType /\ a.key = k /\ a.ver = v
    BY <1>0 DEF NoArgs, ArgType, OpStates
  <2>4. Goto(c, l, a)
    BY <2>1
  <2> HIDE DEF a
  <2> QED BY <1>0, <2>1, <2>2, <2>3, <2>4, LoadStep
<1>3. CASE CancelLoad(c)
  <2>1. PICK k \in Keys :
           /\ op[k].pid
           /\ Goto(c, "cancel", [NoArgs EXCEPT !.key = k, !.seen = op[k].state])
    BY <1>3 DEF CancelLoad
  <2> DEFINE a == [NoArgs EXCEPT !.key = k, !.seen = op[k].state]
  <2>2. a \in ArgType /\ a.key = k
    BY <1>0, NoArgsType DEF NoArgs, ArgType
  <2>3. Goto(c, "cancel", a)
    BY <2>1
  <2> HIDE DEF a
  <2> QED BY <1>0, <2>1, <2>2, <2>3, LoadStep
<1>4. CASE WebhookLoad(c)
  <2>1. PICK k \in Keys :
           /\ op[k].pid /\ intent[k] \in DOMAIN Final
           /\ Goto(c, "webhook", [NoArgs EXCEPT !.key = k,
                                                !.answer = Final[intent[k]]])
    BY <1>4 DEF WebhookLoad
  <2> DEFINE a == [NoArgs EXCEPT !.key = k, !.answer = Final[intent[k]]]
  <2>2. /\ Final[intent[k]] \in OpStates \ {"NONE", "CREATED"}
        /\ Tells(Final[intent[k]], intent[k])
    BY <2>1, FinalType DEF OpStates, Tells
  <2>3. a \in ArgType /\ a.key = k /\ a.answer = Final[intent[k]]
    BY <2>2 DEF NoArgs, ArgType, OpStates
  <2>4. Goto(c, "webhook", a)
    BY <2>1
  <2> HIDE DEF a
  <2> QED BY <1>0, <2>1, <2>2, <2>3, <2>4, LoadStep
<1> QED BY <1>1, <1>2, <1>3, <1>4

LEMMA IsGoto ==
    ASSUME IInv, NEW c \in Clients, NEW l, NEW a, Goto(c, l, a)
    PROVE  /\ pc'[c] = l /\ arg'[c] = a
           /\ Key(c)' = a.key
           /\ HandlerInv(c)
           /\ arg[c] \in ArgType /\ arg[c].ver \in Nat
           /\ version \in Nat
<1>1. pc'[c] = l /\ arg'[c] = a /\ HandlerInv(c)
  BY GotoIs DEF IInv, PaymentInv
<1>2. arg[c] \in ArgType
  BY DEF IInv, TypeOK, ArgType
<1>3. version \in Nat
  BY ProviderPaymentAssumption DEF IInv, TypeOK
<1> QED BY <1>1, <1>2, <1>3 DEF Key, ArgType

LEMMA WaitSteps ==
    ASSUME IInv, TypeOK', NEW c \in Clients,
           CollectOthers(c) \/ CollectClaim(c) \/ FinalLookup(c) \/ Crash(c)
    PROVE  PaymentInv'
<1>0. version \in Nat /\ UNCHANGED <<op, intent, payments>>
  BY ProviderPaymentAssumption
     DEF IInv, TypeOK, CollectOthers, CollectClaim, FinalLookup, Crash, checkout
<1>1. CASE Finish(c) /\ version' = version
  BY <1>0, <1>1, FinishStep
<1>2. CASE CollectOthers(c) /\ Goto(c, "claim", arg[c])
  <2>1. pc[c] = "others" /\ version' = version
    BY <1>2 DEF CollectOthers, checkout
  <2>2. HandlerInv(c)'
    BY <1>2, <2>1, IsGoto, Places
       DEF HandlerInv, VersionInv, KnowledgeInv, Key
  <2> QED BY <1>0, <1>2, <2>1, <2>2, QuietStep DEF Asking
<1>3. CASE CollectClaim(c) /\ Goto(c, "create", arg[c])
  <2>1. pc[c] = "claim" /\ version = arg[c].ver /\ version' = version + 1
    BY <1>3, GotoIs, <1>0
       DEF CollectClaim, BumpVersion, Finish, IInv
  <2>2. HandlerInv(c)'
    BY <1>3, <2>1, IsGoto, Places
       DEF HandlerInv, VersionInv, KnowledgeInv, Key
  <2> QED BY <1>0, <1>3, <2>1, <2>2, QuietStep DEF Asking
<1>4. CASE FinalLookup(c)
  <2>1. PICK l \in {"link", "pay"} :
           /\ Goto(c, l, arg[c])
           /\ l = "link" <=> payments[Key(c)] > 0
    BY <1>4 DEF FinalLookup, AlreadyPaid
  <2>2. pc[c] = "lookup" /\ version' = version /\ intent' = intent
        /\ op' = op /\ payments' = payments
    BY <1>4 DEF FinalLookup, checkout
  <2>3. pc'[c] = l /\ arg'[c] = arg[c] /\ Key(c)' = Key(c) /\ HandlerInv(c)
    BY <2>1, IsGoto DEF Key
  <2>4. VersionInv(c)'
    BY <2>1, <2>2, <2>3, Places DEF HandlerInv, VersionInv
  <2>5. KnowledgeInv(c)'
    BY <2>1, <2>2, <2>3, Places DEF HandlerInv, KnowledgeInv
  <2> QED BY <1>0, <2>1, <2>2, <2>4, <2>5, QuietStep DEF Asking, HandlerInv
<1> QED BY <1>0, <1>1, <1>2, <1>3, <1>4
     DEF CollectOthers, CollectClaim, Crash, checkout

LEMMA ReconcileQueryStep ==
    ASSUME IInv, TypeOK', NEW c \in Clients, ReconcileQuery(c)
    PROVE  PaymentInv'
<1>1. PICK a \in {"PROCESSING", "CAPTURED", "FAILED", "CANCELED", "UNKNOWN"} :
         /\ \/ a = CASE intent[Key(c)] = "none" -> "FAILED"
                     [] intent[Key(c)] \in Uncollected -> "PROCESSING"
                     [] OTHER -> Final[intent[Key(c)]]
            \/ a = Uncertain
            \/ a = "FAILED" /\ "refusal" \in Faults
         /\ Goto(c, "reconciled", [arg[c] EXCEPT !.answer = a])
  BY DEF ReconcileQuery
<1>2. /\ pc[c] = "query"
      /\ UNCHANGED <<version, op, intent, payments>>
  BY DEF ReconcileQuery, checkout
<1> DEFINE new == [arg[c] EXCEPT !.answer = a]
<1>3. /\ pc'[c] = "reconciled" /\ arg'[c] = new /\ HandlerInv(c)
      /\ arg[c] \in ArgType /\ version \in Nat
  BY <1>1, IsGoto
<1>4. new.key = Key(c) /\ new.ver = arg[c].ver /\ new.answer = a
      /\ Key(c)' = Key(c)
  BY <1>3 DEF ArgType, Key
<1>5. Key(c) \in Keys
  BY <1>2, <1>3 DEF HandlerInv, KnowledgeInv
<1>6. intent[Key(c)] \in {"none", "open", "unread", "captured", "failed", "canceled"}
  BY <1>5, FinalType DEF IInv, TypeOK
<1>7. Tells(a, intent[Key(c)])
  <2>1. CASE a = Uncertain \/ (a = "FAILED" /\ "refusal" \in Faults)
    BY <2>1 DEF Tells, Uncertain
  <2>2. CASE intent[Key(c)] = "none" /\ a = "FAILED"
    BY <2>2 DEF Tells
  <2>3. CASE intent[Key(c)] \in Uncollected /\ a = "PROCESSING"
    BY <2>3 DEF Tells
  <2>4. CASE /\ intent[Key(c)] \in {"captured", "failed", "canceled"}
             /\ a = Final[intent[Key(c)]]
    BY <2>4, FinalType DEF Tells
  <2>0. \/ a = CASE intent[Key(c)] = "none" -> "FAILED"
                 [] intent[Key(c)] \in Uncollected -> "PROCESSING"
                 [] OTHER -> Final[intent[Key(c)]]
        \/ a = Uncertain
        \/ a = "FAILED" /\ "refusal" \in Faults
    BY <1>1
  <2>5. CASE intent[Key(c)] = "none"
    <3>1. a = "FAILED" \/ a = Uncertain
      BY <2>0, <2>5 DEF Uncollected
    <3> QED BY <2>1, <2>2, <2>5, <3>1
  <2>6. CASE intent[Key(c)] \in Uncollected
    <3>1. a = "PROCESSING" \/ a = Uncertain
             \/ (a = "FAILED" /\ "refusal" \in Faults)
      BY <2>0, <2>6 DEF Uncollected
    <3> QED BY <2>1, <2>3, <2>6, <3>1
  <2>7. CASE intent[Key(c)] \in {"captured", "failed", "canceled"}
    <3>1. a = Final[intent[Key(c)]] \/ a = Uncertain
             \/ (a = "FAILED" /\ "refusal" \in Faults)
      BY <2>0, <2>7 DEF Uncollected
    <3> QED BY <2>1, <2>4, <2>7, <3>1
  <2> QED BY <1>6, <2>5, <2>6, <2>7 DEF Uncollected
<1> HIDE DEF new
<1>8. VersionInv(c)'
  BY <1>2, <1>3, <1>4, Places DEF HandlerInv, VersionInv
<1>9. KnowledgeInv(c)'
  BY <1>2, <1>3, <1>4, <1>7, Places DEF HandlerInv, KnowledgeInv, OpStates
<1>10. Goto(c, "reconciled", new)
  BY <1>1 DEF new
<1> QED BY <1>2, <1>3, <1>8, <1>9, <1>10, QuietStep DEF Asking, HandlerInv

-----------------------------------------------------------------------------
(* The steps that change an operation *)

\* What is known of the operation that a busy handler works on.
LEMMA Working ==
    ASSUME IInv, NEW c \in Clients, pc[c] # "idle"
    PROVE  /\ Key(c) \in Keys /\ OperationInv(Key(c)) /\ HandlerInv(c)
           /\ op[Key(c)] \in OpType /\ op[Key(c)].ver \in Nat
           /\ payments[Key(c)] \in Nat /\ version \in Nat
           /\ arg[c] \in ArgType /\ arg[c].ver \in Nat /\ Key(c) = arg[c].key
           /\ TypeOK
<1>1. Key(c) \in Keys /\ OperationInv(Key(c)) /\ HandlerInv(c) /\ TypeOK
  BY DEF IInv, PaymentInv, HandlerInv, KnowledgeInv
<1>2. op[Key(c)] \in OpType /\ payments[Key(c)] \in Nat
  BY <1>1, OpOf DEF TypeOK
<1>3. version \in Nat /\ arg[c] \in ArgType
  BY <1>1, ProviderPaymentAssumption DEF TypeOK, ArgType
<1> QED BY <1>1, <1>2, <1>3 DEF OpType, ArgType, Key

LEMMA CollectCreateStep ==
    ASSUME IInv, TypeOK', NEW c \in Clients, CollectCreate(c)
    PROVE  PaymentInv'
<1>0. PICK k \in Keys : k = Key(c)
  BY Working DEF CollectCreate
<1>1. pc[c] = "create" /\ UNCHANGED <<version, payments, intent>>
  BY <1>0 DEF CollectCreate, checkout
<1>2. /\ OperationInv(k) /\ HandlerInv(c)
      /\ payments[k] \in Nat /\ version \in Nat
      /\ arg[c] \in ArgType /\ arg[c].ver \in Nat /\ k = arg[c].key /\ TypeOK
  BY <1>0, <1>1, Working
<1>3. CASE Taken(k)
  BY <1>0, <1>1, <1>2, <1>3, FinishStep DEF CollectCreate
<1>4. CASE ~Taken(k)
  <2> DEFINE new == [NoOp EXCEPT !.state = "CREATED", !.amount = arg[c].amount,
                                 !.ver = arg[c].ver]
             a == [arg[c] EXCEPT !.amount = 0]
  <2>1. op[k].state = "NONE" /\ ~op[k].pid /\ intent[k] = "none"
        /\ payments[k] = 0
    BY <1>0, <1>2, <1>4 DEF Taken, OperationInv
  <2>2. /\ new \in OpType /\ new.state = "CREATED" /\ new.pid = FALSE
        /\ new.linked = FALSE /\ new.ver = arg[c].ver
    BY <1>0, <1>2 DEF ArgType, OpType, NoOp, OpStates
  <2>3. op' = [op EXCEPT ![k] = new] /\ Goto(c, "process", a)
    BY <1>0, <1>4 DEF CollectCreate
  <2>4. a.key = k /\ a.ver = arg[c].ver
    BY <1>0, <1>2 DEF ArgType
  <2> HIDE DEF new, a
  <2>5. op'[k] = new /\ \A j \in Keys : j # k => op'[j] = op[j]
    BY <1>0, <1>2, <2>2, <2>3, Put
  <2>6. pc'[c] = "process" /\ arg'[c] = a /\ Key(c)' = k
    BY <1>0, <2>3, <2>4, IsGoto
  <2>7. arg[c].ver < version
    BY <1>0, <1>1, <1>2 DEF HandlerInv, VersionInv
  <2>8. HandlerInv(c)'
    BY <1>0, <1>1, <1>2, <2>1, <2>2, <2>4, <2>5, <2>6, <2>7, Places
       DEF HandlerInv, VersionInv, KnowledgeInv
  <2>9. OperationInv(k)'
    BY <1>0, <1>1, <1>2, <2>1, <2>2, <2>5, <2>7 DEF OperationInv, Tells
  <2>10. Evolves(k)
    BY <1>0, <1>1, <1>2, <2>1 DEF Evolves, Advances
  <2>11. version' >= version
    BY <1>0, <1>1, <1>2
  <2> QED BY <1>0, <1>1, <1>2, <2>1, <2>3, <2>4, <2>5, <2>8, <2>9, <2>10, <2>11, StepOn
<1> QED BY <1>0, <1>3, <1>4

LEMMA CollectProcessStep ==
    ASSUME IInv, TypeOK', NEW c \in Clients, CollectProcess(c)
    PROVE  PaymentInv'
<1>0. PICK k \in Keys : k = Key(c)
  BY Working DEF CollectProcess
<1> DEFINE new == [op[k] EXCEPT !.state = "PROCESSING"]
<1>1. pc[c] = "process" /\ UNCHANGED <<version, payments, intent>>
  BY <1>0 DEF CollectProcess, checkout
<1>2. /\ OperationInv(k) /\ HandlerInv(c)
      /\ op[k] \in OpType /\ payments[k] \in Nat /\ version \in Nat
      /\ arg[c].ver \in Nat /\ k = arg[c].key /\ TypeOK
  BY <1>0, <1>1, Working
<1>3. op' = [op EXCEPT ![k] = new] /\ Goto(c, "charge", arg[c])
  BY <1>0 DEF CollectProcess
<1>4. /\ new \in OpType /\ new.state = "PROCESSING" /\ new.pid = op[k].pid
      /\ new.linked = op[k].linked /\ new.ver = op[k].ver
  BY <1>0, <1>2 DEF OpType, OpStates
<1> HIDE DEF new
<1>5. op'[k] = new /\ \A j \in Keys : j # k => op'[j] = op[j]
  BY <1>0, <1>2, <1>3, <1>4, Put
<1>6. pc'[c] = "charge" /\ arg'[c] = arg[c] /\ Key(c)' = k
  BY <1>0, <1>2, <1>3, IsGoto
<1>7. /\ arg[c].ver < version /\ intent[k] = "none" /\ ~op[k].pid
      /\ op[k].state \in {"CREATED", "PROCESSING"}
  BY <1>0, <1>1, <1>2, Places DEF HandlerInv, VersionInv, KnowledgeInv
<1>8. HandlerInv(c)'
  BY <1>0, <1>1, <1>2, <1>4, <1>5, <1>6, <1>7, Places
     DEF HandlerInv, VersionInv, KnowledgeInv
<1>9. OperationInv(k)'
  BY <1>0, <1>1, <1>2, <1>4, <1>5, <1>7 DEF OperationInv, Tells
<1>10. Evolves(k) /\ version' >= version
  BY <1>0, <1>1, <1>2, <1>7 DEF Evolves, Advances
<1> QED BY <1>0, <1>1, <1>2, <1>3, <1>5, <1>7, <1>8, <1>9, <1>10, StepOn, Places

LEMMA CollectChargeStep ==
    ASSUME IInv, TypeOK', NEW c \in Clients, CollectCharge(c)
    PROVE  PaymentInv'
<1>0. PICK k \in Keys : k = Key(c)
  BY Working DEF CollectCharge
<1>1. pc[c] = "charge" /\ UNCHANGED <<version, payments, op>>
  BY <1>0 DEF CollectCharge, checkout
<1>2. /\ OperationInv(k) /\ HandlerInv(c)
      /\ payments[k] \in Nat /\ version \in Nat
      /\ arg[c] \in ArgType /\ arg[c].ver \in Nat /\ k = arg[c].key /\ TypeOK
  BY <1>0, <1>1, Working
<1>3. PICK i \in {"none", "open", "unread", "captured", "failed"},
           ans \in OpStates :
         /\ \/ ans = "UNKNOWN"
            \/ ans = IF i = "open" THEN "PROCESSING"
                     ELSE IF i = "captured" THEN "CAPTURED" ELSE "FAILED"
         /\ intent' = [intent EXCEPT ![k] = i]
         /\ Goto(c, "answer", [arg[c] EXCEPT !.answer = ans])
  BY <1>0 DEF CollectCharge, Uncertain
<1> DEFINE a == [arg[c] EXCEPT !.answer = ans]
<1>4. a.key = k /\ a.ver = arg[c].ver /\ a.answer = ans
  BY <1>0, <1>2 DEF ArgType
<1>5. Goto(c, "answer", a)
  BY <1>0, <1>3
<1> HIDE DEF a
<1>6. intent'[k] = i /\ \A j \in Keys : j # k => intent'[j] = intent[j]
  BY <1>0, <1>2, <1>3 DEF TypeOK
<1>7. pc'[c] = "answer" /\ arg'[c] = a /\ Key(c)' = k
  BY <1>0, <1>4, <1>5, IsGoto
<1>8. /\ arg[c].ver < version /\ intent[k] = "none" /\ ~op[k].pid
      /\ op[k].state \in {"CREATED", "PROCESSING"}
  BY <1>0, <1>1, <1>2, Places DEF HandlerInv, VersionInv, KnowledgeInv
<1>9. Tells(ans, i) /\ ans \in OpStates \ {"NONE", "CREATED"}
  BY <1>0, <1>3 DEF Tells, OpStates
<1>10. HandlerInv(c)'
  BY <1>0, <1>1, <1>2, <1>4, <1>6, <1>7, <1>8, <1>9, Places
     DEF HandlerInv, VersionInv, KnowledgeInv
<1>11. payments[k] = 0
  BY <1>0, <1>2, <1>8 DEF OperationInv
<1>12. OperationInv(k)'
  BY <1>0, <1>1, <1>2, <1>6, <1>8, <1>11 DEF OperationInv, Tells
<1>13. Evolves(k) /\ version' >= version
  BY <1>0, <1>1, <1>2, <1>8 DEF Evolves, Advances
<1> QED BY <1>0, <1>1, <1>2, <1>4, <1>5, <1>6, <1>10, <1>12, <1>13, StepOn, Places

LEMMA CollectAnswerStep ==
    ASSUME IInv, TypeOK', NEW c \in Clients, CollectAnswer(c)
    PROVE  PaymentInv'
<1>0. PICK k \in Keys : k = Key(c)
  BY Working DEF CollectAnswer
<1> DEFINE ans == arg[c].answer
           new == [op[k] EXCEPT !.state = ans, !.pid = TRUE,
                                !.recon = (ans = "UNKNOWN")]
<1>1. pc[c] = "answer" /\ UNCHANGED <<version, payments, intent>>
  BY <1>0 DEF CollectAnswer, checkout
<1>2. /\ OperationInv(k) /\ HandlerInv(c)
      /\ op[k] \in OpType /\ payments[k] \in Nat /\ version \in Nat
      /\ arg[c] \in ArgType /\ arg[c].ver \in Nat /\ k = arg[c].key /\ TypeOK
  BY <1>0, <1>1, Working
<1>3. op' = [op EXCEPT ![k] = new]
  BY <1>0 DEF CollectAnswer
<1>4. /\ new \in OpType /\ new.state = ans /\ new.pid = TRUE
      /\ new.linked = op[k].linked /\ new.ver = op[k].ver
  BY <1>0, <1>2 DEF OpType, ArgType
<1> HIDE DEF new
<1>5. op'[k] = new /\ \A j \in Keys : j # k => op'[j] = op[j]
  BY <1>0, <1>2, <1>3, <1>4, Put
<1>6. /\ arg[c].ver < version /\ ~op[k].pid
      /\ op[k].state \in {"CREATED", "PROCESSING"}
      /\ Tells(ans, intent[k]) /\ ans \in OpStates \ {"NONE", "CREATED"}
  BY <1>0, <1>1, <1>2, Places DEF HandlerInv, VersionInv, KnowledgeInv
<1>7. op[k].ver \in Nat /\ op[k].ver < version
  BY <1>0, <1>2, <1>6 DEF OperationInv, OpType
<1>8. OperationInv(k)'
  BY <1>0, <1>1, <1>2, <1>4, <1>5, <1>6, <1>7 DEF OperationInv
<1>9. Evolves(k) /\ version' >= version
  BY <1>0, <1>1, <1>2, <1>6 DEF Evolves, Advances
<1>10. PICK l, a :
          /\ l \in {"lookup", "idle"} /\ Goto(c, l, a)
          /\ l = "lookup" => /\ a = [arg[c] EXCEPT !.ver = @ + 1]
                             /\ ans = "CAPTURED"
  BY <1>0 DEF CollectAnswer, Finish, Finalizable
<1>11. l = "lookup" => a.key = k /\ a.ver = arg[c].ver + 1
  BY <1>0, <1>2, <1>10 DEF ArgType
<1>12. pc'[c] = l /\ arg'[c] = a /\ Key(c)' = a.key
  BY <1>0, <1>10, IsGoto
<1>13. HandlerInv(c)'
  <2>1. CASE l = "idle"
    BY <1>0, <1>12, <2>1, IdleKept
  <2>2. CASE l = "lookup"
    <3>1. intent[k] = "captured" /\ arg[c].ver + 1 <= version
      BY <1>0, <1>2, <1>6, <1>10, <2>2 DEF Tells
    <3> QED BY <1>0, <1>1, <1>2, <1>4, <1>5, <1>11, <1>12, <2>2, <3>1, Places
         DEF HandlerInv, VersionInv, KnowledgeInv
  <2> QED BY <1>0, <1>10, <2>1, <2>2
<1> QED BY <1>0, <1>1, <1>2, <1>5, <1>8, <1>9, <1>10, <1>13, StepOn, Places

\* A handler writes an operation that the provider has answered.
LEMMA WriteStep ==
    ASSUME IInv, TypeOK', NEW c \in Clients, NEW k \in Keys, NEW l, NEW a,
           NEW new \in OpType,
           op[k].pid, UNCHANGED <<version, payments, intent>>,
           op' = [op EXCEPT ![k] = new], new.pid, new.ver = op[k].ver,
           new.linked => payments[k] > 0,
           new.state # "NONE", Tells(new.state, intent[k]),
           Goto(c, l, a), l \notin Asking, HandlerInv(c)'
    PROVE  PaymentInv'
<1>1. TypeOK /\ OperationInv(k) /\ payments[k] \in Nat /\ version \in Nat
      /\ op[k].ver \in Nat
  BY OpOf, ProviderPaymentAssumption DEF IInv, PaymentInv, TypeOK, OpType
<1>2. op'[k] = new /\ \A j \in Keys : j # k => op'[j] = op[j]
  BY <1>1, Put
<1>3. op[k].ver < version
  BY <1>1 DEF OperationInv
<1>4. OperationInv(k)'
  BY <1>1, <1>2, <1>3 DEF OperationInv
<1>5. Evolves(k) /\ version' >= version
  BY <1>1, <1>2 DEF Evolves, Advances
<1> QED BY <1>2, <1>4, <1>5, StepOn

LEMMA FinalPayStep ==
    ASSUME IInv, TypeOK', NEW c \in Clients, FinalPay(c)
    PROVE  PaymentInv'
<1>0. PICK k \in Keys : k = Key(c)
  BY Working DEF FinalPay
<1>1. pc[c] = "pay" /\ UNCHANGED <<op, intent>>
  BY DEF FinalPay
<1>2. /\ OperationInv(k) /\ HandlerInv(c)
      /\ op[k] \in OpType /\ op[k].ver \in Nat
      /\ payments[k] \in Nat /\ version \in Nat
      /\ arg[c].ver \in Nat /\ k = arg[c].key /\ TypeOK
  BY <1>0, <1>1, Working
<1>3. /\ op[k].pid /\ intent[k] = "captured"
      /\ payments[k] > 0 => arg[c].ver < version
  BY <1>0, <1>1, <1>2, Places DEF HandlerInv, VersionInv, KnowledgeInv
<1>4. CASE Goto(c, "mark", arg[c]) /\ UNCHANGED <<version, due, payments>>
  <2>1. pc'[c] = "mark" /\ arg'[c] = arg[c] /\ Key(c)' = k
    BY <1>2, <1>4, IsGoto
  <2>2. HandlerInv(c)'
    BY <1>1, <1>3, <1>4, <2>1, Places DEF HandlerInv, VersionInv, KnowledgeInv
  <2> QED BY <1>1, <1>2, <1>4, <2>2, QuietStep, Places
<1>5. CASE /\ CanPay(arg[c].ver, op[k].amount) /\ BumpVersion
           /\ payments' = [payments EXCEPT ![k] = @ + 1]
           /\ \E l \in {"link", "mark"} : Goto(c, l, arg[c])
  <2>1. PICK l \in {"link", "mark"} : Goto(c, l, arg[c])
    BY <1>5
  <2>2. /\ version = arg[c].ver /\ version' = version + 1 /\ payments[k] = 0
        /\ payments'[k] = 1
        /\ \A j \in Keys : j # k => payments'[j] = payments[j]
    BY <1>2, <1>3, <1>5 DEF CanPay, BumpVersion, TypeOK
  <2>3. pc'[c] = l /\ arg'[c] = arg[c] /\ Key(c)' = k
    BY <1>2, <2>1, IsGoto
  <2>4. HandlerInv(c)'
    BY <1>1, <1>3, <2>2, <2>3, Places DEF HandlerInv, VersionInv, KnowledgeInv
  <2>5. OperationInv(k)'
    BY <1>1, <1>2, <1>3, <2>2 DEF OperationInv
  <2>6. Evolves(k) /\ version' >= version
    BY <1>1, <1>2, <2>2 DEF Evolves, Advances
  <2> QED BY <1>1, <1>3, <2>1, <2>2, <2>4, <2>5, <2>6, StepOn, Places
<1> QED BY <1>0, <1>4, <1>5 DEF FinalPay

LEMMA FinalWriteStep ==
    ASSUME IInv, TypeOK', NEW c \in Clients, FinalLink(c) \/ FinalMark(c)
    PROVE  PaymentInv'
<1>0. PICK k \in Keys : k = Key(c)
  BY Working DEF FinalLink, FinalMark
<1>1. /\ pc[c] \in {"link", "mark"} /\ UNCHANGED <<version, payments, intent>>
      /\ FinalLink(c) => pc[c] = "link"
  BY DEF FinalLink, FinalMark, checkout
<1>2. OperationInv(k) /\ HandlerInv(c) /\ op[k] \in OpType
  BY <1>0, <1>1, Working
<1>3. op[k].pid /\ (FinalLink(c) => payments[k] > 0)
  BY <1>0, <1>1, <1>2, Places DEF HandlerInv, KnowledgeInv
<1>4. Goto(c, "idle", NoArgs)
  BY DEF FinalLink, FinalMark, Finish
<1>5. HandlerInv(c)'
  BY <1>4, IsGoto, IdleKept
<1>6. PICK new \in OpType :
         /\ op' = [op EXCEPT ![k] = new] /\ new.pid /\ new.ver = op[k].ver
         /\ new.linked => payments[k] > 0
         /\ new.state = op[k].state
  <2>1. CASE FinalLink(c)
    <3> DEFINE new == [op[k] EXCEPT !.linked = TRUE, !.recon = FALSE]
    <3>1. /\ new \in OpType /\ new.pid = op[k].pid /\ new.ver = op[k].ver
          /\ new.state = op[k].state
      BY <1>2 DEF OpType
    <3>2. op' = [op EXCEPT ![k] = new]
      BY <1>0, <2>1 DEF FinalLink
    <3> HIDE DEF new
    <3> QED BY <1>3, <2>1, <3>1, <3>2
  <2>2. CASE FinalMark(c)
    <3> DEFINE new == [op[k] EXCEPT !.recon = TRUE]
    <3>1. /\ new \in OpType /\ new.pid = op[k].pid /\ new.ver = op[k].ver
          /\ new.state = op[k].state /\ new.linked = op[k].linked
      BY <1>2 DEF OpType
    <3>2. op' = [op EXCEPT ![k] = new]
      BY <1>0, <2>2 DEF FinalMark
    <3> HIDE DEF new
    <3> QED BY <1>2, <1>3, <3>1, <3>2 DEF OperationInv
  <2> QED BY <2>1, <2>2
<1>7. op[k].state # "NONE" /\ Tells(op[k].state, intent[k])
  BY <1>2, <1>3 DEF OperationInv
<1>8. /\ new.state # "NONE" /\ Tells(new.state, intent[k])
      /\ "idle" \notin Asking
  BY <1>6, <1>7, Places
<1> QED BY <1>1, <1>3, <1>4, <1>5, <1>6, <1>8, WriteStep

\* reconcile, cancel and the webhooks write an answer.
LEMMA Written ==
    ASSUME IInv, NEW k \in Keys, op[k].pid,
           NEW ans \in OpStates, Write(k, ans)
    PROVE  \E new \in OpType :
              /\ op' = [op EXCEPT ![k] = new] /\ new.pid /\ new.ver = op[k].ver
              /\ new.linked = op[k].linked /\ new.state = ans
<1> DEFINE new == [op[k] EXCEPT !.state = ans, !.recon = (ans = "UNKNOWN")]
<1>1. op[k] \in OpType
  BY OpOf DEF IInv
<1>2. /\ new \in OpType /\ new.pid = op[k].pid /\ new.ver = op[k].ver
      /\ new.linked = op[k].linked /\ new.state = ans
  BY <1>1 DEF OpType
<1>3. op' = [op EXCEPT ![k] = new]
  BY DEF Write
<1> HIDE DEF new
<1> QED BY <1>2, <1>3

LEMMA AnswerSteps ==
    ASSUME IInv, TypeOK', NEW c \in Clients,
           Reconciled(c) \/ Canceled(c) \/ WebhookApply(c)
    PROVE  PaymentInv'
<1>0. PICK k \in Keys : k = Key(c)
  BY Working DEF Reconciled, Canceled, WebhookApply
<1> DEFINE ans == arg[c].answer
<1>1. /\ pc[c] \in {"reconciled", "canceled", "webhook"}
      /\ UNCHANGED <<version, payments, intent>>
      /\ Reconciled(c) => pc[c] = "reconciled"
  BY DEF Reconciled, Canceled, WebhookApply, checkout
<1>2. /\ OperationInv(k) /\ HandlerInv(c) /\ k = arg[c].key
      /\ arg[c].ver \in Nat /\ version \in Nat
  BY <1>0, <1>1, Working
<1>3. /\ op[k].pid /\ ans \in OpStates \ {"NONE", "CREATED"}
      /\ Tells(ans, intent[k])
      /\ pc[c] = "reconciled" => arg[c].ver <= version
  BY <1>0, <1>1, <1>2, Places DEF HandlerInv, VersionInv, KnowledgeInv
<1>4. CASE Finish(c) /\ UNCHANGED op
  BY <1>1, <1>2, <1>4, FinishStep
<1>5. CASE Write(k, ans)
  <2>1. PICK new \in OpType :
           /\ op' = [op EXCEPT ![k] = new] /\ new.pid /\ new.ver = op[k].ver
           /\ new.linked = op[k].linked /\ new.state = ans
    BY <1>3, <1>5, Written
  <2>2. new.linked => payments[k] > 0
    BY <1>2, <2>1 DEF OperationInv
  <2>3. CASE Finish(c)
    <3>1. Goto(c, "idle", NoArgs)
      BY <2>3 DEF Finish
    <3>2. HandlerInv(c)'
      BY <3>1, IsGoto, IdleKept
    <3>3. /\ new.state # "NONE" /\ Tells(new.state, intent[k])
          /\ "idle" \notin Asking
      BY <1>3, <2>1, Places
    <3> QED BY <1>1, <1>3, <2>1, <2>2, <3>1, <3>2, <3>3, WriteStep
  <2>4. CASE Reconciled(c) /\ ans = "CAPTURED" /\ Goto(c, "lookup", arg[c])
    <3>1. pc'[c] = "lookup" /\ arg'[c] = arg[c] /\ Key(c)' = k
      BY <1>2, <2>4, IsGoto
    <3>2. op'[k].pid
      BY <2>1, Put DEF IInv
    <3>3. arg[c].ver <= version /\ intent[k] = "captured"
      BY <1>1, <1>3, <2>4 DEF Tells
    <3>4. HandlerInv(c)'
      BY <1>1, <3>1, <3>2, <3>3, Places
         DEF HandlerInv, VersionInv, KnowledgeInv
    <3>5. /\ new.state # "NONE" /\ Tells(new.state, intent[k])
          /\ "lookup" \notin Asking
      BY <1>3, <2>1, Places
    <3> QED BY <1>1, <1>3, <2>1, <2>2, <2>4, <3>4, <3>5, WriteStep
  <2> QED BY <1>0, <2>3, <2>4
       DEF Reconciled, Canceled, WebhookApply, Finalizable
<1> QED BY <1>0, <1>4, <1>5 DEF Reconciled, Canceled, WebhookApply

LEMMA CancelAskStep ==
    ASSUME IInv, TypeOK', NEW c \in Clients, CancelAsk(c)
    PROVE  PaymentInv'
<1>0. PICK k \in Keys : k = Key(c)
  BY Working DEF CancelAsk
<1>1. pc[c] = "cancel" /\ UNCHANGED <<version, payments, op>>
  BY DEF CancelAsk, checkout
<1>2. /\ OperationInv(k) /\ HandlerInv(c) /\ arg[c] \in ArgType
      /\ k = arg[c].key /\ version \in Nat /\ payments[k] \in Nat /\ TypeOK
  BY <1>0, <1>1, Working
<1>3. op[k].pid
  BY <1>0, <1>1, <1>2, Places DEF HandlerInv, KnowledgeInv
<1>4. PICK i \in {"none", "open", "unread", "captured", "failed", "canceled"},
           ans \in {"CANCELED", "FAILED", "UNKNOWN"} :
         /\ intent' = [intent EXCEPT ![k] = i]
         /\ (intent[k] \in Uncollected /\ i = "canceled") \/ intent[k] = i
         /\ ans = "CANCELED" => i = "canceled"
         /\ ans = "FAILED" => "refusal" \in Faults
         /\ Goto(c, "canceled", [arg[c] EXCEPT !.answer = ans])
  <2>1. CASE /\ intent[k] \in Uncollected
             /\ intent' = [intent EXCEPT ![k] = "canceled"]
             /\ \E a \in {"CANCELED", Uncertain} :
                   Goto(c, "canceled", [arg[c] EXCEPT !.answer = a])
    <3>1. PICK a \in {"CANCELED", "UNKNOWN"} :
             Goto(c, "canceled", [arg[c] EXCEPT !.answer = a])
      BY <2>1 DEF Uncertain
    <3> QED BY <2>1, <3>1
  <2>2. CASE /\ UNCHANGED intent
             /\ \E a \in {"FAILED", Uncertain} :
                   /\ a = "FAILED" => "refusal" \in Faults
                   /\ Goto(c, "canceled", [arg[c] EXCEPT !.answer = a])
    <3>1. /\ intent' = [intent EXCEPT ![k] = intent[k]]
          /\ intent[k] \in {"none", "open", "unread", "captured", "failed", "canceled"}
      BY <1>2, <2>2, FinalType DEF TypeOK
    <3>2. PICK a \in {"FAILED", "UNKNOWN"} :
             /\ a = "FAILED" => "refusal" \in Faults
             /\ Goto(c, "canceled", [arg[c] EXCEPT !.answer = a])
      BY <2>2 DEF Uncertain
    <3> QED BY <3>1, <3>2
  <2> QED BY <1>0, <2>1, <2>2 DEF CancelAsk
<1> DEFINE a == [arg[c] EXCEPT !.answer = ans]
<1>5. a.key = k /\ a.answer = ans /\ Goto(c, "canceled", a)
  BY <1>2, <1>4 DEF ArgType
<1> HIDE DEF a
<1>6. intent'[k] = i /\ \A j \in Keys : j # k => intent'[j] = intent[j]
  BY <1>2, <1>4 DEF TypeOK
<1>7. pc'[c] = "canceled" /\ arg'[c] = a /\ Key(c)' = k
  BY <1>5, IsGoto
<1>8. Tells(ans, i)
  BY <1>4 DEF Tells
<1>9. HandlerInv(c)'
  BY <1>1, <1>3, <1>5, <1>6, <1>7, <1>8, Places
     DEF HandlerInv, VersionInv, KnowledgeInv, OpStates
<1>10. OperationInv(k)'
  BY <1>1, <1>2, <1>3, <1>4, <1>6 DEF OperationInv, Tells, Uncollected
<1>11. Evolves(k) /\ version' >= version
  BY <1>1, <1>2, <1>4, <1>6 DEF Evolves, Advances, Uncollected
<1> QED BY <1>1, <1>3, <1>5, <1>6, <1>9, <1>10, <1>11, StepOn, Places

LEMMA OutsideSteps ==
    ASSUME IInv, TypeOK',
           (\E k \in Keys : Tap(k)) \/ OtherTender \/ Supersede
                \/ UNCHANGED vars
    PROVE  PaymentInv'
<1>1. UNCHANGED <<op, payments, pc, arg>>
  BY DEF Tap, OtherTender, Supersede, checkout, vars
<1>2. version' >= version
  <2>1. version \in Nat
    BY ProviderPaymentAssumption DEF IInv, TypeOK
  <2> QED BY <2>1 DEF Tap, OtherTender, Supersede, checkout, vars, BumpVersion
<1>3. \A k \in Keys : Advances(k) /\ (intent[k] # "open" => intent'[k] = intent[k])
  BY DEF Advances, Uncollected, Tap, OtherTender, Supersede, vars, IInv, TypeOK
<1>4. OneAsker'
  BY <1>1 DEF IInv, PaymentInv, OneAsker, Key
<1>5. ASSUME NEW d \in Clients PROVE HandlerInv(d)'
  <2>1. pc[d] # "idle" => Key(d) \in Keys /\ KnowledgeInv(d)
    BY DEF IInv, PaymentInv, HandlerInv, KnowledgeInv
  <2>2. pc[d] # "idle" => Evolves(Key(d))
    BY <1>1, <1>3, <2>1 DEF Evolves, Advances, IInv, TypeOK
  <2>3. pc[d] \in Asking => AskedEvolves(Key(d))
    BY <1>1, <1>3, <2>1 DEF AskedEvolves, Advances, KnowledgeInv, Asking
  <2> QED BY <1>1, <1>2, <2>2, <2>3, HandlerKept
<1>6. ASSUME NEW k \in Keys PROVE OperationInv(k)'
  <2>1. CASE intent'[k] = intent[k]
    BY <1>1, <1>2, <2>1, OperationKept
  <2>2. CASE intent'[k] # intent[k]
    <3>1. intent[k] = "open" /\ OperationInv(k)
      BY <1>3, <2>2 DEF IInv, PaymentInv
    <3>2. op[k].ver \in Nat /\ version \in Nat /\ version' \in Nat
          /\ payments[k] \in Nat
      BY OpOf, ProviderPaymentAssumption DEF IInv, TypeOK, OpType
    <3> QED BY <1>1, <1>2, <3>1, <3>2 DEF OperationInv, Tells
  <2> QED BY <2>1, <2>2
<1> QED BY <1>4, <1>5, <1>6 DEF PaymentInv

-----------------------------------------------------------------------------
(* Types are kept, once the handlers hold what the invariant says *)

\* Steps of a handler that write an operation.
LEMMA OperationTypes ==
    ASSUME IInv, NEW c \in Clients, HandlerStep(c)
    PROVE  op' \in [Keys -> OpType]
<1>0. TypeOK /\ op \in [Keys -> OpType]
  BY OpOf DEF IInv
<1>1. CASE UNCHANGED op
  BY <1>0, <1>1
<1>2. CASE \E new \in OpType, k \in Keys : op' = [op EXCEPT ![k] = new]
  BY <1>0, <1>2
<1>3. CASE CollectCreate(c) /\ ~Taken(Key(c))
  <2>1. PICK k \in Keys : k = Key(c)
    BY <1>3, Working DEF CollectCreate
  <2>2. arg[c] \in ArgType
    BY <1>0 DEF TypeOK, ArgType
  <2> DEFINE new == [NoOp EXCEPT !.state = "CREATED", !.amount = arg[c].amount,
                                 !.ver = arg[c].ver]
  <2>3. new \in OpType
    BY <2>2 DEF ArgType, OpType, NoOp, OpStates
  <2>4. op' = [op EXCEPT ![k] = new]
    BY <1>3, <2>1 DEF CollectCreate
  <2> QED BY <1>2, <2>3, <2>4
<1>4. CASE CollectProcess(c)
  <2>1. PICK k \in Keys : k = Key(c)
    BY <1>4, Working DEF CollectProcess
  <2> DEFINE new == [op[k] EXCEPT !.state = "PROCESSING"]
  <2>2. new \in OpType
    BY <1>0 DEF OpType, OpStates
  <2>3. op' = [op EXCEPT ![k] = new]
    BY <1>4, <2>1 DEF CollectProcess
  <2> QED BY <1>2, <2>2, <2>3
<1>5. CASE CollectAnswer(c)
  <2>1. PICK k \in Keys : k = Key(c)
    BY <1>5, Working DEF CollectAnswer
  <2>2. arg[c].answer \in OpStates
    BY <1>0 DEF TypeOK
  <2> DEFINE new == [op[k] EXCEPT !.state = arg[c].answer, !.pid = TRUE,
                                  !.recon = (arg[c].answer = "UNKNOWN")]
  <2>3. new \in OpType
    BY <1>0, <2>2 DEF OpType
  <2>4. op' = [op EXCEPT ![k] = new]
    BY <1>5, <2>1 DEF CollectAnswer
  <2> QED BY <1>2, <2>3, <2>4
<1>6. CASE FinalLink(c) \/ FinalMark(c)
  <2>1. PICK k \in Keys : k = Key(c)
    BY <1>6, Working DEF FinalLink, FinalMark
  <2>2. /\ [op[k] EXCEPT !.linked = TRUE, !.recon = FALSE] \in OpType
        /\ [op[k] EXCEPT !.recon = TRUE] \in OpType
    BY <1>0 DEF OpType
  <2>3. \/ op' = [op EXCEPT ![k] =
                    [op[k] EXCEPT !.linked = TRUE, !.recon = FALSE]]
        \/ op' = [op EXCEPT ![k] = [op[k] EXCEPT !.recon = TRUE]]
    BY <1>6, <2>1 DEF FinalLink, FinalMark
  <2> QED BY <1>2, <2>2, <2>3
<1>7. CASE (Reconciled(c) \/ Canceled(c) \/ WebhookApply(c))
             /\ Write(Key(c), arg[c].answer)
  <2>1. PICK k \in Keys : k = Key(c)
    BY <1>7, Working DEF Reconciled, Canceled, WebhookApply
  <2>2. op[k].pid
    BY <1>7, <2>1, Working, Places
       DEF Reconciled, Canceled, WebhookApply, HandlerInv, KnowledgeInv
  <2>3. arg[c].answer \in OpStates
    BY <1>0 DEF TypeOK
  <2> QED BY <1>2, <1>7, <2>1, <2>2, <2>3, Written
<1>8. CASE Collect(c)
  BY <1>1, <1>3, <1>4, <1>5, <1>8
     DEF Collect, CollectLoad, CollectReplay, CollectOthers, CollectClaim,
         CollectCreate, CollectCharge
<1>9. CASE Finalize(c)
  BY <1>1, <1>6, <1>9 DEF Finalize, FinalLookup, FinalPay
<1>10. CASE Reconciled(c) \/ Canceled(c) \/ WebhookApply(c)
  BY <1>1, <1>7, <1>10 DEF Reconciled, Canceled, WebhookApply
<1>11. CASE \/ ReconcileLoad(c) \/ ReconcileQuery(c) \/ CancelLoad(c)
            \/ CancelAsk(c) \/ WebhookLoad(c) \/ Crash(c)
  BY <1>1, <1>11
     DEF ReconcileLoad, ReconcileQuery, CancelLoad, CancelAsk, WebhookLoad, Crash
<1> QED BY <1>8, <1>9, <1>10, <1>11 DEF HandlerStep

\* Steps of a handler that write the check or the provider's payment.
LEMMA RestTypes ==
    ASSUME IInv, NEW c \in Clients, HandlerStep(c)
    PROVE  /\ version' \in 1..MaxVersion /\ current' \in BOOLEAN
           /\ due' \in 0..Total /\ payments' \in [Keys -> Nat]
           /\ intent' \in [Keys -> {"none", "open", "unread"} \cup DOMAIN Final]
           /\ applied' \subseteq Keys
<1>0. /\ version \in 1..MaxVersion /\ current \in BOOLEAN
      /\ due \in 0..Total /\ payments \in [Keys -> Nat]
      /\ intent \in [Keys -> {"none", "open", "unread"} \cup DOMAIN Final]
      /\ applied \subseteq Keys
  BY DEF IInv, TypeOK
<1>a. Total \in Nat /\ MaxVersion \in Nat /\ version \in Nat /\ due \in Nat
      /\ DOMAIN Final = {"captured", "failed", "canceled"}
  BY <1>0, FinalType, ProviderPaymentAssumption
<1>1. CASE CollectCharge(c) \/ CancelAsk(c)
  <2>1. intent' \in [Keys -> {"none", "open", "unread"} \cup DOMAIN Final]
    BY <1>0, <1>a, <1>1 DEF CollectCharge, CancelAsk
  <2> QED BY <1>0, <1>1, <2>1 DEF CollectCharge, CancelAsk, checkout
<1>2. CASE CollectClaim(c)
  BY <1>0, <1>a, <1>2 DEF CollectClaim, BumpVersion
<1>3. CASE FinalPay(c)
  <2>1. PICK k \in Keys : k = Key(c)
    BY <1>3, Working DEF FinalPay
  <2>2. op[k].amount \in Nat
    BY OpOf DEF OpType, IInv
  <2>3. CASE UNCHANGED <<version, due, payments>>
    BY <1>0, <1>3, <2>3 DEF FinalPay
  <2>4. CASE /\ CanPay(arg[c].ver, op[k].amount) /\ BumpVersion
             /\ due' = due - op[k].amount
             /\ payments' = [payments EXCEPT ![k] = @ + 1]
    <3>1. due' \in 0..Total /\ version' \in 1..MaxVersion
      BY <1>0, <1>a, <2>2, <2>4 DEF CanPay, BumpVersion
    <3>2. payments' \in [Keys -> Nat]
      BY <1>0, <2>4
    <3> QED BY <1>0, <1>3, <3>1, <3>2 DEF FinalPay
  <2> QED BY <1>3, <2>1, <2>3, <2>4 DEF FinalPay
<1>4. CASE WebhookApply(c)
  <2>1. Key(c) \in Keys
    BY <1>4, Working DEF WebhookApply
  <2> QED BY <1>0, <1>4, <2>1 DEF WebhookApply, checkout
<1>5. CASE UNCHANGED <<checkout, intent, applied>>
  BY <1>0, <1>5 DEF checkout
<1>6. CASE Collect(c)
  BY <1>1, <1>2, <1>5, <1>6
     DEF Collect, CollectLoad, CollectReplay, CollectOthers, CollectCreate,
         CollectProcess, CollectAnswer
<1>7. CASE Finalize(c)
  BY <1>3, <1>5, <1>7 DEF Finalize, FinalLookup, FinalLink, FinalMark
<1>8. CASE \/ ReconcileLoad(c) \/ ReconcileQuery(c) \/ Reconciled(c)
           \/ CancelLoad(c) \/ CancelAsk(c) \/ Canceled(c)
           \/ WebhookLoad(c) \/ WebhookApply(c) \/ Crash(c)
  BY <1>1, <1>4, <1>5, <1>8
     DEF ReconcileLoad, ReconcileQuery, Reconciled, CancelLoad, Canceled,
         WebhookLoad, Crash
<1> QED BY <1>6, <1>7, <1>8 DEF HandlerStep

LEMMA TypeStep == IInv /\ [Next]_vars => TypeOK'
<1> SUFFICES ASSUME IInv, [Next]_vars PROVE TypeOK'
  OBVIOUS
<1>0. /\ TypeOK /\ version \in Nat /\ due \in Nat
      /\ DOMAIN Final = {"captured", "failed", "canceled"}
  BY FinalType, ProviderPaymentAssumption DEF IInv, TypeOK
<1>1. ASSUME NEW c \in Clients, HandlerStep(c) PROVE TypeOK'
  BY <1>0, <1>1, HandlerTypes, OperationTypes, RestTypes
     DEF TypeOK, ArgType, OpType
<1>2. ASSUME NEW k \in Keys, Tap(k) PROVE TypeOK'
  BY <1>0, <1>2 DEF Tap, TypeOK, checkout
<1>3. CASE OtherTender
  <2>1. PICK amount \in Amounts : amount <= due /\ due' = due - amount
    BY <1>3 DEF OtherTender
  <2>2. due' \in 0..Total /\ version' \in 1..MaxVersion
    BY <1>0, <1>3, <2>1, ProviderPaymentAssumption
       DEF OtherTender, BumpVersion, TypeOK
  <2> QED BY <1>0, <1>3, <2>2 DEF OtherTender, TypeOK
<1>4. CASE Supersede
  <2>1. version' \in 1..MaxVersion
    BY <1>0, <1>4, ProviderPaymentAssumption DEF Supersede, BumpVersion
  <2> QED BY <1>0, <1>4, <2>1 DEF Supersede, TypeOK
<1>5. CASE UNCHANGED vars
  BY <1>0, <1>5 DEF vars, checkout, TypeOK
<1> QED BY <1>1, <1>2, <1>3, <1>4, <1>5 DEF Next, HandlerStep

LEMMA InitInv == Init => IInv
<1> SUFFICES ASSUME Init PROVE IInv
  OBVIOUS
<1>1. TypeOK
  <2>1. NoOp \in OpType
    BY DEF NoOp, OpType, OpStates
  <2> QED BY <2>1, NoArgsType, ProviderPaymentAssumption
       DEF Init, TypeOK, OpType, ArgType, PCs
<1>2. \A k \in Keys : OperationInv(k)
  <2> SUFFICES ASSUME NEW k \in Keys PROVE OperationInv(k)
    OBVIOUS
  <2>1. op[k] = NoOp /\ payments[k] = 0 /\ intent[k] = "none"
    BY DEF Init
  <2> QED BY <2>1 DEF OperationInv, Tells, NoOp
<1>3. \A c \in Clients : HandlerInv(c)
  BY Places DEF Init, HandlerInv, VersionInv, KnowledgeInv
<1>4. OneAsker
  BY Places DEF Init, OneAsker
<1> QED BY <1>1, <1>2, <1>3, <1>4 DEF IInv, PaymentInv

LEMMA InvStep == IInv /\ [Next]_vars => IInv'
<1> SUFFICES ASSUME IInv, [Next]_vars PROVE IInv'
  OBVIOUS
<1>1. TypeOK'
  BY TypeStep
<1>2. ASSUME NEW c \in Clients, HandlerStep(c) PROVE PaymentInv'
  <2>1. CASE Collect(c)
    BY <1>1, <2>1, LoadSteps, WaitSteps, CollectCreateStep, CollectProcessStep,
       CollectChargeStep, CollectAnswerStep DEF Collect
  <2>2. CASE Finalize(c)
    BY <1>1, <2>2, WaitSteps, FinalPayStep, FinalWriteStep DEF Finalize
  <2>3. CASE ReconcileLoad(c) \/ ReconcileQuery(c) \/ CancelLoad(c)
               \/ CancelAsk(c) \/ WebhookLoad(c) \/ Crash(c)
    BY <1>1, <2>3, LoadSteps, WaitSteps, ReconcileQueryStep, CancelAskStep
  <2>4. CASE Reconciled(c) \/ Canceled(c) \/ WebhookApply(c)
    BY <1>1, <2>4, AnswerSteps
  <2> QED BY <1>2, <2>1, <2>2, <2>3, <2>4 DEF HandlerStep
<1>3. CASE (\E k \in Keys : Tap(k)) \/ OtherTender \/ Supersede
             \/ UNCHANGED vars
  BY <1>1, <1>3, OutsideSteps DEF IInv
<1>4. (\E c \in Clients : HandlerStep(c))
         \/ (\E k \in Keys : Tap(k)) \/ OtherTender \/ Supersede
         \/ UNCHANGED vars
  BY DEF Next, HandlerStep
<1> QED BY <1>1, <1>2, <1>3, <1>4 DEF IInv

LEMMA Inductive == Spec => []IInv
  BY InitInv, InvStep, PTL DEF Spec

-----------------------------------------------------------------------------
(* What the runs check *)

\* The rows, the provider's payments and the handlers' local variables hold
\* values of their types.
THEOREM PaymentTypeCorrect == Spec => []TypeOK
<1>1. IInv => TypeOK
  BY DEF IInv
<1> QED BY <1>1, Inductive, PTL

\* A captured payment is recorded once, however often it is finalized.
THEOREM RecordsOnce == Spec => []RecordedOnce
<1>1. IInv => RecordedOnce
  BY DEF IInv, PaymentInv, OperationInv, RecordedOnce
<1> QED BY <1>1, Inductive, PTL

\* Nothing is recorded or linked that the provider did not capture.
THEOREM RecordsCaptured == Spec => []RecordedIsCaptured
<1>1. IInv => RecordedIsCaptured
  BY DEF IInv, PaymentInv, OperationInv, RecordedIsCaptured
<1> QED BY <1>1, Inductive, PTL

\* The provider is asked for the payment of a key once, by one request.
THEOREM ChargedOnce == Spec => []ChargedOncePerKey
<1>1. IInv => ChargedOncePerKey
  BY DEF IInv, PaymentInv, OneAsker, HandlerInv, KnowledgeInv, Asking,
         ChargedOncePerKey
<1> QED BY <1>1, Inductive, PTL

\* Where no refusal of a query or a cancelation is taken for a failed payment,
\* whatever the provider captured is recorded or holds further attempts up.
THEOREM CapturesStay ==
    ASSUME "refusal" \notin Faults
    PROVE  Spec => []NoCaptureDisappears
<1>1. IInv => NoCaptureDisappears
  <2> SUFFICES ASSUME IInv, NEW k \in Keys, intent[k] = "captured",
                      ~(payments[k] > 0)
               PROVE  Unresolved(k)
    BY DEF NoCaptureDisappears
  <2>1. OperationInv(k) /\ op[k].state \in OpStates
    BY OpOf DEF IInv, PaymentInv, OpType
  <2> QED BY <2>1 DEF OperationInv, Tells, Unresolved, OpStates
<1> QED BY <1>1, Inductive, PTL
=============================================================================
