--------------------------- MODULE SettlementLedger ---------------------------
(***************************************************************************)
(* What a CheckSettlement promises, whoever works on it and in whatever    *)
(* order: it is calculated once, its total never changes, payments only    *)
(* add up towards that total, it is voided only while nothing is paid and  *)
(* closed only when all of it is paid.  Every step concerns a single       *)
(* settlement and happens at once.                                         *)
(***************************************************************************)
EXTENDS Naturals

CONSTANT Ids
VARIABLE ledger

NoEntry == [state |-> "NONE", total |-> 0, paid |-> 0]

LedgerInit == ledger = [s \in Ids |-> NoEntry]

Replace(s, entry) == ledger' = [ledger EXCEPT ![s] = entry]

Calculate(s) ==
    /\ ledger[s].state = "NONE"
    /\ ledger'[s].total \in Nat
    /\ Replace(s, [state |-> "CALCULATED", total |-> ledger'[s].total,
                   paid |-> 0])

Pay(s) ==
    /\ ledger[s].state \in {"CALCULATED", "PARTIALLY_PAID"}
    /\ ledger[s].paid < ledger'[s].paid
    /\ ledger'[s].paid <= ledger[s].total
    /\ Replace(s, [state |-> IF ledger'[s].paid = ledger[s].total
                               THEN "PAID" ELSE "PARTIALLY_PAID",
                   total |-> ledger[s].total,
                   paid |-> ledger'[s].paid])

Void(s) ==
    /\ ledger[s].state = "CALCULATED" /\ ledger[s].paid = 0
    /\ Replace(s, [ledger[s] EXCEPT !.state = "VOID"])

\* A settlement of zero needs no payment.  The program closes it even when it
\* was voided while the close waited for its row.
Close(s) ==
    /\ ledger[s].paid = ledger[s].total
    /\ \/ ledger[s].state = "PAID"
       \/ ledger[s].state \in {"CALCULATED", "VOID"} /\ ledger[s].total = 0
    /\ Replace(s, [ledger[s] EXCEPT !.state = "CLOSED"])

LedgerNext == \E s \in Ids : Calculate(s) \/ Pay(s) \/ Void(s) \/ Close(s)

LedgerSpec == LedgerInit /\ [][LedgerNext]_ledger
=============================================================================
