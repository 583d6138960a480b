SPECIFICATION Spec
CONSTANTS
    Clients = {c1, c2}
    Sources = {x1}
    Orders = {o1}
    Nobody = nobody
    NoItem = noItem
    MaxVersion = 6
    Ops = {"createSettlement", "pay", "mutate", "close", "reopen", "update", "attach", "detach", "void", "settle", "order"}
SYMMETRY ClientSymmetry
INVARIANTS TypeOK SettlementBalanced CommitsSeeWhatWasRead PaidCloseNeverDeadlocks
PROPERTIES MutationSparesTender ReopenNeverErasesMoney SettlementsSerialised
CHECK_DEADLOCK FALSE
