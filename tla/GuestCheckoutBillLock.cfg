SPECIFICATION Spec
CONSTANTS
    Clients = {c1, c2}
    Sources = {x1}
    Orders = {}
    Nobody = nobody
    NoItem = noItem
    MaxVersion = 6
    Ops = {"createSettlement", "pay", "attach", "detach"}
SYMMETRY ClientSymmetry
PROPERTY PaidBillLocked
CHECK_DEADLOCK FALSE
