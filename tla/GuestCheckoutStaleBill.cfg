SPECIFICATION Spec
CONSTANTS
    Clients = {c1}
    Sources = {x1}
    Orders = {o1}
    Nobody = nobody
    NoItem = noItem
    MaxVersion = 7
    Ops = {"createSettlement", "pay", "close", "order", "attach"}
PROPERTY PaymentSeesCurrentBill
CHECK_DEADLOCK FALSE
