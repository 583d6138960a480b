SPECIFICATION FairSpec
CONSTANTS
    Clients = {c1, c2}
    Sources = {x1}
    Orders = {o1}
    Nobody = nobody
    NoItem = noItem
    MaxVersion = 7
    Ops = {"createSettlement", "pay", "mutate", "close", "attach", "void"}
PROPERTY EveryHandlerEnds
CHECK_DEADLOCK FALSE
