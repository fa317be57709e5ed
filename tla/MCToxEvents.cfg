SPECIFICATION EventsSpec
CONSTANTS
    Threads = {t1, t2}
    NoThread = NoThread
    DispatchOrders <- BothOrders
    Types <- MCTypes
    Friends = {0}
    Files = {0}
    MaxEvents = 4
    MaxDepth = 2
SYMMETRY Symmetry
INVARIANTS
    AtMostOnce
    BatchOrder
    InOrder
PROPERTIES
    RefinesChannel
