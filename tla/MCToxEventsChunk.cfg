SPECIFICATION EventsSpec
CONSTANTS
    Threads = {t1}
    NoThread = NoThread
    DispatchOrders <- OnlyCore
    Types <- MCChunkTypes
    Friends = {0, 1}
    Files = {0, 1}
    MaxEvents = 2
    MaxDepth = 1
SYMMETRY Symmetry
INVARIANTS
    ArgumentsKept
