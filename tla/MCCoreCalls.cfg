SPECIFICATION CallsSpec
CONSTANTS
    Threads = {t1, t2}
    Objects = {o1, o2}
    NoObject = NoObject
    Null = Null
    IntBits = 3
    PortBits = 1
    KeySize = 1
    AddressSize = 2
    MaxLength = 3
    MaxInfo = 1
    MaxNumbers = 1
    MaxFriends = 1
SYMMETRY Symmetry
INVARIANTS
    VectorFits
    AbortsOnlyUnchecked
    RightInstance
    NumbersKept
CHECK_DEADLOCK FALSE
