SPECIFICATION LogSpec
CONSTANTS
    Threads = {t1, t2}
    NoThread = NoThread
    Names <- MCNames
    MaxSizes <- MCMaxSizes
    InitialSize = 2
    FilterSets <- MCFilterSets
    MaxDepth = 2
    MaxEntries = 4
INVARIANTS
    OneWriter
    TakenComplete
    OpenEntryStored
    NothingLost
