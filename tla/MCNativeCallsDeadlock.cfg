SPECIFICATION NativeSpec
CONSTANTS
    Threads = {t1, t2, t3}
    Objects = {o1, o2}
    Avs = {a1}
    Numbers <- MCNumbers
    NoThread = NoThread
    NoObject = NoObject
    Names <- MCNames
    MaxSizes <- OnAndOff
    InitialSize = 2
    FilterSets <- MCFilterSets
    MaxDepth = 1
    MaxEntries = 3
SYMMETRY Symmetry
VIEW View
INVARIANTS
    NoCircularWait
