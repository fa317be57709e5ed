SPECIFICATION Spec
CONSTANTS
    Threads = {t1, t2, t3}
    Objects = {o1, o2}
    Numbers <- MCNumbers
    NoThread = NoThread
    NoObject = NoObject
SYMMETRY Symmetry
INVARIANTS
    IndependentCalls
