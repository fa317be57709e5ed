SPECIFICATION FairSpec
CONSTANTS
    Threads = {t1, t2, t3}
    Objects = {o1}
    Numbers <- MCNumbers
    NoThread = NoThread
    NoObject = NoObject
    MaxCalls = 2
PROPERTIES
    EveryCallReturns
