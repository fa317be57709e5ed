SPECIFICATION LifeSpec
CONSTANTS
    Avs = {a1, a2, a3}
    Tox = Tox
    NoAv = NoAv
    Platforms <- Both
SYMMETRY Symmetry
INVARIANTS
    IdsSound
    AvBeforeCore
    NoStaleNumber
    ShrinksAtEnd
    CoreReclaimed
PROPERTIES
    RefinesLifetimes
CHECK_DEADLOCK FALSE
