SPECIFICATION Spec
CONSTANTS
    Procs = {p1, p2}
    Texts = {t1, t2}
    Lanes <- MCLanes
    Steady = TRUE
    None = None
SYMMETRY Symmetry
INVARIANTS
    ResultIsOfTheseSources
    KeepsMostRecent
PROPERTIES
    NeverOverwritten
CHECK_DEADLOCK FALSE
