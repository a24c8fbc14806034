CONSTANTS
    Threads = {t1, t2}
    Objects = {o1, o2}
    Keys = {"DEPEND", "DESCRIPTION"}
    Plain = {"DESCRIPTION"}
    Contents <- MCContents
SPECIFICATION Spec
INVARIANTS
    HeldAreWhole
    CacheIsOneContent
PROPERTY
    ParsedOnce
SYMMETRY
    MCSymmetry
CHECK_DEADLOCK FALSE
