CONSTANTS
    a = a
    b = b
    c = c
    v = v
    Vars = {v, w1, w2}
    Streams = {s1, s2, s3, s4}
    Directories <- MCDirectories
    Kinds = {"vdb", "package", "category", "repository"}
    MaxChanges = 1
SPECIFICATION SSpec
INVARIANTS
    ElementUnlessEnd
    NeverAhead
    VisitsEveryEntry
    OneHidesAll
SYMMETRY
    MCSymmetry
CHECK_DEADLOCK FALSE
