CONSTANTS
    w1 = w1
    w2 = w2
    w3 = w3
    full = full
    bare = bare
    late = late
    two = two
    one = one
    none = none
    e1 = e1
    e2 = e2
    e3 = e3
    Workers <- MCWorkers
    Categories <- MCCategories
    PackagesOf <- MCPackagesOf
    EbuildsOf <- MCEbuildsOf
SPECIFICATION Spec
INVARIANTS
    CounterCovers
    ExitMeansDone
    Exclusive
PROPERTIES
    ImplementsCensus
    ScanEnds
