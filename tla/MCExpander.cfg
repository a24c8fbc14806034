CONSTANTS
    r = r
    s = s
    categories_r = categories_r
    categories_s = categories_s
    c = c
    d = d
    u = u
    a = a
    p = p
    q = q
    odd = odd
    v = v
    p1 = p1
    p2 = p2
    q1 = q1
    v1 = v1
    stray = stray
    file = file
    manifest = manifest
    Repositories <- InOrder
    Index <- IndexOf
    Listed <- Listing
    Content <- Holds
    CategoryDirs = {c, d, u, a}
    PackageDirs = {p, q, odd, v}
    WellNamed = {p, q, v}
    EbuildFiles = {p1, p2, q1, v1, stray}
    GoodEbuilds = {p1, p2, q1, v1}
    OtherFiles = {file, manifest}
    Atoms <- MCAtoms
    Trees <- MCTrees
    MaxRemovals = 2
SPECIFICATION Spec
INVARIANTS
    Sound
    Complete
    FailsForAReason
PROPERTY
    ExpansionEnds
CHECK_DEADLOCK FALSE
