CONSTANTS
    base = base
    arch = arch
    atom = atom
    overlay = overlay
    p1 = p1
    p2 = p2
    Path = Path
    MakeProfile = MakeProfile
    UserProfile = UserProfile
    Gentoo = Gentoo
    Dirs <- MCDirs
    Rank <- MCRank
    Atoms = {atom}
    Packages = {p1, p2}
    Holds <- MCHolds
    RepoOf <- MCRepoOf
    Settings <- MCSettings
    Systems <- MCSystems
SPECIFICATION PSpec
INVARIANTS
    BoundedRecursion
    FinishedAreComplete
    MasksAreOwn
    Levels
PROPERTY
    Terminates
CHECK_DEADLOCK FALSE
