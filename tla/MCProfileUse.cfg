CONSTANTS
    base = base
    mid = mid
    leaf = leaf
    f = f
    g = g
    FOO = FOO
    dollar = dollar
    odd = odd
    USE_ = USE
    IUSE_IMPLICIT = IUSE_IMPLICIT
    Star = star
    Flags = {f, g}
    Arch = arch
    profile = leaf
    Profiles = {base, mid, leaf}
    Parents <- MCParents
    Rank <- MCRank
    Blank = Blank
    Escape = Escape
    Newline = Newline
    Words <- MCWords
    Dollars = {dollar}
    Odd = {odd}
    Invalid <- MCInvalid
    Incremental = {USE, IUSE_IMPLICIT}
    Lines <- MCLines
    MaxLines = 3
    Inputs <- MCInputs
    Brief <- MCBrief
    Packages = {p1, p2}
    asked = p1
    MaxTokens = 4
SPECIFICATION USpec
INVARIANTS
    RefusedForALine
    Accumulates
    LastWins
    Consistent
    FlagsAreDecided
    LatestTokenDecides
PROPERTY
    ImplementsReading
CHECK_DEADLOCK FALSE
