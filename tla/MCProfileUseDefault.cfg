CONSTANTS
    base = base
    mid = mid
    leaf = leaf
    f = f
    g = g
    FOO = FOO
    dollar = dollar
    odd = odd
    USE_ = USE
    IUSE_IMPLICIT = IUSE_IMPLICIT
    Star = star
    Flags = {f, g}
    Arch = arch
    profile = leaf
    Profiles = {base, mid, leaf}
    Parents <- MCParents
    Rank <- MCRank
    Blank = Blank
    Escape = Escape
    Newline = Newline
    Words <- MCWords
    Dollars = {dollar}
    Odd = {odd}
    Invalid <- MCInvalid
    Incremental = {USE, IUSE_IMPLICIT}
    Lines <- MCLines
    MaxLines = 1
    Inputs <- MCInputs
    Brief <- MCBrief
    Packages = {p1, p2}
    asked = p1
    MaxTokens = 2
SPECIFICATION USpec
INVARIANT
    DefaultIsMeant
CHECK_DEADLOCK FALSE
