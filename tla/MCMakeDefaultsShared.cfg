CONSTANTS
    ENV_UNSET = ENV_UNSET
    FOO = FOO
    BAR = BAR
    x = x
    y = y
    Blank = Blank
    Escape = Escape
    Newline = Newline
    Words <- MCWords
    Dollars = {}
    Odd = {}
    Incremental = {ENV_UNSET}
    Lines <- MCLines
    MaxLines = 2
SPECIFICATION Spec
INVARIANT
    ParentsShareVariables
CHECK_DEADLOCK FALSE
