CONSTANTS
    Versions <- MCVersions
    MaxUlong <- MCMaxUlong
SPECIFICATION Spec
INVARIANTS
    Dual
    Transitive
    SelectorsAgree
CHECK_DEADLOCK FALSE
