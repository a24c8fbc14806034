CONSTANTS
    Versions <- MCVersions
    MaxUlong <- MCMaxUlong
SPECIFICATION Spec
INVARIANT EqualModuloRevision
CHECK_DEADLOCK FALSE
