CONSTANT
    Trees <- MCTrees
SPECIFICATION PSpec
INVARIANT
    GroupsAreRead
CHECK_DEADLOCK FALSE
