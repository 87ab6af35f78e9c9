CONSTANTS Keys <- PathKeys
          Values = {v, w}
          Null = null
          Garbage = {0, 1}
SPECIFICATION Spec
INVARIANTS TypeOK NoDeadBranch WalkShowsAll
PROPERTY ImplementsKeyMap
CHECK_DEADLOCK FALSE
