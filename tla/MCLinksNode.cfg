CONSTANTS N = 2
          Limit = 4
          Others = 1
          MaxList = 2
SPECIFICATION Spec
INVARIANT OpenIsListed
