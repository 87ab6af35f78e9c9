CONSTANTS N = 3
          Ids = {1, 3}
          Claims <- Anyone
          PlayerMax = 3
          Faults = {"rejected"}
SPECIFICATION Spec
INVARIANT OneEach
