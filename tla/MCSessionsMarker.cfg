CONSTANTS N = 2
          Ids = {1, 2, 3}
          Claims <- Anyone
          PlayerMax = 2
          Faults = {"early", "rejected", "late"}
SPECIFICATION Spec
INVARIANT OwnData
