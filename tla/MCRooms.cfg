CONSTANTS Rooms = {2, 3}
          Players = {a, b}
          Servers = 2
          SendFails = TRUE
          Lossy = {2}
          MaxUsers = 2
          MaxTime = 1
          a = a b = b
SPECIFICATION Spec
INVARIANTS TypeOK OneUnitLost FoundStays
PROPERTIES LastOneOut
SYMMETRY Alike
CHECK_DEADLOCK FALSE
