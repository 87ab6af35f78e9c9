CONSTANTS Rooms = {2}
          Players = {a}
          Servers = 2
          SendFails = TRUE
          Lossy = {2}
          MaxUsers = 2
          MaxTime = 2
          a = a b = b
SPECIFICATION LiveSpec
CHECK_DEADLOCK FALSE
PROPERTIES WalkComes EvictedLeaves
