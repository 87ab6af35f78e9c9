CONSTANTS N = 2
          Limit = 2
          Others = 1
          MaxList = 2
SPECIFICATION LiveSpec
INVARIANTS TypeOK SocketsOwned OneReader
PROPERTIES GoneIsClosed TurnsEnd
