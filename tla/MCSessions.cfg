CONSTANTS N = 3
          Ids <- Few
          Claims <- Rivals
          PlayerMax = 2
          Faults = {"early", "rejected", "late"}
SPECIFICATION LiveSpec
INVARIANTS TypeOK NoUseAfterFree DropsOwnPlayer OneSession CountsTrue
PROPERTIES ImplementsRegistry LostIsCleaned Answered
