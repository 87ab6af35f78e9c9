CONSTANTS Fields <- ShortLong
          MaxSize = 3
          MaxTries = 3
          Answer = 3
          MaxBytes = 12
SPECIFICATION LiveSpec
INVARIANTS TypeOK InOrder InStep
PROPERTIES Verdict CallEnds
