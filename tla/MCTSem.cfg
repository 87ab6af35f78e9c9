CONSTANTS Threads = {t1, t2, t3}
          Ops <- TakePostZero
          InitVal = 1
          MaxVal = 2
SPECIFICATION LiveSpec
INVARIANTS TypeOK MutexInv
PROPERTIES ImplementsSemaphore NoLostPoll
