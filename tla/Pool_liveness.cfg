SPECIFICATION FairSpec
CONSTANTS
  f1 = f1
  f2 = f2
  w1 = w1
  w2 = w2
  w3 = w3
  c1 = c1
  c2 = c2
  None = None
  Functions <- OneFunction
  Workers <- TwoWorkers
  Calls <- OneCall
  WorkerCap = 1
  Total = 2
  ThresHi = 2
  ThresLo = 0
  RetainSnapshots = TRUE
PROPERTIES
    CallsAnswered
    ShutdownEnds
