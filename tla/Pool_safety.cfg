SPECIFICATION Spec
CONSTANTS
  f1 = f1
  f2 = f2
  w1 = w1
  w2 = w2
  w3 = w3
  c1 = c1
  c2 = c2
  None = None
  Functions <- TwoFunctions
  Workers <- TwoWorkers
  Calls <- TwoCalls
  WorkerCap = 2
  Total = 2
  ThresHi = 2
  ThresLo = 1
  RetainSnapshots = FALSE
SYMMETRY PoolSymmetry
INVARIANTS
    IdleIsReady
    CpuComesBack
    MemoryExact
    ControlQueueBounded
    SandboxOwnedOnce
