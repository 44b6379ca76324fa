SPECIFICATION FairSpec
CONSTANTS
  Runtimes <- AllRuntimes
  SnapTimes <- AllSnapTimes
  Work = 2
INVARIANT NeverPanics
