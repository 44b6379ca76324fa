SPECIFICATION FairSpec
CONSTANTS
  Runtimes <- AllRuntimes
  SnapTimes <- AllSnapTimes
  Work = 2
INVARIANTS
    ReusableIsIntact
    NothingLeftBehind
    LoopStateIsReal
    PoolProtocol
    RowIsTrue
    PanicsOnlyOnResume
PROPERTIES
    EndsWhenTold
    SlotComesBack
