CONSTANTS
  P = 2
  F <- ModF
  Zero = 0
  One = 1
  Plus <- ModPlus
  Times <- ModTimes
  Neg <- ModNeg
  Constants = {1}
  MaxNodes = 4
  MaxOutputs = 2
  Ids <- MCIds
SPECIFICATION FairClassifySpec
INVARIANTS
  TopologicalOrder
  BuildFailsOnlyWithoutOutput
  WalkAgrees
PROPERTY
  WalkReturns
CHECK_DEADLOCK FALSE
