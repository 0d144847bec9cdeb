CONSTANTS
  P = 3
  F <- ModF
  Zero = 0
  One = 1
  Plus <- ModPlus
  Times <- ModTimes
  Neg <- ModNeg
  Jobs <- MCJobs
SPECIFICATION ProverSpec
INVARIANTS
  ProverTypeOK
  SharesReconstruct
  SharedMeansSecretDependent
  OperationsMatchBroadcasts
CHECK_DEADLOCK FALSE
