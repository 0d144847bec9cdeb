CONSTANTS
  P = 3
  F <- ModF
  Zero = 0
  One = 1
  Plus <- ModPlus
  Times <- ModTimes
  Neg <- ModNeg
  Jobs <- MCJobs
  Damages = {}
SPECIFICATION Spec
INVARIANT
  AcceptedOutputsAreExpected
CHECK_DEADLOCK FALSE
