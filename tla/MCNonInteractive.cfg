CONSTANTS
  P = 3
  F <- ModF
  Zero = 0
  One = 1
  Plus <- ModPlus
  Times <- ModTimes
  Neg <- ModNeg
  Jobs <- MCJobs
  AlterationKinds <- MCAlterations
SPECIFICATION Spec
INVARIANTS
  OpenedAfterAllCommitted
  HonestOutcome
  AlterationNeedsFreshChallenges
PROPERTY
  ImplementsCommitOpen
CHECK_DEADLOCK FALSE
