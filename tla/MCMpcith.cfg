CONSTANTS
  P = 3
  F <- ModF
  Zero = 0
  One = 1
  Plus <- ModPlus
  Times <- ModTimes
  Neg <- ModNeg
  Jobs <- MCJobs
  Damages <- MCDamages
SPECIFICATION Spec
INVARIANTS
  TypeOK
  HonestVerdict
  FaultyViewCaughtWhenOpened
  TransitDamageCaught
CHECK_DEADLOCK FALSE
