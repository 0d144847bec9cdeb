CONSTANTS
  P = 5
  F <- ModF
  Zero = 0
  One = 1
  Plus <- ModPlus
  Times <- ModTimes
  Neg <- ModNeg
  MAX_CIRCUIT_NODES = 5
  MAX_REPETITIONS = 1
  Base = 2
  FIELD_ELEMENT_SIZE = 3
  MAX_SHARE_COUNT = 4
  Artifacts <- MCArtifacts
  Sharings <- MCSharings
SPECIFICATION Spec
INVARIANTS
  SelfDelimiting
  Canonical
  DecodedCircuitSound
  SecretRecovered
  BelowThresholdHidden
CHECK_DEADLOCK FALSE
