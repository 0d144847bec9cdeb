CONSTANTS
  P = 3
  F <- ModF
  Zero = 0
  One = 1
  Plus <- ModPlus
  Times <- ModTimes
  Neg <- ModNeg
  Coins = {1, 2}
  Simulators = {"a", "c", "d"}
  Called = {"a", "c"}
  party_count <- MCPartyCount
  provider_count <- MCProviderCount
  Secrets = {2}
  MAX_ID = 2
  MaxValues = 4
  Runs <- MCRuns
SPECIFICATION Spec
INVARIANTS
  RevealsPlainValue
  TriplesUsedOnce
  RevealsReference
  TranscriptFollowsCircuit
CHECK_DEADLOCK FALSE
