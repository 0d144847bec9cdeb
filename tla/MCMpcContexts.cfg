CONSTANTS
  P = 3
  F <- ModF
  Zero = 0
  One = 1
  Plus <- ModPlus
  Times <- ModTimes
  Neg <- ModNeg
  Coins = {1}
  Simulators = {"a", "b"}
  Called = {"a", "b"}
  party_count <- MCPartyCount
  provider_count <- MCProviderCount
  Secrets = {2}
  MAX_ID = 2
  MaxValues = 3
  Runs = {}
SPECIFICATION Spec
INVARIANT
  ContextsNeverMix
CHECK_DEADLOCK FALSE
