CONSTANTS
  MAX_POLICY_DEPTH = 9
  MAX_POLICY_NODES = 99
  MAX_THRESHOLD_ARITY = 9
  MAX_CREDENTIAL_COUNT = 99
  MAX_COMBINATOR_CHILDREN = 9
  MAX_THRESHOLD_MEMBERS = 9
  P = 101
  F <- ModF
  Zero = 0
  One = 1
  Plus <- ModPlus
  Times <- ModTimes
  Neg <- ModNeg
  Modulus = 101
  AMOUNT_BIT_LEN = 2
  AUTHORIZATION_REPETITIONS = 3
  Policies <- MCPolicies
  Payments <- MCPayments
  Witnesses <- MCWitnesses
  Configs <- MCConfigs
  Verifiers <- MCVerifiers
  PaymentHash <- MCPaymentHash
  NonceHash <- MCNonceHash
  NoQuestion = NoQuestion
SPECIFICATION Spec
INVARIANTS
  HonestVerifies
  AlteredRefused
  SelfVerificationHarmless
  BoundCircuitDecides
  MetRequestsAuthorized
  RangeCheckAgrees
PROPERTY PromiseKept
CHECK_DEADLOCK FALSE
