CONSTANTS
  MAX_POLICY_DEPTH = 9
  MAX_POLICY_NODES = 99
  MAX_THRESHOLD_ARITY = 9
  MAX_CREDENTIAL_COUNT = 99
  MAX_COMBINATOR_CHILDREN = 9
  MAX_THRESHOLD_MEMBERS = 9
  P = 11
  F <- ModF
  Zero = 0
  One = 1
  Plus <- ModPlus
  Times <- ModTimes
  Neg <- ModNeg
  Modulus = 11
  AMOUNT_BIT_LEN = 2
  Leaf <- MCLeaves
  Policies <- MCPolicies
  Witnesses <- MCWitnesses
SPECIFICATION Spec
INVARIANTS
  CircuitDecides
  SolverSettles
  AuxiliariesAuthorizeNothing
CHECK_DEADLOCK FALSE
