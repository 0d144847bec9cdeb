CONSTANTS
  MAX_POLICY_DEPTH = 2
  MAX_POLICY_NODES = 6
  MAX_THRESHOLD_ARITY = 2
  MAX_CREDENTIAL_COUNT = 3
  MAX_COMBINATOR_CHILDREN = 2
  MAX_THRESHOLD_MEMBERS = 3
  LeafSet <- MCLeaves
  MaxMembers = 2
  Policies <- MCBoundPolicies
  Witnesses <- MCWitnesses
SPECIFICATION Spec
INVARIANTS
  SemanticsPreserved
  IdentityStable
  EncodingExact
  ValidationExact
  RewritingRefusals
