SPECIFICATION Spec
CONSTANTS
  Nodes = {n1}
  Tokens = {t1}
  Handlers = {h1, h2}
  NoRec = NoRec
  NoToken = NoToken
  MaxFaults = 1
SYMMETRY Symmetry
INVARIANTS
  NoSelfApproval
  CredentialBehindFlag
  TokenUsedOnce
  ApprovalFollowsOperator
