SPECIFICATION AccountSpec
CONSTANTS
  Members = {o, m}
  Owner = o
  Apps = {a1}
  Names = {n1, n2}
  Requests = {r1}
  NoApp = NoApp
  NoJob = NoJob
  MaxTokens = 1
CHECK_DEADLOCK FALSE
SYMMETRY Symmetry
INVARIANTS CopiesExact SignedOut OwnerProtected
