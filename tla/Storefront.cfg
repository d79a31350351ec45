SPECIFICATION StoreSpec
CONSTANTS
  v1 = v1
  v2 = v2
  Versions = {v1, v2}
  CodeOf <- const_CodeOf
  Emails = {e1}
  NoEmail = NoEmail
  Devices = {d1, d2}
  NoDevice = NoDevice
  NoVersion = NoVersion
  NoJob = NoJob
  MaxTokens = 1
  TokenTtl = 1
  ViewWindow = 1
  MaxClock = 3
  MaxSteps = 4
CHECK_DEADLOCK FALSE
SYMMETRY Symmetry
INVARIANTS TokensHeldOnce IdentitiesApart FiltersAgree BetaConfined CountersBehind
