SPECIFICATION SignInSpec
CONSTANTS
  Identifiers <- const_Identifiers
  Ip = ip
  MaxAttempts = 2
  MaxPerIp = 2
  Window = 2
  Tabs = {t1}
  Manager = manager
  RecoveryCodes = 1
  TokenTtl = 2
  MaxClock = 4
  MaxSecrets = 1
  MaxSets = 2
  MaxFailures = 2
INVARIANTS UsedOnce SessionsPaid TeamNotBlocked RetryWorks
