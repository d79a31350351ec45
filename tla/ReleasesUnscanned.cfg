SPECIFICATION ReleaseSpec
CONSTANTS
  Versions = {v1}
  NoVersion = NoVersion
  Requests = {r1}
  Schedulers = {s1}
  Faults = {}
  MaxDecisions = 1
  MaxQueue = 1
  MaxBusy = 1
CHECK_DEADLOCK FALSE
PROPERTIES OnlyScannedGoLive
