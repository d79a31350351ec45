SPECIFICATION LifecycleSpec
CONSTANTS
  Versions = {v1}
  NoVersion = NoVersion
  Requests = {r1}
  Schedulers = {s1}
  Faults = {"exception"}
  MaxDecisions = 2
  MaxQueue = 1
  MaxBusy = 9
  ScanFaults = {"crash", "exception"}
  MaxCrashes = 1
  MaxQueued = 1
CHECK_DEADLOCK FALSE
INVARIANTS ClaimHeld NothingWithoutAdmin
