SPECIFICATION FairReleaseSpec
CONSTANTS
  Versions = {v1}
  NoVersion = NoVersion
  Requests = {r1}
  Schedulers = {s1, s2}
  Faults = {"exception", "crash"}
  MaxDecisions = 2
  MaxQueue = 1
  MaxBusy = 2
CHECK_DEADLOCK FALSE
PROPERTIES ImplementsGate DueIsPublished
