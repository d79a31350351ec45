SPECIFICATION FairScanSpec
CONSTANTS
  Versions = {v1, v2}
  NoVersion = NoVersion
  ScanFaults = {"exception", "crash"}
  MaxCrashes = 1
  MaxQueued = 1
CHECK_DEADLOCK FALSE
INVARIANTS NoLostScan
PROPERTIES EveryScanEnds AutoSubmitted
