SPECIFICATION ReleaseSpec
CONSTANTS
  Versions = {v1, v2}
  NoVersion = NoVersion
  Requests = {r1}
  Schedulers = {s1}
  Faults = {}
  MaxDecisions = 3
  MaxQueue = 0
  MaxBusy = 1
CHECK_DEADLOCK FALSE
SYMMETRY VersionSymmetry
INVARIANTS ScheduledHasDate CatalogFresh PendingDecidable
PROPERTIES OnlyAdminUnpublishes
