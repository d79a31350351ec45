SPECIFICATION FairUploadSpec
CONSTANTS
  Uploads = {u1, u2}
  Slots = {a, b}
  UploadFaults = {"crash", "exception", "lostAck"}
  MaxFailures = 1
CHECK_DEADLOCK FALSE
INVARIANT ConfirmedHasFile
PROPERTIES ConfirmedIsFinal OrphansRemoved
