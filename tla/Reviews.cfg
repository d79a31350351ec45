SPECIFICATION ReviewSpec
CONSTANTS
  Apps = {a1}
  Users = {u1, u2}
  Reporters = {p1}
  Stars = {1, 5}
  Names = {n1}
  ReviewIds = {i1, i2}
  Requests = {r1}
  NoReview = NoReview
  NoJob = NoJob
  NoRows = NoRows
  Blank = Blank
  MaxBusy = 1
  MayAbort = TRUE
CHECK_DEADLOCK FALSE
SYMMETRY Symmetry
INVARIANTS RatingFresh NamesCurrent NoOrphanReview
PROPERTIES HiddenStays
