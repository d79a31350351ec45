SPECIFICATION CategorySpec
CONSTANTS
  Requests = {r1}
  Roles = {"admin", "developer"}
  Categories = {c1, c2}
  Media = {m1, m2}
  NoMedia = NoMedia
  NoDraft = NoDraft
  NoSnapshot = NoSnapshot
  NoMove = NoMove
  Overlap = FALSE
  MaxScreenshots = 2
  MaxBusy = 1
  MayAbort = TRUE
CHECK_DEADLOCK FALSE
SYMMETRY Symmetry
INVARIANTS MediaKept MediaExact SubmittedIsCurrent CategoriesExist
PROPERTIES VisibleReviewed
