SPECIFICATION VerdictSpec
CONSTANTS
  Versions = {1, 2, 3}
  Files <- MCFiles
  Engines = {e1, e2}
  Packages = {p1, p2}
  Certificates = {c1, c2}
  p1 = p1
  p2 = p2
  c1 = c1
  c2 = c2
  e1 = e1
  e2 = e2
  NoPackage = NoPackage
  NoFile = NoFile
  NoJob = NoJob
  EditsDuringScan = FALSE
CHECK_DEADLOCK FALSE
INVARIANTS PassedWasScanned SameSigner PackagesAgree
