SPECIFICATION Spec
CONSTANTS
  Packages <- MCPackages
  Binary <- MCBinary
  LANGS <- MCLANGS
  DEPENDS <- MCDEPENDS
  Requests <- MCRequests
  Languages = {"C", "CPP"}
  Detections <- MCDetections
  None = None
INVARIANTS
  TypeOK
  BuildsForTarget
  PrefixNamesToolchain
  SubTypeOfBuild
CHECK_DEADLOCK FALSE
