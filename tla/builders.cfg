SPECIFICATION Spec
CONSTANTS
  Procs <- OuterInner
  Packages = {"gmp", "json", "sodium", "odd"}
  Names = {"gmp", "json", "sodium", "odd", "missing"}
  Binary <- AllBinary
  Git <- AllGit
  Pinned <- AllPinned
  Zst <- AllZst
  Archives <- MCArchives
  ArchiveOf <- MCArchiveOf
  DEPENDS <- MCDepends
  BuildTypes = {"Release"}
  BuildRequests <- OneType
  Files <- MCFiles
  FilesOf <- MCFilesOf
  Requests <- RequestBoth
  Rotting <- Nowhere
  CrashPoints <- NotInLines
  FailPoints <- Fallible
  Unchecked = {"wgetting"}
  MaxFaults = 1
  None = None
  Garbage = Garbage
  Torn = Torn
INVARIANTS
  UnpackVerified
  BuildHasPrefix
