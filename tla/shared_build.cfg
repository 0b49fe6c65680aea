SPECIFICATION Spec
CONSTANTS
  Procs <- OuterInner
  Packages = {"gmp", "sodium"}
  Names = {"gmp", "sodium"}
  Binary <- AllBinary
  Git <- AllGit
  Pinned <- AllPinned
  Zst <- AllZst
  Archives <- MCArchives
  ArchiveOf <- MCArchiveOf
  DEPENDS <- MCDepends
  BuildTypes = {"Release"}
  BuildRequests <- OneType
  Files <- MCFiles
  FilesOf <- MCFilesOf
  Requests <- RequestBoth
  Rotting <- Nowhere
  CrashPoints <- Nowhere
  FailPoints <- Nowhere
  Unchecked <- Nowhere
  MaxFaults = 1
  None = None
  Garbage = Garbage
  Torn = Torn
INVARIANTS
  SuccessMeansComplete
