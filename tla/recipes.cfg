SPECIFICATION Spec
CONSTANTS
  Procs <- OneProcess
  Packages = {"ssl", "tbb", "pin"}
  Names = {"ssl", "tbb", "pin"}
  Binary <- AllBinary
  Git <- AllGit
  Pinned <- AllPinned
  Zst <- AllZst
  Archives <- MCArchives
  ArchiveOf <- MCArchiveOf
  DEPENDS <- MCDepends
  BuildTypes = {"Release", "Debug"}
  BuildRequests <- OneOrTwo
  Files <- MCFiles
  FilesOf <- MCFilesOf
  Requests <- RequestAll
  Rotting <- Nowhere
  CrashPoints <- NotInLines
  FailPoints <- Fallible
  Unchecked = {"wgetting"}
  MaxFaults = 2
  None = None
  Garbage = Garbage
  Torn = Torn
INVARIANTS
  TypeOK
  UnpackVerified
  BuildIsolated
  CommitsWhole
  SuccessMeansComplete
PROPERTIES
  IntactKept
