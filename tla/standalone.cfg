SPECIFICATION Spec
CONSTANTS
  Procs <- OneProcess
  Packages = {"perl", "gcclibs"}
  Names = {"perl", "gcclibs"}
  Binary <- AllBinary
  Git <- AllGit
  Pinned <- AllPinned
  Zst <- AllZst
  Archives <- MCArchives
  ArchiveOf <- MCArchiveOf
  DEPENDS <- MCDepends
  BuildTypes = {"Release"}
  BuildRequests <- OneType
  Files <- MCFiles
  FilesOf <- MCFilesOf
  Requests <- RequestAll
  Rotting <- Nowhere
  CrashPoints <- Nowhere
  FailPoints <- Nowhere
  Unchecked <- Nowhere
  MaxFaults = 2
  None = None
  Garbage = Garbage
  Torn = Torn
PROPERTIES
  IntactKept
