SPECIFICATION Spec
CONSTANTS
  Procs <- OuterInner
  Packages = {"json", "app", "nasm", "kit", "tools", "perl", "gcclibs"}
  Names = {"json", "app", "nasm", "kit", "tools", "perl", "gcclibs"}
  Binary <- AllBinary
  Git <- AllGit
  Pinned <- AllPinned
  Zst <- AllZst
  Archives <- MCArchives
  ArchiveOf <- MCArchiveOf
  DEPENDS <- MCDepends
  BuildTypes = {"Release"}
  BuildRequests <- OneType
  Files <- MCFiles
  FilesOf <- MCFilesOf
  Requests <- RequestBoth
  Rotting = {"perl.exe", "app.exe", "nasm.exe"}
  CrashPoints <- NotInLines
  FailPoints <- Fallible
  Unchecked = {"wgetting"}
  MaxFaults = 1
  None = None
  Garbage = Garbage
  Torn = Torn
INVARIANTS
  UnpackVerified
  CommitsWhole
  SuccessMeansComplete
  BuildHasPrefix
PROPERTIES
  ImplementsStore
