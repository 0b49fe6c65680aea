SPECIFICATION FairSpec
CONSTANTS
  Procs <- OneProcess
  Packages = {"perl", "gcclibs", "ssl", "pin"}
  Names = {"perl", "gcclibs", "ssl", "pin"}
  Binary <- AllBinary
  Git <- AllGit
  Pinned <- AllPinned
  Zst <- AllZst
  Archives <- MCArchives
  ArchiveOf <- MCArchiveOf
  DEPENDS <- MCDepends
  BuildTypes = {"Release"}
  BuildRequests <- OneType
  Files <- MCFiles
  FilesOf <- MCFilesOf
  Requests <- RequestRoots
  Rotting <- MCFiles
  CrashPoints <- Everywhere
  FailPoints <- Fallible
  Unchecked = {"wgetting", "deps", "reset", "lines"}
  MaxFaults = 2
  None = None
  Garbage = Garbage
  Torn = Torn
PROPERTIES
  Recovers
