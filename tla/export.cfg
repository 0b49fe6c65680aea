SPECIFICATION Spec
CONSTANTS
  Names = {"Debug", "Release", "MinSizeRel"}
  Requests <- MCRequests
  Mappings <- MCMappings
  Lists <- MCLists
  Contents <- MCContents
  Outputs = {TRUE, FALSE}
  Targets = {TRUE, FALSE}
  Old = Old
  Overrun = Overrun
  NoArtifact = NoArtifact
INVARIANTS
  TypeOK
  InstalledFirst
  CompleteExport
  LinksExist
  NothingBeyond
CHECK_DEADLOCK FALSE
