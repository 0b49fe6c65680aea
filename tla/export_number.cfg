SPECIFICATION Spec
CONSTANTS
  Names = {"Debug", "Release", "MinSizeRel"}
  Requests <- MCRequests
  Mappings <- MCMappings
  Lists <- MCLists
  Contents <- MCContents
  Outputs = {TRUE}
  Targets = {TRUE, FALSE}
  Old = Old
  Overrun = Overrun
  NoArtifact = NoArtifact
INVARIANTS
  DifferentNumberAborts
CHECK_DEADLOCK FALSE
