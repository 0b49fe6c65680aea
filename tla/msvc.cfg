SPECIFICATION Spec
CONSTANTS
  Worlds <- MCWorlds
  LongPath = 4
  None = None
INVARIANTS
  ToolsOfBundle
  CacheFresh
  OneInstallation
  NamedCompilerUsed
CHECK_DEADLOCK FALSE
