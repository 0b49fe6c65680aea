SPECIFICATION FairSpec
CONSTANTS
  LongOpts <- cmdLineOpts
  Chars <- MCChars
  Scenarios <- MCScenarios
  None = None
INVARIANTS
  ReadsAsWritten
  IndicesInRange
  OptionsFirst
  SplitsExactly
  SettingsAsGiven
  InspectedAsAssigned
  PrintsTheOneFile
PROPERTIES
  Exits
CHECK_DEADLOCK FALSE
