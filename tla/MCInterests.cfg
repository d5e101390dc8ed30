SPECIFICATION Spec
CONSTANTS
  Comps = {x, y}
  None = None
INVARIANTS TypeOK StaleOnlyByAlias ReceivedLosesOnlyExcludeAndLong ZerosOnlyAfterError
