SPECIFICATION Spec
CONSTANTS
  Handlers = {h1}
  RecraftLimit = 1
  FinalizeLimit = 1
  MaxSpecs = 1
  MaxTurns = 3
  MaxCalls = 2
  MaxUploads = 1
  MaxCrashes = 0
PROPERTY RecraftOnlyOnConfirm
CHECK_DEADLOCK FALSE
