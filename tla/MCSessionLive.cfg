SPECIFICATION FairSpec
CONSTANTS
  Handlers = {h1, h2}
  RecraftLimit = 1
  FinalizeLimit = 1
  MaxSpecs = 1
  MaxTurns = 2
  MaxCalls = 2
  MaxUploads = 1
  MaxCrashes = 1
PROPERTY OperationsFinish
CHECK_DEADLOCK FALSE
