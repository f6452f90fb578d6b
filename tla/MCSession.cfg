\* Safety and refinement of a session, three turns.
SPECIFICATION Spec
CONSTANTS
  Handlers = {h1, h2}
  RecraftLimit = 2
  FinalizeLimit = 1
  MaxSpecs = 2
  MaxTurns = 3
  MaxCalls = 3
  MaxUploads = 1
  MaxCrashes = 1
SYMMETRY HandlerSymmetry
INVARIANTS
  OneOperation
  AccountExact
  CandidatesMatchIntent
  FinalizeFresh
  ListedAreCommits
  AtMostOneRetry
  GateResumable
PROPERTIES
  CallsApproved
  CostGateSpec
CHECK_DEADLOCK FALSE
