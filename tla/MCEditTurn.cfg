\* Two edits of an authored design.
SPECIFICATION Spec
CONSTANTS
  a = a
  b = b
  plain = plain
  tinted = tinted
  LayerIds <- MCLayerIds
  Single = {plain}
  Multi = {tinted}
  Pool = {plain}
  NoMotif = NoMotif
  Pending = Pending
  NoHost = NoHost
  Designs <- MCDesigns
  Proposals <- MCProposals
  MaxTurns = 3
  MaxTools = 2
INVARIANTS
  OfferMatchesSpec
  CommittedIsSound
PROPERTIES
  EditIsDelta
  LastDecisionWins
CHECK_DEADLOCK FALSE
