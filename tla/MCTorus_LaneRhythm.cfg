SPECIFICATION CallSpec
CONSTANTS
  Unit = 1
  Tol = 1000000
  MaxLanePeriodTiles = 16
  MaxInstances = 20
  Tiles <- MCTiles
  Lengths <- MCLengths
  Phases <- MCPhases
  BandOffsets <- MCBandOffsets
  Slopes <- MCSlopes
  Rises <- MCRises
  DartTile = 4
  MaxDarts = 3
  MaxSateen = 7
  Reach = 3
  Masks <- MCMasks
  Side <- MCSide
  Designs <- MCDesigns
  ClothRequests <- MCClothRequests
  PaletteSlots <- MCSlots
  Colorways = {"default"}
  Weaves = {"solid", "twill-0", "twill-45", "herringbone"}
  Twills = {"twill-0", "twill-45"}
  MotifWeave = "twill-45"
  FabricDpi = 72
  MaxDpi = 600
INVARIANT LaneRhythmUniform
CHECK_DEADLOCK FALSE
