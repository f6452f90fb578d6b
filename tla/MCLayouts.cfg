SPECIFICATION Spec
CONSTANTS
  Unit = 100
  Tol = 100
  MaxLanePeriodTiles = 16
  MaxInstances = 100
  ColorSlots <- MCColorSlots
  AllowedDpi <- MCAllowedDpi
  MaxTile = 50000
  MaxCover <- MCMaxCover
  RawIntents <- MCRawIntents
INVARIANTS
  GuardNeverFires
  RepairedStripesTile
  GroundVisibleByZ
  VariantsDraw
PROPERTIES
  BaseSurvives
CHECK_DEADLOCK FALSE
