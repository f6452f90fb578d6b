\* One layer and every way to resolve it, request after request; or three layers
\* that host one another.
CONSTANTS
  Layers = {l1, l2, l3}
  NoLayer = NoLayer
  Ids = {1, 2}
  Descs = {face, whole, text}
  face = face
  leg = leg
  whole = whole
  text = text
  unscoped = unscoped
  TextDesc = text
  SubjectOf <- MCSubjectOf
  ScopeOf <- MCScopeOf
  NoScope = NoScope
  Distance <- MCDistance
  Near = 1
  TopK = 2
SPECIFICATION Spec
SYMMETRY MCSymmetry
CONSTRAINT MCBound
INVARIANTS
  ScopeKept
  OfferLeadsWithAnchor
  SurvivorsAreWhole
  DropsOnlyDependents
CHECK_DEADLOCK FALSE
