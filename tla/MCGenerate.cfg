SPECIFICATION Spec
CONSTANTS
  h1 = h1
  h2 = h2
  p1 = p1
  i1 = i1
  a = a
  b = b
  t1 = t1
  t2 = t2
  None = None
  Handlers = {h1, h2}
  Prompts = {p1}
  Intents = {i1}
  MotifOf <- MCMotifOf
  Motifs = {a, b}
  Texts = {t1, t2}
  CacheSize = 1
  EmbedSize = 1
  MaxRequests = 3
  MaxMoves = 1
SYMMETRY MCSymmetry
INVARIANTS
  HitIsReplay
  DeletedNotReplayed
  CachesBounded
\* every request has been served
CHECK_DEADLOCK FALSE
