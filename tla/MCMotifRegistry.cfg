\* Two threads, two motifs, one spec and one image; a restart while the pool has
\* changed once at most.
CONSTANTS
  Threads = {t1, t2}
  Ids = {m1, m2}
  SpecKeys = {s}
  ImageKeys = {i}
  NoId = NoId
  NoKey = NoKey
  MaxPools = 3
  MaxEpoch = 2
  MaxRestarts = 1
SPECIFICATION Spec
SYMMETRY MCSymmetry
CONSTRAINT MCBound
INVARIANTS
  FingerprintFresh
  DeletedStaysGone
  ServedUsable
CHECK_DEADLOCK FALSE
