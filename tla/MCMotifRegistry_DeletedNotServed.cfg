\* One thread that vectorizes an image and deletes its motif.
CONSTANTS
  Threads = {t1}
  Ids = {m1}
  SpecKeys = {s}
  ImageKeys = {i}
  NoId = NoId
  NoKey = NoKey
  MaxPools = 3
  MaxEpoch = 2
  MaxRestarts = 0
SPECIFICATION Spec
INVARIANT DeletedNotServed
CHECK_DEADLOCK FALSE
