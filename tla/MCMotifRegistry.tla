--------------------------- MODULE MCMotifRegistry ---------------------------
(* MotifRegistry for TLC: threads and motif ids are interchangeable.        *)
EXTENDS MotifRegistry, TLC

MCSymmetry == Permutations(Threads) \cup Permutations(Ids)

\* After a restart only the first change of the pool is followed.
MCBound == restarts = 0 \/ epoch <= 1
==============================================================================
