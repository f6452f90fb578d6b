---------------------------- MODULE MCCandidates ----------------------------
(* Candidates for TLC: the drawings and the layouts are interchangeable.    *)
EXTENDS Candidates, TLC

MCSymmetry == Permutations(Svgs) \cup Permutations(Layouts)
=============================================================================
