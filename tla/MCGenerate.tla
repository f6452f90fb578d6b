------------------------------ MODULE MCGenerate ------------------------------
(* Two handlers, a prompt and an intent, room for one response and one      *)
(* embedding.                                                               *)
EXTENDS Generate, TLC

CONSTANTS h1, h2, p1, i1, a, b, t1, t2

MCMotifOf  == (i1 :> a)
MCSymmetry == Permutations({h1, h2}) \cup Permutations({t1, t2})
=============================================================================
