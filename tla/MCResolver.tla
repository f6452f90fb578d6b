----------------------------- MODULE MCResolver -----------------------------
(* Resolver for TLC.  The descriptors: two parts of one animal, another      *)
(* animal whole, a text, and a motif without a scope.                        *)
EXTENDS Resolver, TLC

CONSTANTS face, leg, whole, text, unscoped

MCSubjectOf ==
  face :> "giraffe" @@ leg :> "giraffe" @@ whole :> "giraffe" @@ text :> "text"
    @@ unscoped :> "giraffe"

MCScopeOf ==
  face :> "partial" @@ leg :> "partial" @@ whole :> "whole" @@ text :> "whole"
    @@ unscoped :> NoScope

\* The whole animal is close to its face; the parts are not close to each other.
MCDistance ==
  [d \in Descs |-> [e \in Descs |->
     IF d = e THEN 0 ELSE IF {d, e} = {face, whole} THEN 1 ELSE 2]]

\* A bound: a motif by itself in any pool, or motifs that host each other while
\* the pool is empty.
MCBound ==
  \/ /\ Cardinality({l \in Layers : layer[l].motif}) <= 1
     /\ \A l \in Layers : layer[l].host = NoLayer
  \/ /\ store = {}
     /\ \A d \in Descs : frozen[d] = NoId

MCSymmetry == Permutations(Layers)
==============================================================================
