------------------------------ MODULE Resolver ------------------------------
(***************************************************************************)
(* resolve_motifs (app/adapters/motif_resolver.py): each motif spec of an  *)
(* intent is matched to its layer and turned into a motif id, by setting a *)
(* text, by vectorizing an uploaded image, or for a described motif by the *)
(* ladder of _resolve_one: an exact descriptor, the closest embedding, the *)
(* lowest id of the scope, a new motif.  Layers whose motif failed are     *)
(* dropped with the layers that they host.                                 *)
(*                                                                         *)
(* One request after another, all against one store and one freeze cache.  *)
(* The seed's hash picks any member of a variant pool.  A descriptor       *)
(* stands for the six normalized facets; a stored embedding is that of the *)
(* motif's own descriptor.                                                 *)
(***************************************************************************)
EXTENDS Naturals, FiniteSets

CONSTANTS
  Layers, NoLayer,   \* layer ids of the intent
  Ids,               \* motif ids, in their order
  Descs,             \* descriptors of motifs
  TextDesc,          \* the descriptor that text motifs are registered with
  SubjectOf,         \* the subject of a descriptor
  ScopeOf, NoScope,  \* its scope, if it has one
  Distance,          \* of a query from a stored embedding: 1 - similarity
  Near,              \* the distance of motif_similarity_tau
  TopK               \* motif_candidate_top_k

ASSUME LayersAssumption == NoLayer \notin Layers
ASSUME PoolAssumption == Ids \subseteq Nat \ {0}
ASSUME DescsAssumption ==
  /\ TextDesc \in Descs
  /\ Distance \in [Descs -> [Descs -> Nat]]
  /\ Near \in Nat
ASSUME TopKAssumption == TopK \in Nat \ {0}

VARIABLES
  store, about,  \* ids in the store; descriptor and embedding of each
  frozen,        \* recraft._motif_svg_cache
  pc,
  layer,         \* layers_by_id: the copy of the intent
  kept,          \* ids in resolved["layers"]
  attempted, failed, dropped,
  \* what really happened
  won,           \* layers for which some spec resolved
  last           \* how the last spec was resolved

pool    == <<store, about, frozen>>
request == <<layer, kept, attempted, failed, dropped>>
ghosts  == <<won, last>>
vars    == <<pool, pc, request, ghosts>>

NoId == 0

Layer == [motif : BOOLEAN, host : Layers \cup {NoLayer}, id : Ids \cup {NoId}]

\* A layer is hosted by another layer; what is not a motif has no placement.
Intents ==
  {i \in [Layers -> Layer] :
     \A l \in Layers :
       /\ i[l].id = NoId
       /\ i[l].host # l
       /\ i[l].host # NoLayer => i[l].motif}

NoIntent == [l \in Layers |-> [motif |-> FALSE, host |-> NoLayer, id |-> NoId]]

Row == [desc : Descs, embedded : BOOLEAN]

Hows   == {"-", "exact", "vector", "fallback", "generate"}
NoPick == [how |-> "-", desc |-> TextDesc, id |-> NoId, vector |-> FALSE]

Init ==
  /\ store = {}
  /\ about = [i \in Ids |-> [desc |-> TextDesc, embedded |-> FALSE]]
  /\ frozen = [d \in Descs |-> NoId]
  /\ pc = "idle"
  /\ layer = NoIntent
  /\ kept = Layers
  /\ attempted = {} /\ failed = {} /\ dropped = {}
  /\ won = {}
  /\ last = NoPick

-----------------------------------------------------------------------------
(* Retrieval.  An answer says which of the store's three queries worked,   *)
(* and whether there was an embedding client; a query that is not made     *)
(* does not fail.                                                          *)

Answer  == [scan : BOOLEAN, rank : BOOLEAN, group : BOOLEAN, vector : BOOLEAN]
Answers == {a \in Answer : /\ a.scan \/ (a.rank /\ a.group)
                           /\ a.vector \/ a.rank}

\* A fault: the key that variants were grouped by before it had the scope.
GroupKeySubject(d) == SubjectOf[d]

\* variant_group_key.
GroupKey(d) == <<SubjectOf[d], ScopeOf[d]>>

\* find_facets_meta: the scope is the only hard filter.
Candidates(d, a) ==
  IF a.scan /\ ScopeOf[d] # NoScope
    THEN {i \in store : ScopeOf[about[i].desc] = ScopeOf[d]}
    ELSE {}

Least(S) == CHOOSE i \in S : \A j \in S : i <= j

\* _exact_match: equal in all six facets.
Exact(d, cands) == {i \in cands : about[i].desc = d}

\* find_best_by_embedding.
Comparable(cands) == {i \in cands : about[i].embedded}
Far(d, i)         == Distance[d][about[i].desc]
Closest(d, cands) ==
  {i \in Comparable(cands) :
     \A j \in Comparable(cands) : Far(d, i) <= Far(d, j)}

\* Whether the embeddings have a say, and the motif that retrieval ends at.
ByVector(d, a) ==
  /\ Exact(d, Candidates(d, a)) = {}
  /\ a.vector /\ a.rank
  /\ Comparable(Candidates(d, a)) # {}

Anchor(d, a) ==
  LET cands == Candidates(d, a)
  IN  CASE Exact(d, cands) # {} -> Least(Exact(d, cands))
        [] ByVector(d, a)       -> Least(Closest(d, cands))
        [] OTHER                -> Least(cands)

Hit(d, a) ==
  /\ Candidates(d, a) # {}
  /\ ByVector(d, a) => Far(d, Anchor(d, a)) <= Near

HitHow(d, a) ==
  CASE Exact(d, Candidates(d, a)) # {} -> "exact"
    [] ByVector(d, a)                  -> "vector"
    [] OTHER                           -> "fallback"

\* _select_variant: the pool of the anchor's group, less what is too far off.
Variants(d, a) ==
  LET anchor == Anchor(d, a)
  IN  IF ~a.group THEN {anchor}
      ELSE {i \in store :
              /\ GroupKey(about[i].desc) = GroupKey(about[anchor].desc)
              /\ a.vector /\ i # anchor /\ about[i].embedded
                   => Far(d, i) <= Near}

\* present_candidates: the gate's free offers, best first, with or without a
\* query vector.  The rank of an offer; the closest goes before the exact one in
\* the fault.
Everything(vector) == [scan |-> TRUE, rank |-> TRUE, group |-> TRUE, vector |-> vector]

ExactOffer(d) ==
  LET e == Exact(d, Candidates(d, Everything(FALSE)))
  IN  IF e = {} THEN {} ELSE {Least(e)}

ClosestOffer(d, vector) ==
  LET cands == Candidates(d, Everything(vector))
  IN  IF vector /\ Comparable(cands) # {} THEN {Least(Closest(d, cands))} ELSE {}

OfferRankByVector(d, vector, i) ==
  IF i \in ClosestOffer(d, vector) THEN 0
  ELSE IF i \in ExactOffer(d) THEN 1 ELSE i + 1

OfferRank(d, vector, i) ==
  IF i \in ExactOffer(d) THEN 0
  ELSE IF i \in ClosestOffer(d, vector) THEN 1 ELSE i + 1

Offers(d, vector) ==
  LET cands == Candidates(d, Everything(vector))
      Before(i) ==
        {j \in cands : OfferRank(d, vector, j) < OfferRank(d, vector, i)}
  IN  {i \in cands : Cardinality(Before(i)) < TopK}

-----------------------------------------------------------------------------
(* One request.                                                            *)

Request(intent) ==
  /\ pc = "idle"
  /\ pc' = "resolving"
  /\ layer' = intent
  /\ UNCHANGED <<pool, kept, attempted, failed, dropped, ghosts>>

\* The request is over; the next one finds the pool as it is now.
Return ==
  /\ pc \in {"done", "raised"}
  /\ pc' = "idle"
  /\ layer' = NoIntent
  /\ kept' = Layers
  /\ attempted' = {} /\ failed' = {} /\ dropped' = {}
  /\ won' = {} /\ last' = NoPick
  /\ UNCHANGED pool

\* The next spec is for a motif layer; any other is skipped.
SpecFor(l) == pc = "resolving" /\ layer[l].motif

Resolved(l, id) ==
  /\ attempted' = attempted \cup {l}
  /\ layer' = [layer EXCEPT ![l].id = id]
  /\ won' = won \cup {l}
  /\ UNCHANGED <<pc, kept, failed, dropped>>

Failed(l) ==
  /\ attempted' = attempted \cup {l}
  /\ failed' = failed \cup {l}
  /\ UNCHANGED <<pool, pc, layer, kept, dropped, ghosts>>

\* register_motif: the row is written unless its id has one, or the write fails.
Registered(id, d, embedded) ==
  \/ UNCHANGED <<store, about>>
  \/ /\ id \notin store
     /\ store' = store \cup {id}
     /\ about' = [about EXCEPT ![id] = [desc |-> d, embedded |-> embedded]]

\* _resolve_text_layer.
TextMotif(l, id) ==
  /\ SpecFor(l)
  /\ Registered(id, TextDesc, FALSE)
  /\ Resolved(l, id)
  /\ last' = NoPick
  /\ UNCHANGED frozen

\* An uploaded image, vectorized now or before.
ImageMotif(l, d, vector, id) ==
  /\ SpecFor(l)
  /\ Registered(id, d, vector)
  /\ Resolved(l, id)
  /\ last' = NoPick
  /\ UNCHANGED frozen

\* No palette slot, no glyph; no such image, no vector for it, or it cannot be
\* vectorized.
TextOrImageFails(l) ==
  /\ SpecFor(l)
  /\ Failed(l)

\* embed_query raises; it is asked only when the scope has motifs.
EmbeddingDown(l, d) ==
  /\ SpecFor(l)
  /\ Candidates(d, Everything(TRUE)) # {}
  /\ Failed(l)

Reuse(l, d, a) ==
  /\ SpecFor(l)
  /\ Hit(d, a)
  /\ \E id \in Variants(d, a) :
       /\ Resolved(l, id)
       /\ last' = [how |-> HitHow(d, a), desc |-> d, id |-> id, vector |-> a.vector]
  /\ UNCHANGED pool

\* Else generate_via_recraft, frozen or not.
Miss(d) == \E a \in Answers : ~Hit(d, a)

ServeFrozen(l, d) ==
  /\ SpecFor(l)
  /\ Miss(d)
  /\ frozen[d] # NoId
  /\ Resolved(l, frozen[d])
  /\ last' = NoPick
  /\ UNCHANGED pool

\* Only a scope that has motifs was asked for a vector.
Generate(l, d, a, id) ==
  /\ SpecFor(l)
  /\ ~Hit(d, a)
  /\ frozen[d] = NoId
  /\ Registered(id, d, a.vector /\ Candidates(d, a) # {})
  /\ frozen' = [frozen EXCEPT ![d] = id]
  /\ Resolved(l, id)
  /\ last' = [how |-> "generate", desc |-> d, id |-> id, vector |-> a.vector]

GenerateFails(l, d) ==
  /\ SpecFor(l)
  /\ Miss(d)
  /\ frozen[d] = NoId
  /\ Failed(l)

-----------------------------------------------------------------------------
(* After the last spec.                                                    *)

AllResolved ==
  /\ pc = "resolving"
  /\ failed = {}
  /\ pc' = "done"
  /\ UNCHANGED <<pool, request, ghosts>>

AllFailed ==
  /\ pc = "resolving"
  /\ failed # {}
  /\ attempted \subseteq failed
  /\ pc' = "raised"
  /\ UNCHANGED <<pool, request, ghosts>>

SomeFailed ==
  /\ pc = "resolving"
  /\ failed # {}
  /\ ~(attempted \subseteq failed)
  /\ dropped' = failed
  /\ pc' = "dropping"
  /\ UNCHANGED <<pool, layer, kept, attempted, failed, ghosts>>

\* Faults: the cascade does not go on from what it dropped, or goes to the host.
DanglingOnce(l)   == layer[l].host \in failed
DanglingAsHost(l) == \E k \in dropped : layer[k].host = l

Dangling(l) == layer[l].host \in dropped

Cascade(l) ==
  /\ pc = "dropping"
  /\ l \notin dropped
  /\ Dangling(l)
  /\ dropped' = dropped \cup {l}
  /\ UNCHANGED <<pool, pc, layer, kept, attempted, failed, ghosts>>

Settled == pc = "dropping" /\ \A l \in Layers \ dropped : ~Dangling(l)

Survive ==
  /\ Settled
  /\ Layers \ dropped # {}
  /\ kept' = Layers \ dropped
  /\ pc' = "done"
  /\ UNCHANGED <<pool, layer, attempted, failed, dropped, ghosts>>

NobodySurvives ==
  /\ Settled
  /\ Layers \subseteq dropped
  /\ pc' = "raised"
  /\ UNCHANGED <<pool, request, ghosts>>

Described(l, d) ==
  \/ \E a \in Answers :
       Reuse(l, d, a) \/ \E id \in Ids : Generate(l, d, a, id)
  \/ ServeFrozen(l, d) \/ GenerateFails(l, d) \/ EmbeddingDown(l, d)

Next ==
  \/ \E intent \in Intents : Request(intent)
  \/ \E l \in Layers :
       \/ \E id \in Ids : TextMotif(l, id)
       \/ \E d \in Descs, vector \in BOOLEAN, id \in Ids :
            ImageMotif(l, d, vector, id)
       \/ TextOrImageFails(l)
       \/ \E d \in Descs : Described(l, d)
       \/ Cascade(l)
  \/ AllResolved \/ AllFailed \/ SomeFailed \/ Survive \/ NobodySurvives
  \/ Return

Spec == Init /\ [][Next]_vars

-----------------------------------------------------------------------------
(* Correctness.                                                            *)

\* Every variable has its type.
TypeOK ==
  /\ store \subseteq Ids
  /\ about \in [Ids -> Row]
  /\ frozen \in [Descs -> Ids \cup {NoId}]
  /\ pc \in {"idle", "resolving", "dropping", "done", "raised"}
  /\ layer \in [Layers -> Layer]
  /\ kept \subseteq Layers
  /\ attempted \subseteq Layers /\ failed \subseteq Layers /\ dropped \subseteq Layers
  /\ won \subseteq Layers
  /\ last \in [how : Hows, desc : Descs, id : Ids \cup {NoId}, vector : BOOLEAN]

\* An intent that is returned has its layers' hosts in it, and a motif for each
\* layer that had a spec, none of which failed: what survives can be composed
\* (resolve_motifs: "so a dangling host_layer cannot turn partial success into a
\* 422").
SurvivorsAreWhole ==
  pc = "done" =>
    \A l \in kept :
      /\ layer[l].host \in kept \cup {NoLayer}
      /\ l \in attempted => l \in won \ failed /\ layer[l].id # NoId

\* Nothing is dropped but what failed and what is hosted, over any number of
\* layers, on what failed: the dropped layers are in every set that has the failed
\* ones and is closed under hosting (resolve_motifs: "any layer that hosts on a
\* dropped layer is dropped too").
HostClosed(S) == \A l \in Layers : layer[l].host \in S => l \in S

DropsOnlyDependents ==
  \A S \in SUBSET Layers :
    failed \subseteq S /\ HostClosed(S) => dropped \cup (Layers \ kept) \subseteq S

\* A motif that is reused has the scope that was asked for, also when a variant
\* stands in for the motif that retrieval found (facets.py: the scope guards "the
\* one failure embeddings can't catch").
ScopeKept ==
  last.how \in {"exact", "vector", "fallback"} =>
    /\ last.id \in store
    /\ ScopeOf[about[last.id].desc] = ScopeOf[last.desc]

\* What the user is offered first, free of charge, is what the resolver would have
\* reused by itself; the two are written twice (present_candidates, "the
\* interactive gate's read-only counterpart").
OfferLeadsWithAnchor ==
  \A d \in Descs, vector \in BOOLEAN :
    Hit(d, Everything(vector)) =>
      LET anchor == Anchor(d, Everything(vector))
      IN  /\ anchor \in Offers(d, vector)
          /\ \A i \in Offers(d, vector) \ {anchor} :
               OfferRank(d, vector, anchor) < OfferRank(d, vector, i)
==============================================================================
