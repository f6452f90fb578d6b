------------------------------ MODULE Candidates ------------------------------
(***************************************************************************)
(* The candidate search of src/app/engine/candidates.py: what is drawn of  *)
(* each design is ranked and thinned to a selection, and the selections of *)
(* all designs are merged into one set (generate_candidates steps 3 to 5,  *)
(* generate_candidate_set).  Layouts models how a design gets its layouts. *)
(*                                                                         *)
(* A candidate is [design, rank, layout, svg].  Its rank is the place of   *)
(* its rank_key (color count, clustering, layout, colorway, seed) among    *)
(* all rank keys: candidates of one design differ in it, those of two      *)
(* designs need not.  Warnings are left out.                               *)
(***************************************************************************)
EXTENDS Integers, FiniteSets

CONSTANTS
  Designs,    \* how many designs a request may have
  Counts,     \* candidate counts asked for
  MaxCount,   \* MAX_CANDIDATE_COUNT
  Ranks, Layouts, Svgs

ASSUME CountsAssumption ==
  Designs \in Nat \ {0} /\ MaxCount \in Nat \ {0} /\ Counts \subseteq Int
ASSUME RanksAssumption == Ranks \subseteq Nat /\ IsFiniteSet(Ranks)

VARIABLES
  stage,    \* "idle", "search", "done" or "raised"
  count,    \* the clamped count
  asked,    \* number of designs of the request
  tried,    \* number of designs searched
  pool,     \* all that was drawn of them
  found,    \* per_design: the selections of the designs that were not dropped
  kept,     \* the indices of those designs
  result    \* the candidate set
vars == <<stage, count, asked, tried, pool, found, kept, result>>

Clamp(n) == IF n < 1 THEN 1 ELSE IF n > MaxCount THEN MaxCount ELSE n

-----------------------------------------------------------------------------
\* rank_key, and the lower design on a tie.
Better(c, d) == c.rank < d.rank \/ (c.rank = d.rank /\ c.design < d.design)

\* The best of those with the same drawing.
Deduped(S) == {c \in S : \A d \in S : d.svg = c.svg => d = c \/ Better(c, d)}

\* The first n of S in this order.
First(n, S, before(_, _)) == {c \in S : Cardinality({d \in S : before(d, c)}) < n}

\* Mutant: all comes by rank, whatever its layout.
SelectByRank(S, n) == First(n, Deduped(S), Better)

\* Pass 1 takes the best of each layout, pass 2 fills up.
Select(S, n) ==
  LET drawn == Deduped(S)
      leads == {c \in drawn : \A d \in drawn : d.layout = c.layout => d = c \/ Better(c, d)}
      pass1 == First(n, leads, Better)
  IN pass1 \cup First(n - Cardinality(pass1), drawn \ pass1, Better)

Turn(c, S) == Cardinality({d \in S : d.design = c.design /\ Better(d, c)})

\* Mutant: one design after the other.
MergedInTurn(S, n) ==
  First(n, Deduped(S),
        LAMBDA c, d : c.design < d.design \/ (c.design = d.design /\ Better(c, d)))

\* Mutant: the same drawing may come from two designs.
MergedTwins(S, n) ==
  First(n, S,
        LAMBDA c, d : \/ Turn(c, S) < Turn(d, S)
                      \/ Turn(c, S) = Turn(d, S) /\ c.design < d.design)

\* Round-robin: in each turn the best left of each design, by its index.
Merged(S, n) ==
  LET drawn == Deduped(S)
  IN First(n, drawn,
           LAMBDA c, d : \/ Turn(c, drawn) < Turn(d, drawn)
                         \/ Turn(c, drawn) = Turn(d, drawn) /\ c.design < d.design)

-----------------------------------------------------------------------------
Init ==
  /\ stage = "idle" /\ count = 0 /\ asked = 0 /\ tried = 0
  /\ pool = {} /\ found = {} /\ kept = {} /\ result = {}

Request ==
  /\ stage = "idle"
  /\ stage' = "search"
  /\ \E n \in Counts : count' = Clamp(n)
  /\ \E k \in 1..Designs : asked' = k
  /\ UNCHANGED <<tried, pool, found, kept, result>>

Failed == <<>>

\* A variant that cannot be drawn is dropped.
Drawn(design, draw) ==
  {[design |-> design, rank |-> r, layout |-> draw[r][1], svg |-> draw[r][2]] :
     r \in {s \in Ranks : draw[s] # Failed}}

SearchDesign ==
  /\ stage = "search" /\ tried < asked
  /\ \E draw \in [Ranks -> (Layouts \X Svgs) \cup {Failed}] :
       /\ pool' = pool \cup Drawn(tried, draw)
       /\ found' = found \cup Select(Drawn(tried, draw), count)
  /\ kept' = kept \cup {tried}
  /\ tried' = tried + 1
  /\ UNCHANGED <<stage, count, asked, result>>

\* The base of a design is refused: the design is dropped with a warning.
DropDesign ==
  /\ stage = "search" /\ tried < asked
  /\ tried' = tried + 1
  /\ UNCHANGED <<stage, count, asked, pool, found, kept, result>>

\* When every design was dropped, the last error is raised.
Merge ==
  /\ stage = "search" /\ tried = asked
  /\ IF kept = {} THEN stage' = "raised" /\ UNCHANGED result
     ELSE stage' = "done" /\ result' = Merged(found, count)
  /\ UNCHANGED <<count, asked, tried, pool, found, kept>>

Next == Request \/ SearchDesign \/ DropDesign \/ Merge

Spec == Init /\ [][Next]_vars

-----------------------------------------------------------------------------
DrawingsOf(S) == {c.svg : c \in S}
LayoutsOf(S)  == {c.layout : c \in S}
Of(S, design) == {c \in S : c.design = design}
Min2(m, n)    == IF m < n THEN m ELSE n

(* The set has as many candidates as were asked for, or as many as there    *)
(* are different drawings over all the designs, and no two alike: neither   *)
(* the thinning of each design nor the two removals of duplicates costs a   *)
(* candidate the request could have had ("candidate_count first").          *)
SetIsFull ==
  stage = "done" =>
    /\ Cardinality(result) = Min2(count, Cardinality(DrawingsOf(pool)))
    /\ Cardinality(DrawingsOf(result)) = Cardinality(result)

(* The selection of a design shows as many of its layouts as fit in, before *)
(* any of them a second time ("layout diversity second").                   *)
LayoutsFirst ==
  \A d \in kept :
    Cardinality(LayoutsOf(Of(found, d)))
      = Min2(count, Cardinality(LayoutsOf(Deduped(Of(pool, d)))))

(* No design gets two candidates more than another that still has one to    *)
(* give ("cross-design diversity first").                                   *)
DesignsFair ==
  stage = "done" =>
    \A d, e \in kept :
      Of(Deduped(found), e) \ result # {} =>
        Cardinality(Of(result, d)) <= Cardinality(Of(result, e)) + 1
=============================================================================
