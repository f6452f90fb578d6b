--------------------------- MODULE ResolverProofs ---------------------------
(* The resolver's invariants, for any layers, motifs and descriptors.        *)
EXTENDS Resolver, FiniteSetTheorems, WellFoundedInduction, TLAPS

-----------------------------------------------------------------------------
(* Retrieval.                                                                *)

\* A set of naturals has a least member.
LEMMA LeastIsLeast ==
  ASSUME NEW S, S \subseteq Nat, S # {}
  PROVE  Least(S) \in S /\ \A j \in S : Least(S) <= j
<1> DEFINE R == OpToRel(<, Nat)
<1>1. \A x, y \in Nat : <<x, y>> \in R <=> x < y
  BY DEF OpToRel
<1>2. IsWellFoundedOn(R, Nat)
  BY NatLessThanWellFounded
<1> HIDE DEF R
<1>3. \E x \in S : \A y \in S : ~ (<<y, x>> \in R)
  BY <1>2, WFMin
<1>4. PICK x \in S : \A y \in S : ~ (<<y, x>> \in R)
  BY <1>3
<1>5. ASSUME NEW y \in S PROVE x <= y
  <2>1. x \in Nat /\ y \in Nat
    OBVIOUS
  <2>2. ~ (y < x)
    BY <2>1, <1>1, <1>4
  <2> QED
    BY <2>1, <2>2
<1>6. \E i \in S : \A j \in S : i <= j
  BY <1>5
<1> QED
  BY <1>6 DEF Least

\* Of motifs that can be compared, some are closest.
LEMMA SomeAreClosest ==
  ASSUME TypeOK, NEW d \in Descs, NEW cands, cands \subseteq store,
         Comparable(cands) # {}
  PROVE  Closest(d, cands) # {}
<1> DEFINE C == Comparable(cands)
           D == {Far(d, i) : i \in C}
<1>1. C \subseteq Ids
  BY DEF TypeOK, Comparable
<1>2. \A i \in C : Far(d, i) \in Nat
  BY <1>1, DescsAssumption DEF TypeOK, Row, Far
<1>3. D \subseteq Nat /\ D # {}
  BY <1>2
<1>4. Least(D) \in D /\ \A n \in D : Least(D) <= n
  BY <1>3, LeastIsLeast
<1>5. PICK i \in C : Far(d, i) = Least(D)
  BY <1>4
<1>6. \A j \in C : Far(d, i) <= Far(d, j)
  BY <1>4, <1>5
<1> QED
  BY <1>6 DEF Closest

LEMMA CandidatesInStore ==
  ASSUME NEW d, NEW a
  PROVE  /\ Candidates(d, a) \subseteq store
         /\ \A i \in Candidates(d, a) : ScopeOf[about[i].desc] = ScopeOf[d]
BY DEF Candidates

\* Retrieval ends at a motif of the scope.
LEMMA AnchorIsCandidate ==
  ASSUME TypeOK, NEW d \in Descs, NEW a, Candidates(d, a) # {}
  PROVE  /\ Anchor(d, a) \in Candidates(d, a)
         /\ Exact(d, Candidates(d, a)) # {} =>
              Anchor(d, a) = Least(Exact(d, Candidates(d, a)))
         /\ ByVector(d, a) => Anchor(d, a) = Least(Closest(d, Candidates(d, a)))
<1> DEFINE cands == Candidates(d, a)
<1>1. cands \subseteq store /\ store \subseteq Ids /\ Ids \subseteq Nat
  BY CandidatesInStore, PoolAssumption DEF TypeOK
<1>2. CASE Exact(d, cands) # {}
  <2>1. Exact(d, cands) \subseteq cands
    BY DEF Exact
  <2>2. Least(Exact(d, cands)) \in Exact(d, cands)
    BY <1>1, <1>2, <2>1, LeastIsLeast
  <2> QED
    BY <1>2, <2>1, <2>2 DEF Anchor, ByVector
<1>3. CASE ByVector(d, a)
  <2>1. Exact(d, cands) = {} /\ Comparable(cands) # {}
    BY <1>3 DEF ByVector
  <2>2. Closest(d, cands) # {} /\ Closest(d, cands) \subseteq cands
    BY <1>1, <2>1, SomeAreClosest DEF Closest, Comparable
  <2>3. Least(Closest(d, cands)) \in Closest(d, cands)
    BY <1>1, <2>2, LeastIsLeast
  <2> QED
    BY <1>3, <2>1, <2>2, <2>3 DEF Anchor
<1>4. CASE Exact(d, cands) = {} /\ ~ByVector(d, a)
  <2>1. Least(cands) \in cands
    BY <1>1, LeastIsLeast
  <2> QED
    BY <1>4, <2>1 DEF Anchor
<1> QED
  BY <1>2, <1>3, <1>4

\* A variant is a motif of the store and of the scope.
LEMMA VariantsKeepScope ==
  ASSUME TypeOK, NEW d \in Descs, NEW a, Hit(d, a), NEW i \in Variants(d, a)
  PROVE  i \in store /\ ScopeOf[about[i].desc] = ScopeOf[d]
<1> DEFINE anchor == Anchor(d, a)
<1>1. anchor \in store /\ ScopeOf[about[anchor].desc] = ScopeOf[d]
  BY AnchorIsCandidate, CandidatesInStore DEF Hit
<1>2. CASE ~a.group
  BY <1>1, <1>2 DEF Variants
<1>3. CASE a.group
  <2>1. i \in store /\ GroupKey(about[i].desc) = GroupKey(about[anchor].desc)
    BY <1>3 DEF Variants
  <2>2. ScopeOf[about[i].desc] = ScopeOf[about[anchor].desc]
    BY <2>1 DEF GroupKey
  <2> QED
    BY <1>1, <2>1, <2>2
<1> QED
  BY <1>2, <1>3

-----------------------------------------------------------------------------
(* Types.                                                                    *)

LEMMA InitType == Init => TypeOK
BY DescsAssumption DEF Init, TypeOK, NoIntent, Layer, Row, NoPick, Hows, NoId

LEMMA ResolvedType ==
  ASSUME TypeOK, NEW l \in Layers, NEW id \in Ids, Resolved(l, id)
  PROVE  /\ attempted' \subseteq Layers /\ won' \subseteq Layers
         /\ layer' \in [Layers -> Layer]
         /\ UNCHANGED <<pc, kept, failed, dropped>>
<1>1. layer[l] \in Layer
  BY DEF TypeOK
<1>2. [layer[l] EXCEPT !.id = id] \in Layer
  BY <1>1 DEF Layer
<1>3. layer' = [layer EXCEPT ![l] = [layer[l] EXCEPT !.id = id]]
  BY DEF Resolved
<1> QED
  BY <1>2, <1>3 DEF Resolved, TypeOK

LEMMA RegisteredType ==
  ASSUME TypeOK, NEW id \in Ids, NEW d \in Descs, NEW e \in BOOLEAN,
         Registered(id, d, e)
  PROVE  store' \subseteq Ids /\ about' \in [Ids -> Row]
BY DEF Registered, TypeOK, Row

LEMMA PickType ==
  ASSUME NEW h \in Hows, NEW d \in Descs, NEW id \in Ids, NEW v \in BOOLEAN
  PROVE  [how |-> h, desc |-> d, id |-> id, vector |-> v] \in
           [how : Hows, desc : Descs, id : Ids \cup {NoId}, vector : BOOLEAN]
OBVIOUS

LEMMA NoPickType ==
  NoPick \in [how : Hows, desc : Descs, id : Ids \cup {NoId}, vector : BOOLEAN]
BY DescsAssumption DEF NoPick, Hows

LEMMA AnswersType == \A a \in Answers : a \in Answer /\ a.vector \in BOOLEAN
BY DEF Answers, Answer

\* A step for a spec.
LEMMA SpecType ==
  ASSUME TypeOK, NEW l \in Layers,
         \/ \E id \in Ids : TextMotif(l, id)
         \/ \E d \in Descs, vector \in BOOLEAN, id \in Ids : ImageMotif(l, d, vector, id)
         \/ TextOrImageFails(l)
         \/ \E d \in Descs : Described(l, d)
  PROVE  TypeOK'
<1>1. CASE \E id \in Ids : TextMotif(l, id)
  <2>1. PICK id \in Ids : TextMotif(l, id)
    BY <1>1
  <2>2. store' \subseteq Ids /\ about' \in [Ids -> Row]
    BY <2>1, RegisteredType, DescsAssumption DEF TextMotif
  <2> QED
    BY <2>1, <2>2, ResolvedType, NoPickType DEF TextMotif, TypeOK
<1>2. CASE \E d \in Descs, vector \in BOOLEAN, id \in Ids :
             ImageMotif(l, d, vector, id)
  <2>1. PICK d \in Descs, vector \in BOOLEAN, id \in Ids : ImageMotif(l, d, vector, id)
    BY <1>2
  <2>2. store' \subseteq Ids /\ about' \in [Ids -> Row]
    BY <2>1, RegisteredType DEF ImageMotif
  <2> QED
    BY <2>1, <2>2, ResolvedType, NoPickType DEF ImageMotif, TypeOK
<1>3. CASE TextOrImageFails(l)
  BY <1>3 DEF TextOrImageFails, Failed, pool, ghosts, TypeOK
<1>4. CASE \E d \in Descs : Described(l, d)
  <2>1. PICK d \in Descs : Described(l, d)
    BY <1>4
  <2>2. ASSUME NEW a \in Answers, Reuse(l, d, a) PROVE TypeOK'
    <3>1. PICK id \in Variants(d, a) :
            /\ Resolved(l, id)
            /\ last' = [how |-> HitHow(d, a), desc |-> d, id |-> id,
                        vector |-> a.vector]
      BY <2>2 DEF Reuse
    <3>2. id \in Ids
      BY <2>2, VariantsKeepScope DEF Reuse, TypeOK
    <3>3. HitHow(d, a) \in Hows
      BY DEF HitHow, Hows
    <3>4. last' \in [how : Hows, desc : Descs, id : Ids \cup {NoId}, vector : BOOLEAN]
      BY <3>1, <3>2, <3>3, AnswersType, PickType
    <3> QED
      BY <2>2, <3>1, <3>2, <3>4, ResolvedType DEF Reuse, pool, TypeOK
  <2>3. ASSUME NEW a \in Answers, NEW id \in Ids, Generate(l, d, a, id) PROVE TypeOK'
    <3>1. (a.vector /\ Candidates(d, a) # {}) \in BOOLEAN
      BY AnswersType
    <3>2. store' \subseteq Ids /\ about' \in [Ids -> Row]
      BY <2>3, <3>1, RegisteredType DEF Generate
    <3>3. last' \in [how : Hows, desc : Descs, id : Ids \cup {NoId}, vector : BOOLEAN]
      BY <2>3, AnswersType, PickType DEF Generate, Hows
    <3>4. frozen' \in [Descs -> Ids \cup {NoId}]
      BY <2>3 DEF Generate, TypeOK
    <3> QED
      BY <2>3, <3>2, <3>3, <3>4, ResolvedType DEF Generate, TypeOK
  <2>4. ASSUME ServeFrozen(l, d) PROVE TypeOK'
    <3>1. frozen[d] \in Ids
      BY <2>4 DEF ServeFrozen, TypeOK
    <3> QED
      BY <2>4, <3>1, ResolvedType, NoPickType DEF ServeFrozen, pool, TypeOK
  <2>5. ASSUME GenerateFails(l, d) \/ EmbeddingDown(l, d) PROVE TypeOK'
    BY <2>5 DEF GenerateFails, EmbeddingDown, Failed, pool, ghosts, TypeOK
  <2> QED
    BY <2>1, <2>2, <2>3, <2>4, <2>5 DEF Described
<1> QED
  BY <1>1, <1>2, <1>3, <1>4

LEMMA NextType == TypeOK /\ [Next]_vars => TypeOK'
<1> SUFFICES ASSUME TypeOK, [Next]_vars PROVE TypeOK'
  OBVIOUS
<1>1. ASSUME NEW intent \in Intents, Request(intent) PROVE TypeOK'
  BY <1>1 DEF Request, Intents, TypeOK, pool, ghosts
<1>2. ASSUME NEW l \in Layers, Cascade(l) PROVE TypeOK'
  BY <1>2 DEF Cascade, TypeOK, pool, ghosts
<1>3. ASSUME AllResolved \/ AllFailed \/ SomeFailed \/ Survive \/ NobodySurvives
      PROVE  TypeOK'
  BY <1>3 DEF AllResolved, AllFailed, SomeFailed, Survive, NobodySurvives, TypeOK,
              pool, request, ghosts
<1>4. ASSUME Return PROVE TypeOK'
  <2>1. NoIntent \in [Layers -> Layer]
    BY DEF NoIntent, Layer
  <2> QED
    BY <1>4, <2>1, NoPickType DEF Return, TypeOK, pool
<1>5. ASSUME UNCHANGED vars PROVE TypeOK'
  BY <1>5 DEF vars, TypeOK, pool, request, ghosts
<1> QED
  BY <1>1, <1>2, <1>3, <1>4, <1>5, SpecType DEF Next

\* Types are kept for ever (the whole of resolve_motifs).
THEOREM TypeCorrect == Spec => []TypeOK
<1> QED
  BY InitType, NextType, PTL DEF Spec

-----------------------------------------------------------------------------
(* What is dropped.                                                          *)

\* Where each stage of a request stands: before the cascade nothing is dropped,
\* after it nothing that is kept is hosted on what is not.
StageOK ==
  /\ pc # "done" => kept = Layers
  /\ pc \in {"idle", "resolving"} => dropped = {}
  /\ pc = "idle" => won = {}
  /\ pc = "dropping" => failed \subseteq dropped
  /\ pc = "done" =>
       /\ kept = Layers \ dropped
       /\ failed \subseteq dropped
       /\ \A l \in kept : ~Dangling(l)

\* Each attempt resolved or failed, and what resolved has a motif.
AttemptsOK ==
  /\ attempted \subseteq won \cup failed
  /\ \A l \in won : layer[l].id # NoId

DropInv == StageOK /\ AttemptsOK /\ DropsOnlyDependents

LEMMA NoIdIsNone == NoId \notin Ids
BY PoolAssumption DEF NoId

\* A spec's step resolves its layer or fails it, and moves nothing else.
SpecStep(l) ==
  /\ SpecFor(l)
  /\ UNCHANGED <<pc, kept, dropped>>
  /\ attempted' = attempted \cup {l}
  /\ \/ /\ failed' = failed /\ won' = won \cup {l}
        /\ \E id \in Ids : layer' = [layer EXCEPT ![l].id = id]
     \/ failed' = failed \cup {l} /\ UNCHANGED <<won, layer>>

LEMMA SpecSteps ==
  ASSUME TypeOK, NEW l \in Layers,
         \/ \E id \in Ids : TextMotif(l, id)
         \/ \E d \in Descs, vector \in BOOLEAN, id \in Ids : ImageMotif(l, d, vector, id)
         \/ TextOrImageFails(l)
         \/ \E d \in Descs : Described(l, d)
  PROVE  SpecStep(l)
<1>1. ASSUME NEW id \in Ids, SpecFor(l), Resolved(l, id) PROVE SpecStep(l)
  BY <1>1 DEF Resolved, SpecStep
<1>2. ASSUME SpecFor(l), Failed(l) PROVE SpecStep(l)
  BY <1>2 DEF Failed, ghosts, SpecStep
<1>3. CASE \E id \in Ids : TextMotif(l, id)
  BY <1>1, <1>3 DEF TextMotif
<1>4. CASE \E d \in Descs, vector \in BOOLEAN, id \in Ids :
             ImageMotif(l, d, vector, id)
  BY <1>1, <1>4 DEF ImageMotif
<1>5. CASE TextOrImageFails(l)
  BY <1>2, <1>5 DEF TextOrImageFails
<1>6. CASE \E d \in Descs : Described(l, d)
  <2>1. PICK d \in Descs : Described(l, d)
    BY <1>6
  <2>2. ASSUME NEW a \in Answers, Reuse(l, d, a) PROVE SpecStep(l)
    <3>1. PICK id \in Variants(d, a) : Resolved(l, id)
      BY <2>2 DEF Reuse
    <3>2. id \in Ids
      BY <2>2, VariantsKeepScope DEF Reuse, TypeOK
    <3> QED
      BY <1>1, <2>2, <3>1, <3>2 DEF Reuse
  <2>3. ASSUME NEW a \in Answers, NEW id \in Ids, Generate(l, d, a, id)
        PROVE  SpecStep(l)
    BY <1>1, <2>3 DEF Generate
  <2>4. ASSUME ServeFrozen(l, d) PROVE SpecStep(l)
    <3>1. frozen[d] \in Ids
      BY <2>4 DEF ServeFrozen, TypeOK
    <3> QED
      BY <1>1, <2>4, <3>1 DEF ServeFrozen
  <2>5. ASSUME GenerateFails(l, d) \/ EmbeddingDown(l, d) PROVE SpecStep(l)
    BY <1>2, <2>5 DEF GenerateFails, EmbeddingDown
  <2> QED
    BY <2>1, <2>2, <2>3, <2>4, <2>5 DEF Described
<1> QED
  BY <1>3, <1>4, <1>5, <1>6

LEMMA SpecStepKeeps ==
  ASSUME TypeOK, DropInv, NEW l \in Layers, SpecStep(l)
  PROVE  DropInv'
<1>1. pc = "resolving" /\ pc' = "resolving" /\ kept' = Layers /\ dropped' = {}
  BY DEF SpecStep, SpecFor, DropInv, StageOK
<1>2. StageOK'
  BY <1>1 DEF StageOK
<1>3. attempted' \subseteq won' \cup failed'
  BY DEF SpecStep, DropInv, AttemptsOK
<1>4. ASSUME NEW k \in won' PROVE layer'[k].id # NoId
  <2>1. CASE UNCHANGED <<won, layer>>
    BY <1>4, <2>1 DEF DropInv, AttemptsOK
  <2>2. CASE /\ won' = won \cup {l}
             /\ \E id \in Ids : layer' = [layer EXCEPT ![l].id = id]
    <3>1. PICK id \in Ids : layer' = [layer EXCEPT ![l].id = id]
      BY <2>2
    <3>2. layer'[l].id = id
      BY <3>1 DEF TypeOK, Layer
    <3>3. k \in Layers
      BY <1>4, <2>2 DEF TypeOK
    <3>4. k # l => layer'[k] = layer[k] /\ k \in won
      BY <1>4, <2>2, <3>1, <3>3 DEF TypeOK
    <3> QED
      BY <3>1, <3>2, <3>4, NoIdIsNone DEF DropInv, AttemptsOK
  <2> QED
    BY <2>1, <2>2 DEF SpecStep
<1>5. DropsOnlyDependents'
  <2>1. dropped' \cup (Layers \ kept') = {}
    BY <1>1
  <2> QED
    BY <2>1 DEF DropsOnlyDependents
<1> QED
  BY <1>2, <1>3, <1>4, <1>5 DEF DropInv, AttemptsOK

LEMMA InitDrop == Init => DropInv
BY DEF Init, DropInv, StageOK, AttemptsOK, DropsOnlyDependents

LEMMA NextDrop == TypeOK /\ DropInv /\ [Next]_vars => DropInv'
<1> SUFFICES ASSUME TypeOK, DropInv, [Next]_vars PROVE DropInv'
  OBVIOUS
<1> USE DEF DropInv
<1>1. ASSUME NEW intent \in Intents, Request(intent) PROVE DropInv'
  <2>1. pc = "idle" /\ pc' = "resolving"
    BY <1>1 DEF Request
  <2>2. UNCHANGED <<kept, attempted, failed, dropped, won>>
    BY <1>1 DEF Request, ghosts
  <2>3. kept' = Layers /\ dropped' = {}
    BY <2>1, <2>2 DEF StageOK
  <2>4. StageOK' /\ DropsOnlyDependents'
    BY <2>1, <2>3 DEF StageOK, DropsOnlyDependents
  <2>5. won' = {}
    BY <2>1, <2>2 DEF StageOK
  <2> QED
    BY <2>2, <2>4, <2>5 DEF AttemptsOK
<1>2. ASSUME NEW l \in Layers, Cascade(l) PROVE DropInv'
  <2>1. /\ UNCHANGED <<pc, layer, kept, attempted, failed, won>>
        /\ pc = "dropping" /\ dropped' = dropped \cup {l} /\ Dangling(l)
    BY <1>2 DEF Cascade, ghosts
  <2>2. StageOK' /\ AttemptsOK'
    BY <2>1 DEF StageOK, AttemptsOK
  <2>3. ASSUME NEW S \in SUBSET Layers, failed' \subseteq S, HostClosed(S)'
        PROVE  dropped' \cup (Layers \ kept') \subseteq S
    <3>1. HostClosed(S) /\ failed \subseteq S
      BY <2>1, <2>3 DEF HostClosed
    <3>2. dropped \subseteq S /\ Layers \ kept \subseteq S
      BY <3>1 DEF DropsOnlyDependents
    <3>3. l \in S
      BY <2>1, <3>1, <3>2 DEF Dangling, HostClosed
    <3> QED
      BY <2>1, <3>2, <3>3
  <2> QED
    BY <2>2, <2>3 DEF DropsOnlyDependents
<1>3. ASSUME AllResolved PROVE DropInv'
  <2>1. /\ UNCHANGED <<layer, kept, attempted, failed, dropped, won>>
        /\ pc = "resolving" /\ pc' = "done" /\ failed = {}
    BY <1>3 DEF AllResolved, request, ghosts
  <2>2. kept = Layers /\ dropped = {}
    BY <2>1 DEF StageOK
  <2> QED
    BY <2>1, <2>2 DEF StageOK, AttemptsOK, DropsOnlyDependents, HostClosed, Dangling
<1>4. ASSUME AllFailed PROVE DropInv'
  <2>1. /\ UNCHANGED <<layer, kept, attempted, failed, dropped, won>>
        /\ pc = "resolving" /\ pc' = "raised"
    BY <1>4 DEF AllFailed, request, ghosts
  <2> QED
    BY <2>1 DEF StageOK, AttemptsOK, DropsOnlyDependents, HostClosed
<1>5. ASSUME SomeFailed PROVE DropInv'
  <2>1. /\ UNCHANGED <<layer, kept, attempted, failed, won>>
        /\ pc = "resolving" /\ pc' = "dropping" /\ dropped' = failed
    BY <1>5 DEF SomeFailed, ghosts
  <2>2. kept = Layers
    BY <2>1 DEF StageOK
  <2> QED
    BY <2>1, <2>2 DEF StageOK, AttemptsOK, DropsOnlyDependents, HostClosed
<1>6. ASSUME Survive PROVE DropInv'
  <2>1. /\ UNCHANGED <<layer, attempted, failed, dropped, won>>
        /\ pc = "dropping" /\ pc' = "done" /\ kept' = Layers \ dropped
        /\ \A l \in Layers \ dropped : ~Dangling(l)
    BY <1>6 DEF Survive, Settled, ghosts
  <2>2. StageOK' /\ AttemptsOK'
    BY <2>1 DEF StageOK, AttemptsOK, Dangling
  <2>3. ASSUME NEW S \in SUBSET Layers, failed' \subseteq S, HostClosed(S)'
        PROVE  dropped' \cup (Layers \ kept') \subseteq S
    <3>1. HostClosed(S) /\ failed \subseteq S
      BY <2>1, <2>3 DEF HostClosed
    <3>2. dropped \subseteq S
      BY <3>1 DEF DropsOnlyDependents
    <3> QED
      BY <2>1, <3>2
  <2> QED
    BY <2>2, <2>3 DEF DropsOnlyDependents
<1>7. ASSUME NobodySurvives PROVE DropInv'
  <2>1. /\ UNCHANGED <<layer, kept, attempted, failed, dropped, won>>
        /\ pc = "dropping" /\ pc' = "raised"
    BY <1>7 DEF NobodySurvives, Settled, request, ghosts
  <2> QED
    BY <2>1 DEF StageOK, AttemptsOK, DropsOnlyDependents, HostClosed
<1>8. ASSUME Return PROVE DropInv'
  BY <1>8 DEF Return, StageOK, AttemptsOK, DropsOnlyDependents
<1>9. ASSUME UNCHANGED vars PROVE DropInv'
  BY <1>9 DEF vars, request, ghosts, StageOK, AttemptsOK, DropsOnlyDependents,
              HostClosed, Dangling
<1> QED
  BY <1>1, <1>2, <1>3, <1>4, <1>5, <1>6, <1>7, <1>8, <1>9, SpecSteps, SpecStepKeeps
     DEF Next

\* What is dropped is in every set that has the failed layers and is closed under
\* hosting.
THEOREM DropsOnlyDependentsAlways == Spec => []DropsOnlyDependents
<1>1. TypeOK /\ DropInv /\ [Next]_vars => TypeOK' /\ DropInv'
  BY NextType, NextDrop
<1>2. DropInv => DropsOnlyDependents
  BY DEF DropInv
<1> QED
  BY InitType, InitDrop, <1>1, <1>2, PTL DEF Spec

\* What is returned has its hosts and its motifs.
THEOREM SurvivorsAreWholeAlways == Spec => []SurvivorsAreWhole
<1>1. TypeOK /\ DropInv /\ [Next]_vars => TypeOK' /\ DropInv'
  BY NextType, NextDrop
<1>2. ASSUME TypeOK, DropInv PROVE SurvivorsAreWhole
  <2> SUFFICES ASSUME pc = "done", NEW l \in kept
               PROVE  /\ layer[l].host \in kept \cup {NoLayer}
                      /\ l \in attempted => l \in won \ failed /\ layer[l].id # NoId
    BY DEF SurvivorsAreWhole
  <2>1. kept = Layers \ dropped /\ failed \subseteq dropped /\ ~Dangling(l)
    BY <1>2 DEF DropInv, StageOK
  <2>2. layer[l].host \in Layers \cup {NoLayer}
    BY <1>2, <2>1 DEF TypeOK, Layer
  <2>3. layer[l].host \notin dropped
    BY <2>1 DEF Dangling
  <2>4. l \in attempted => l \in won
    BY <1>2, <2>1 DEF DropInv, AttemptsOK
  <2> QED
    BY <1>2, <2>1, <2>2, <2>3, <2>4 DEF DropInv, AttemptsOK
<1> QED
  BY InitType, InitDrop, <1>1, <1>2, PTL DEF Spec

-----------------------------------------------------------------------------
(* What is reused, offered and paid.                                         *)

LEMMA NextScope == TypeOK /\ ScopeKept /\ [Next]_vars => ScopeKept'
<1> SUFFICES ASSUME TypeOK, ScopeKept, [Next]_vars PROVE ScopeKept'
  OBVIOUS
<1>1. ASSUME UNCHANGED <<store, about, last>> PROVE ScopeKept'
  BY <1>1 DEF ScopeKept
<1>2. ASSUME last' = NoPick \/ last'.how = "generate" PROVE ScopeKept'
  BY <1>2 DEF NoPick, ScopeKept
<1>3. ASSUME NEW l \in Layers, NEW d \in Descs, NEW a \in Answers, Reuse(l, d, a)
      PROVE  ScopeKept'
  <2>1. PICK id \in Variants(d, a) :
          last' = [how |-> HitHow(d, a), desc |-> d, id |-> id, vector |-> a.vector]
    BY <1>3 DEF Reuse
  <2>2. id \in store /\ ScopeOf[about[id].desc] = ScopeOf[d]
    BY <1>3, VariantsKeepScope DEF Reuse
  <2>3. UNCHANGED <<store, about>>
    BY <1>3 DEF Reuse, pool
  <2> QED
    BY <2>1, <2>2, <2>3 DEF ScopeKept
<1>4. ASSUME NEW l \in Layers, NEW d \in Descs, Described(l, d) PROVE ScopeKept'
  <2>1. CASE ServeFrozen(l, d)
    BY <1>2, <2>1 DEF ServeFrozen
  <2>2. CASE GenerateFails(l, d) \/ EmbeddingDown(l, d)
    BY <1>1, <2>2 DEF GenerateFails, EmbeddingDown, Failed, pool, ghosts
  <2>3. CASE \E a \in Answers : \E id \in Ids : Generate(l, d, a, id)
    BY <1>2, <2>3 DEF Generate
  <2> QED
    BY <1>3, <1>4, <2>1, <2>2, <2>3 DEF Described
<1>5. ASSUME NEW l \in Layers,
             \/ \E id \in Ids : TextMotif(l, id)
             \/ \E d \in Descs, vector \in BOOLEAN, id \in Ids :
                  ImageMotif(l, d, vector, id)
      PROVE  ScopeKept'
  BY <1>2, <1>5 DEF TextMotif, ImageMotif
<1>6. ASSUME NEW l \in Layers, TextOrImageFails(l) PROVE ScopeKept'
  BY <1>1, <1>6 DEF TextOrImageFails, Failed, pool, ghosts
<1>7. ASSUME NEW l \in Layers, Cascade(l) PROVE ScopeKept'
  BY <1>1, <1>7 DEF Cascade, pool, ghosts
<1>8. ASSUME NEW intent \in Intents, Request(intent) PROVE ScopeKept'
  BY <1>1, <1>8 DEF Request, pool, ghosts
<1>9. ASSUME AllResolved \/ AllFailed \/ SomeFailed \/ Survive \/ NobodySurvives
      PROVE  ScopeKept'
  BY <1>1, <1>9 DEF AllResolved, AllFailed, SomeFailed, Survive, NobodySurvives,
                    pool, ghosts
<1>10. ASSUME Return PROVE ScopeKept'
  BY <1>2, <1>10 DEF Return
<1>11. ASSUME UNCHANGED vars PROVE ScopeKept'
  BY <1>1, <1>11 DEF vars, pool, ghosts
<1> QED
  BY <1>4, <1>5, <1>6, <1>7, <1>8, <1>9, <1>10, <1>11 DEF Next

\* A motif that is reused has the scope that was asked for.
THEOREM ScopeKeptAlways == Spec => []ScopeKept
<1>1. Init => ScopeKept
  BY DEF Init, NoPick, ScopeKept
<1>2. TypeOK /\ ScopeKept /\ [Next]_vars => TypeOK' /\ ScopeKept'
  BY NextType, NextScope
<1> QED
  BY InitType, <1>1, <1>2, PTL DEF Spec

\* In any pool, the first offer is what the resolver would have reused.
LEMMA AnchorLeads == TypeOK => OfferLeadsWithAnchor
<1> SUFFICES ASSUME TypeOK, NEW d \in Descs, NEW vector \in BOOLEAN,
                    Hit(d, Everything(vector))
             PROVE  LET anchor == Anchor(d, Everything(vector))
                    IN  /\ anchor \in Offers(d, vector)
                        /\ \A i \in Offers(d, vector) \ {anchor} :
                             OfferRank(d, vector, anchor) < OfferRank(d, vector, i)
  BY DEF OfferLeadsWithAnchor
<1> DEFINE a == Everything(vector)
           cands == Candidates(d, a)
           anchor == Anchor(d, a)
           exact == Exact(d, cands)
<1>1. a.scan /\ a.rank /\ a.vector = vector
  BY DEF Everything
<1>2. cands \subseteq Ids /\ cands # {} /\ cands \subseteq store
  BY CandidatesInStore DEF Hit, TypeOK
<1>3. \A i \in cands : i \in Nat /\ i >= 1
  <2>1. ASSUME NEW i \in Ids PROVE i \in Nat /\ i >= 1
    BY PoolAssumption
  <2> QED
    BY <1>2, <2>1
<1>4. anchor \in cands
  BY <1>2, AnchorIsCandidate
<1>5. Candidates(d, Everything(FALSE)) = cands
  BY DEF Candidates, Everything
<1>6. ExactOffer(d) = IF exact = {} THEN {} ELSE {Least(exact)}
  BY <1>5 DEF ExactOffer
<1>7. ASSUME NEW i \in cands \ {anchor}
      PROVE  OfferRank(d, vector, anchor) < OfferRank(d, vector, i)
  <2>1. CASE exact # {}
    <3>1. ExactOffer(d) = {anchor}
      BY <1>2, <1>6, <2>1, AnchorIsCandidate
    <3>2. OfferRank(d, vector, anchor) = 0
      BY <3>1 DEF OfferRank
    <3>3. i \notin ExactOffer(d) /\ i \in Nat /\ i >= 1
      BY <1>3, <1>7, <3>1
    <3>4. OfferRank(d, vector, i) = 1 \/ OfferRank(d, vector, i) = i + 1
      BY <3>3 DEF OfferRank
    <3>5. 0 < i + 1
      BY <3>3
    <3> HIDE DEF anchor, cands
    <3> QED
      BY <3>2, <3>4, <3>5
  <2>2. CASE exact = {} /\ ByVector(d, a)
    <3>1. ExactOffer(d) = {}
      BY <1>6, <2>2
    <3>2. ClosestOffer(d, vector) = {anchor}
      BY <1>1, <1>2, <2>2, AnchorIsCandidate DEF ClosestOffer, ByVector
    <3> QED
      BY <1>3, <1>7, <3>1, <3>2 DEF OfferRank
  <2>3. CASE exact = {} /\ ~ByVector(d, a)
    <3>1. ExactOffer(d) = {} /\ ClosestOffer(d, vector) = {}
      BY <1>1, <1>6, <2>3 DEF ClosestOffer, ByVector
    <3>2. anchor = Least(cands)
      BY <2>3 DEF Anchor
    <3>3. anchor <= i
      BY <1>2, <1>3, <1>7, <3>2, LeastIsLeast
    <3> QED
      BY <1>3, <1>4, <1>7, <3>1, <3>3 DEF OfferRank
  <2> QED
    BY <2>1, <2>2, <2>3
<1>8. OfferRank(d, vector, anchor) \in Nat
  BY <1>3, <1>4 DEF OfferRank
<1>9. {j \in cands : OfferRank(d, vector, j) < OfferRank(d, vector, anchor)} = {}
  <2> SUFFICES ASSUME NEW j \in cands,
                      OfferRank(d, vector, j) < OfferRank(d, vector, anchor)
               PROVE  FALSE
    OBVIOUS
  <2>1. OfferRank(d, vector, j) \in Nat
    BY <1>3 DEF OfferRank
  <2>2. j # anchor => OfferRank(d, vector, anchor) < OfferRank(d, vector, j)
    BY <1>7
  <2> HIDE DEF anchor
  <2>3. j = anchor => FALSE
    BY <2>1
  <2> QED
    BY <1>8, <2>1, <2>2, <2>3
<1>10. Cardinality({}) = 0 /\ 0 < TopK
  BY FS_EmptySet, TopKAssumption
<1>11. anchor \in Offers(d, vector)
  BY <1>4, <1>9, <1>10 DEF Offers
<1>12. Offers(d, vector) \subseteq cands
  BY DEF Offers
<1> QED
  BY <1>7, <1>11, <1>12

\* The gate and the resolver agree on the motif to reuse.
THEOREM OfferLeadsWithAnchorAlways == Spec => []OfferLeadsWithAnchor
<1> QED
  BY TypeCorrect, AnchorLeads, PTL
==============================================================================
