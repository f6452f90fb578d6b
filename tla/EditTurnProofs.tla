--------------------------- MODULE EditTurnProofs ---------------------------
(***************************************************************************)
(* EditTurn, for every set of layer ids, motifs, authored designs and      *)
(* proposals, and any number of turns and tool calls: its types, and what  *)
(* a committed edit is made of.                                            *)
(***************************************************************************)
EXTENDS EditTurn, SequenceTheorems, TLAPS

-----------------------------------------------------------------------------
(* The inductive invariant.                                                *)

\* A turn that authors has nothing committed, and past the gate no spec is
\* left.
NodesOK ==
  /\ node = "author" => current = NoIntent
  /\ node \in {"validate", "commit"} => specs = <<>>

\* The layers a pass has a spec for are among those its tool calls named.
SpecsTouched ==
  /\ node = "tools" =>
       \A k \in 1..Len(out.specs) : out.specs[k].layer \in touched
  /\ node = "gate" /\ current # NoIntent =>
       \A k \in 1..Len(specs) : specs[k].layer \in touched

\* Two intents agree on the layers outside ids.
AgreeOutside(ids, x, y) ==
  \A j \in LayerIds \ ids :
    /\ j \in DOMAIN x <=> j \in DOMAIN y
    /\ j \in DOMAIN x => y[j] = x[j]

\* From the first tool call to the repair, the design differs from the one the
\* edit started from in the layers named so far only; after it, a layer that
\* was not named has been made to fit them.
DeltaSoFar ==
  /\ node = "tools" => AgreeOutside(touched, current, out.intent)
  /\ node \in {"gate", "validate"} /\ current # NoIntent =>
       AgreeOutside(touched, current, working)
  /\ node = "commit" /\ current # NoIntent =>
       \A i \in LayerIds \ touched : Bystander(working, i)

\* The decisions made so far are in the design, replayed ones too.
DecisionsIn(intent) ==
  \A i \in DOMAIN intent :
    decided[i] # NoMotif =>
      \/ intent[i].motif = decided[i] /\ overruled[i] = NoMotif
      \/ intent[i].motif = overruled[i]

DecisionsKept ==
  node \in {"gate", "validate", "commit"} => DecisionsIn(working)

\* Nothing has been decided while the tools are applied.
NoDecisionYet == node = "tools" => decided = NoDecision

\* What is about to be committed has been validated and repaired.
Repaired(intent) ==
  \A i \in DOMAIN intent :
    /\ intent[i].kind = "stripe" => intent[i].dims # "bad"
    /\ ~LaneUnclear(intent, i) /\ ~GroundHidden(intent, i)

ValidatedFirst == node = "commit" => Valid(working) /\ Repaired(working)

IInv ==
  /\ TypeOK
  /\ NodesOK
  /\ OfferMatchesSpec
  /\ SpecsTouched
  /\ DeltaSoFar
  /\ DecisionsKept
  /\ NoDecisionYet
  /\ ValidatedFirst
  /\ CommittedIsSound

-----------------------------------------------------------------------------
(* Intents.                                                                *)

LEMMA NoIntentType == IsIntent(NoIntent)
BY DEF IsIntent, NoIntent

\* An intent is a function from layer ids to layers.
LEMMA IntentElim ==
  ASSUME NEW x, IsIntent(x)
  PROVE  /\ DOMAIN x \subseteq LayerIds
         /\ x = [i \in DOMAIN x |-> x[i]]
         /\ \A i \in DOMAIN x : x[i] \in Layers
BY DEF IsIntent

\* The tools and the freeze make intents of intents.
Adjusted(x, i, d, b) == [x EXCEPT ![i].dims = d, ![i].bold = b]

LEMMA AdjustType ==
  ASSUME NEW x, IsIntent(x), NEW i \in DOMAIN x, NEW d \in Dims,
         NEW b \in BOOLEAN
  PROVE  /\ IsIntent(Adjusted(x, i, d, b))
         /\ DOMAIN Adjusted(x, i, d, b) = DOMAIN x
         /\ \A j \in DOMAIN x \ {i} : Adjusted(x, i, d, b)[j] = x[j]
<1> DEFINE l == [x[i] EXCEPT !.dims = d, !.bold = b]
           y == Adjusted(x, i, d, b)
<1>1. PICK ids \in SUBSET LayerIds : x \in [ids -> Layers]
  BY DEF IsIntent
<1>2. l \in Layers
  BY <1>1 DEF Layers
<1>3. y = [x EXCEPT ![i] = l]
  BY <1>1 DEF Adjusted
<1> HIDE DEF l, y
<1>4. y \in [ids -> Layers]
  BY <1>1, <1>2, <1>3
<1>5. /\ IsIntent(y)
      /\ DOMAIN y = DOMAIN x
      /\ \A j \in DOMAIN x \ {i} : y[j] = x[j]
  BY <1>1, <1>3, <1>4 DEF IsIntent
<1> QED
  BY <1>5 DEF y

LEMMA RemoveType ==
  ASSUME NEW x, IsIntent(x), NEW i
  PROVE  IsIntent([j \in DOMAIN x \ {i} |-> x[j]])
BY DEF IsIntent

LEMMA AddType ==
  ASSUME NEW x, IsIntent(x), NEW i \in LayerIds, NEW l \in Layers
  PROVE  IsIntent([j \in DOMAIN x \cup {i} |-> IF j = i THEN l ELSE x[j]])
<1> DEFINE y == [j \in DOMAIN x \cup {i} |-> IF j = i THEN l ELSE x[j]]
<1>1. PICK ids \in SUBSET LayerIds : x \in [ids -> Layers]
  BY DEF IsIntent
<1>2. y \in [ids \cup {i} -> Layers]
  BY <1>1
<1>3. ids \cup {i} \in SUBSET LayerIds
  OBVIOUS
<1> QED
  BY <1>2, <1>3 DEF IsIntent

LEMMA FrozenPaintsType ==
  ASSUME NEW paint \in Paints, NEW m
  PROVE  FrozenPaints(paint, m) \subseteq Paints
BY DEF FrozenPaints, Paints

\* A freeze sets the motif of the one layer it is about, if that is there.
LEMMA FreezeEffect ==
  ASSUME NEW x, IsIntent(x), NEW i, NEW m \in Motifs, NEW y \in Freeze(x, i, m)
  PROVE  /\ IsIntent(y)
         /\ DOMAIN y = DOMAIN x
         /\ \A j \in DOMAIN x \ {i} : y[j] = x[j]
         /\ i \in DOMAIN x => y[i].motif = m
<1>1. CASE i \notin DOMAIN x
  BY <1>1 DEF Freeze
<1>2. CASE i \in DOMAIN x
  <2>1. PICK ids \in SUBSET LayerIds : x \in [ids -> Layers]
    BY DEF IsIntent
  <2>2. PICK p \in FrozenPaints(x[i].paint, m) :
          y = [x EXCEPT ![i].motif = m, ![i].paint = p]
    BY <1>2 DEF Freeze
  <2>3. p \in Paints
    BY <1>2, <2>1, <2>2, FrozenPaintsType DEF Layers
  <2>4. y = [x EXCEPT ![i] = [x[i] EXCEPT !.motif = m, !.paint = p]]
    BY <1>2, <2>1, <2>2
  <2>5. /\ [x[i] EXCEPT !.motif = m, !.paint = p] \in Layers
        /\ [x[i] EXCEPT !.motif = m, !.paint = p].motif = m
    BY <1>2, <2>1, <2>3 DEF Layers, MotifIds
  <2> QED
    BY <1>2, <2>1, <2>4, <2>5 DEF IsIntent
<1> QED
  BY <1>1, <1>2

-----------------------------------------------------------------------------
(* Types.                                                                  *)

\* What a lookup of candidates returns.
LEMMA CandidateListsType ==
  ASSUME NEW ss \in Seq(Specs), registry \subseteq Motifs,
         NEW os \in CandidateLists(ss)
  PROVE  /\ os \in Seq(Offers)
         /\ Len(os) = Len(ss)
         /\ \A k \in 1..Len(ss) : os[k].spec = ss[k]
<1>1. PICK similar \in [1..Len(ss) -> SUBSET registry] :
        os = [k \in 1..Len(ss) |->
                [spec |-> ss[k],
                 motifs |-> IF ss[k].fresh THEN {} ELSE similar[k]]]
  BY DEF CandidateLists
<1>2. Len(ss) \in Nat
  OBVIOUS
<1>3. \A k \in 1..Len(ss) : ss[k] \in Specs /\ similar[k] \subseteq Motifs
  <2>1. \A k \in 1..Len(ss) : ss[k] \in Specs
    OBVIOUS
  <2>2. \A k \in 1..Len(ss) : similar[k] \subseteq registry
    BY <1>1
  <2> QED
    BY <2>1, <2>2
<1>4. \A k \in 1..Len(ss) : os[k] \in Offers
  <2> TAKE k \in 1..Len(ss)
  <2> DEFINE spec == ss[k]
             motifs == IF ss[k].fresh THEN {} ELSE similar[k]
  <2>1. os[k] = [spec |-> spec, motifs |-> motifs]
    BY <1>1
  <2>2. spec \in Specs /\ motifs \in SUBSET Motifs
    BY <1>3
  <2> HIDE DEF spec, motifs
  <2> QED
    BY <2>1, <2>2 DEF Offers
<1>5. os \in Seq(Offers) /\ Len(os) = Len(ss)
  BY <1>1, <1>2, <1>4, IsASeq, LenProperties
<1> QED
  BY <1>1, <1>5

LEMMA TypeInit == Init => TypeOK
<1> SUFFICES ASSUME Init PROVE TypeOK
  OBVIOUS
<1>1. IsIntent(NoIntent)
  BY NoIntentType
<1>2. <<>> \in Seq(Specs) /\ <<>> \in Seq(Offers)
  BY EmptySeq
<1>3. NoDecision \in [LayerIds -> MotifIds]
  BY DEF NoDecision, MotifIds
<1>4. 0 \in Nat /\ FALSE \in BOOLEAN
  OBVIOUS
<1> QED
  BY <1>1, <1>2, <1>3, <1>4, MotifsAssumption DEF Init, TypeOK, NoOutcome

\* A tool call names some layers, leaves the others alone, and the specs it
\* leaves are about layers it names.
ToolEffect(ids, intent, newSpecs) ==
  /\ ToolApplied(ids, intent, newSpecs)
  /\ IsIntent(intent)
  /\ AgreeOutside(ids, out.intent, intent)
  /\ \A k \in 1..Len(newSpecs) : newSpecs[k].layer \in ids

LEMMA ToolShape ==
  ASSUME TypeOK, Tool
  PROVE  \E ids \in SUBSET LayerIds, newSpecs \in Seq(Specs) :
           \E intent : ToolEffect(ids, intent, newSpecs)
<1> DEFINE x == out.intent
<1>1. IsIntent(x) /\ DOMAIN x \subseteq LayerIds
  BY IntentElim DEF TypeOK
<1>2. <<>> \in Seq(Specs) /\ \A k \in 1..Len(<<>>) : FALSE
  BY EmptySeq
<1>3. ASSUME NEW s \in Specs
      PROVE  <<s>> \in Seq(Specs) /\ \A k \in 1..Len(<<s>>) : <<s>>[k] = s
  OBVIOUS
<1>4. ASSUME NEW i \in LayerIds, NEW dims \in Dims, NEW bold \in BOOLEAN,
             AdjustLayer(i, dims, bold)
      PROVE  ToolEffect({i}, [x EXCEPT ![i].dims = dims, ![i].bold = bold],
                        <<>>)
  <2> DEFINE y == Adjusted(x, i, dims, bold)
  <2>1. i \in DOMAIN x /\ ToolApplied({i}, y, <<>>)
    BY <1>4 DEF AdjustLayer, Adjusted
  <2>2. /\ IsIntent(y)
        /\ DOMAIN y = DOMAIN x
        /\ \A j \in DOMAIN x \ {i} : y[j] = x[j]
    BY <1>1, <2>1, AdjustType
  <2> HIDE DEF y
  <2>3. AgreeOutside({i}, x, y)
    BY <2>2 DEF AgreeOutside
  <2>4. ToolEffect({i}, y, <<>>)
    BY <1>2, <2>1, <2>2, <2>3 DEF ToolEffect
  <2> QED
    BY <2>4 DEF y, Adjusted
<1>5. ASSUME NEW i \in LayerIds, RemoveLayer(i)
      PROVE  ToolEffect({i}, [j \in DOMAIN x \ {i} |-> x[j]], <<>>)
  <2> DEFINE y == [j \in DOMAIN x \ {i} |-> x[j]]
  <2>1. ToolApplied({i}, y, <<>>)
    BY <1>5 DEF RemoveLayer
  <2>2. IsIntent(y)
    BY <1>1, RemoveType
  <2>3. AgreeOutside({i}, x, y)
    BY DEF AgreeOutside
  <2> QED
    BY <1>2, <2>1, <2>2, <2>3 DEF ToolEffect
<1>6. ASSUME NEW i \in LayerIds, NEW to \in LayerIds, NEW layer \in Proposals,
             NEW fresh \in BOOLEAN, AddLayer(i, layer, to, fresh)
      PROVE  \E newSpecs \in Seq(Specs) :
               \E intent : ToolEffect({i, to}, intent, newSpecs)
  <2> DEFINE parked == layer.kind = "motif" /\ layer.motif = NoMotif
             added  == IF parked THEN [layer EXCEPT !.motif = Pending]
                       ELSE layer
             y == [j \in DOMAIN x \cup {i} |-> IF j = i THEN added ELSE x[j]]
             spec == [layer |-> to, fresh |-> fresh]
             ns == IF parked THEN <<spec>> ELSE <<>>
  <2>1. layer \in Layers
    BY InputsAssumption
  <2>2. added \in Layers
    BY <2>1 DEF Layers, MotifIds
  <2>3. i \notin DOMAIN x /\ ToolApplied({i, to}, y, ns)
    BY <1>6 DEF AddLayer
  <2> HIDE DEF added
  <2>4. IsIntent(y)
    BY <1>1, <2>2, AddType
  <2>5. AgreeOutside({i, to}, x, y)
    BY DEF AgreeOutside
  <2>6. spec \in Specs /\ spec.layer = to
    BY DEF Specs
  <2> HIDE DEF spec, y, parked
  <2>7. ns \in Seq(Specs) /\ \A k \in 1..Len(ns) : ns[k].layer \in {i, to}
    BY <1>2, <1>3, <2>6
  <2> HIDE DEF ns
  <2>8. ToolEffect({i, to}, y, ns)
    BY <2>3, <2>4, <2>5, <2>7 DEF ToolEffect
  <2> QED
    BY <2>7, <2>8
<1>7. ASSUME NEW i \in LayerIds, NEW fresh \in BOOLEAN, SwapMotif(i, fresh)
      PROVE  \E newSpecs \in Seq(Specs) :
               \E intent : ToolEffect({i}, intent, newSpecs)
  <2> DEFINE spec == [layer |-> i, fresh |-> fresh]
  <2>1. spec \in Specs /\ spec.layer = i
    BY DEF Specs
  <2>2. ToolApplied({i}, x, <<spec>>)
    BY <1>7 DEF SwapMotif
  <2> HIDE DEF spec
  <2>3. <<spec>> \in Seq(Specs) /\ \A k \in 1..Len(<<spec>>) : <<spec>>[k].layer \in {i}
    BY <1>3, <2>1
  <2>4. AgreeOutside({i}, x, x)
    BY DEF AgreeOutside
  <2>5. ToolEffect({i}, x, <<spec>>)
    BY <1>1, <2>2, <2>3, <2>4 DEF ToolEffect
  <2> QED
    BY <2>3, <2>5
<1> QED
  <2>1. CASE \E i \in LayerIds, dims \in Dims, bold \in BOOLEAN :
               AdjustLayer(i, dims, bold)
    <3>1. PICK i \in LayerIds, dims \in Dims, bold \in BOOLEAN :
            AdjustLayer(i, dims, bold)
      BY <2>1
    <3>2. {i} \in SUBSET LayerIds
      OBVIOUS
    <3> QED
      BY <1>2, <1>4, <3>1, <3>2
  <2>2. CASE \E i \in LayerIds : RemoveLayer(i)
    <3>1. PICK i \in LayerIds : RemoveLayer(i)
      BY <2>2
    <3>2. {i} \in SUBSET LayerIds
      OBVIOUS
    <3> QED
      BY <1>2, <1>5, <3>1, <3>2
  <2>3. CASE \E i, to \in LayerIds, layer \in Proposals, fresh \in BOOLEAN :
               AddLayer(i, layer, to, fresh)
    <3>1. PICK i \in LayerIds, to \in LayerIds, layer \in Proposals,
               fresh \in BOOLEAN : AddLayer(i, layer, to, fresh)
      BY <2>3
    <3>2. {i, to} \in SUBSET LayerIds
      OBVIOUS
    <3>3. \E newSpecs \in Seq(Specs) :
            \E intent : ToolEffect({i, to}, intent, newSpecs)
      BY <1>6, <3>1
    <3> QED
      BY <3>2, <3>3
  <2>4. CASE \E i \in LayerIds, fresh \in BOOLEAN : SwapMotif(i, fresh)
    <3>1. PICK i \in LayerIds, fresh \in BOOLEAN : SwapMotif(i, fresh)
      BY <2>4
    <3>2. {i} \in SUBSET LayerIds
      OBVIOUS
    <3> QED
      BY <1>7, <3>1, <3>2
  <2> QED
    BY <2>1, <2>2, <2>3, <2>4 DEF Tool

\* A gate decision takes the first spec and its offer off their lists.
LEMMA ResolveEffect ==
  ASSUME TypeOK, OfferMatchesSpec, NEW sent, NEW m \in Motifs, Resolve(sent, m)
  PROVE  /\ Head(specs) \in Specs
         /\ working' \in Freeze(working, Head(specs).layer, m)
         /\ specs' \in Seq(Specs) /\ offers' \in Seq(Offers)
         /\ Len(specs) = Len(specs') + 1 /\ Len(offers') = Len(specs')
         /\ \A k \in 1..Len(specs') : specs'[k] = specs[k + 1]
         /\ \A k \in 1..Len(specs') : offers'[k] = offers[k + 1]
         /\ Head(specs) = specs[1]
<1>1. specs \in Seq(Specs) /\ offers \in Seq(Offers) /\ specs # <<>>
  BY DEF TypeOK, Resolve
<1>2. Len(offers) = Len(specs)
  BY DEF OfferMatchesSpec
<1>3. offers # <<>>
  BY <1>1, <1>2
<1>4. /\ working' \in Freeze(working, Head(specs).layer, m)
      /\ specs' = Tail(specs) /\ offers' = Tail(offers)
  BY DEF Resolve, OffersLeft
<1> QED
  BY <1>1, <1>2, <1>3, <1>4, HeadTailProperties

-----------------------------------------------------------------------------
(* The invariant is inductive: one lemma per action.                       *)

\* A committed design stays sound while motifs are only ever registered.
LEMMA SoundKept ==
  ASSUME CommittedIsSound, current' = current, registry \subseteq registry'
  PROVE  CommittedIsSound'
BY DEF CommittedIsSound, Valid, LayerValid, LaneUnclear, GroundHidden, Covers

LEMMA InitStep == Init => IInv
<1> SUFFICES ASSUME Init PROVE IInv
  OBVIOUS
<1>1. TypeOK
  BY TypeInit
<1>2. OfferMatchesSpec
  BY DEF Init, OfferMatchesSpec
<1>3. /\ NodesOK /\ SpecsTouched /\ DeltaSoFar /\ DecisionsKept
      /\ NoDecisionYet /\ ValidatedFirst
  BY DEF Init, NodesOK, SpecsTouched, DeltaSoFar, DecisionsKept, NoDecisionYet,
         ValidatedFirst
<1>4. CommittedIsSound
  BY DEF Init, CommittedIsSound
<1> QED
  BY <1>1, <1>2, <1>3, <1>4 DEF IInv

LEMMA NewTurnStep == ASSUME IInv, NewTurn PROVE IInv'
<1> USE DEF IInv, NewTurn, pass
<1>1. TypeOK'
  <2>1. IsIntent(out'.intent) /\ out'.specs \in Seq(Specs)
    BY NoIntentType, EmptySeq DEF NoOutcome
  <2>2. turns' \in Nat
    BY DEF TypeOK
  <2> QED
    BY <2>1, <2>2 DEF TypeOK
<1>2. OfferMatchesSpec'
  BY DEF OfferMatchesSpec
<1>3. /\ NodesOK' /\ SpecsTouched' /\ DeltaSoFar' /\ DecisionsKept'
      /\ NoDecisionYet' /\ ValidatedFirst'
  BY DEF NodesOK, SpecsTouched, DeltaSoFar, DecisionsKept, NoDecisionYet,
         ValidatedFirst
<1>4. CommittedIsSound'
  BY SoundKept
<1> QED
  BY <1>1, <1>2, <1>3, <1>4

LEMMA AuthorStep == ASSUME IInv, AuthorIntent PROVE IInv'
<1> USE DEF IInv
<1>1. PICK d \in Designs :
        /\ working' = d.intent
        /\ specs' = d.specs
        /\ offers' \in CandidateLists(d.specs)
  BY DEF AuthorIntent
<1>2. /\ node = "author" /\ node' = "gate"
      /\ errors' = FALSE /\ retried' = FALSE
      /\ touched' = {} /\ decided' = NoDecision /\ overruled' = NoDecision
      /\ UNCHANGED <<current, out, registry, kept, turns, tools>>
  BY DEF AuthorIntent
<1>3. /\ IsIntent(d.intent) /\ d.specs \in Seq(Specs)
      /\ registry \subseteq Motifs
  BY InputsAssumption DEF TypeOK
<1>4. /\ offers' \in Seq(Offers)
      /\ Len(offers') = Len(specs')
      /\ \A k \in 1..Len(specs') : offers'[k].spec = specs'[k]
  BY <1>1, <1>3, CandidateListsType
<1>5. TypeOK'
  <2>1. NoDecision \in [LayerIds -> MotifIds]
    BY DEF NoDecision, MotifIds
  <2> QED
    BY <1>1, <1>2, <1>3, <1>4, <2>1 DEF TypeOK
<1>6. OfferMatchesSpec'
  BY <1>4 DEF OfferMatchesSpec
<1>7. current' = NoIntent
  BY <1>2 DEF NodesOK
<1>8. /\ NodesOK' /\ SpecsTouched' /\ DeltaSoFar'
      /\ NoDecisionYet' /\ ValidatedFirst'
  BY <1>2, <1>7 DEF NodesOK, SpecsTouched, DeltaSoFar, NoDecisionYet,
                    ValidatedFirst
<1>9. DecisionsKept'
  <2>1. \A i \in DOMAIN working' : i \in LayerIds
    BY <1>1, <1>3, IntentElim
  <2> QED
    BY <1>2, <2>1 DEF DecisionsKept, DecisionsIn, NoDecision
<1>10. CommittedIsSound'
  BY <1>2, SoundKept
<1> QED
  BY <1>5, <1>6, <1>8, <1>9, <1>10

LEMMA EditBeginStep == ASSUME IInv, EditBegin PROVE IInv'
<1> USE DEF IInv
<1>1. /\ node = "edit" /\ node' = "tools"
      /\ out' = [intent |-> current, specs |-> <<>>]
      /\ touched' = {} /\ decided' = NoDecision /\ overruled' = NoDecision
      /\ tools' = 0
      /\ UNCHANGED <<current, working, specs, offers, errors, retried,
                     registry, kept, turns>>
  BY DEF EditBegin, EditBase
<1>2. TypeOK'
  <2>1. NoDecision \in [LayerIds -> MotifIds]
    BY DEF NoDecision, MotifIds
  <2>2. IsIntent(out'.intent) /\ out'.specs \in Seq(Specs)
    BY <1>1, EmptySeq DEF TypeOK
  <2> QED
    BY <1>1, <2>1, <2>2 DEF TypeOK
<1>3. OfferMatchesSpec'
  BY <1>1 DEF OfferMatchesSpec
<1>4. SpecsTouched'
  BY <1>1 DEF SpecsTouched
<1>5. DeltaSoFar'
  BY <1>1 DEF DeltaSoFar, AgreeOutside
<1>6. NodesOK' /\ DecisionsKept' /\ NoDecisionYet' /\ ValidatedFirst'
  BY <1>1 DEF NodesOK, DecisionsKept, NoDecisionYet, ValidatedFirst
<1>7. CommittedIsSound'
  BY <1>1, SoundKept
<1> QED
  BY <1>2, <1>3, <1>4, <1>5, <1>6, <1>7

LEMMA ToolStep == ASSUME IInv, Tool PROVE IInv'
<1> USE DEF IInv
<1>1. PICK ids \in SUBSET LayerIds, newSpecs \in Seq(Specs) :
        \E intent : ToolEffect(ids, intent, newSpecs)
  BY ToolShape
<1>2. PICK intent : ToolEffect(ids, intent, newSpecs)
  BY <1>1
<1>3. /\ node = "tools" /\ node' = "tools"
      /\ tools' = tools + 1
      /\ out' = [intent |-> intent, specs |-> out.specs \o newSpecs]
      /\ touched' = touched \cup ids
      /\ UNCHANGED <<node, current, working, specs, offers, errors, retried,
                     registry, kept, turns, decided, overruled>>
  BY <1>2 DEF ToolEffect, ToolApplied
<1>4. /\ out'.intent = intent
      /\ out'.specs = out.specs \o newSpecs
  BY <1>3
<1>5. out.specs \in Seq(Specs)
  BY DEF TypeOK
<1>6. TypeOK'
  <2>1. IsIntent(out'.intent)
    BY <1>2, <1>4 DEF ToolEffect
  <2>2. out'.specs \in Seq(Specs)
    BY <1>4, <1>5, ConcatProperties
  <2>3. tools' \in Nat
    BY <1>3 DEF TypeOK
  <2>4. touched' \subseteq LayerIds
    BY <1>3 DEF TypeOK
  <2> QED
    BY <1>3, <2>1, <2>2, <2>3, <2>4 DEF TypeOK
<1>7. OfferMatchesSpec'
  BY <1>3 DEF OfferMatchesSpec
<1>8. SpecsTouched'
  <2>1. \A k \in 1..Len(out.specs) : out.specs[k].layer \in touched
    BY <1>3 DEF SpecsTouched
  <2>2. \A k \in 1..Len(newSpecs) : newSpecs[k].layer \in ids
    BY <1>2 DEF ToolEffect
  <2>3. ASSUME NEW k \in 1..Len(out'.specs)
        PROVE  out'.specs[k].layer \in touched'
    <3>1. CASE k <= Len(out.specs)
      BY <1>3, <1>4, <1>5, <2>1, <3>1, ConcatProperties
    <3>2. CASE ~(k <= Len(out.specs))
      <4>1. /\ k - Len(out.specs) \in 1..Len(newSpecs)
            /\ out'.specs[k] = newSpecs[k - Len(out.specs)]
        BY <1>4, <1>5, <3>2, ConcatProperties, LenProperties
      <4> QED
        BY <1>3, <2>2, <4>1
    <3> QED
      BY <3>1, <3>2
  <2> QED
    BY <1>3, <2>3 DEF SpecsTouched
<1>9. DeltaSoFar'
  <2>1. AgreeOutside(touched, current, out.intent)
    BY <1>3 DEF DeltaSoFar
  <2>2. AgreeOutside(ids, out.intent, intent)
    BY <1>2 DEF ToolEffect
  <2>3. AgreeOutside(touched, current, out.intent)'
    BY <1>3, <1>4, <2>1, <2>2 DEF AgreeOutside
  <2> QED
    BY <1>3, <2>3 DEF DeltaSoFar
<1>10. NodesOK' /\ DecisionsKept' /\ NoDecisionYet' /\ ValidatedFirst'
  BY <1>3 DEF NodesOK, DecisionsKept, NoDecisionYet, ValidatedFirst
<1>11. CommittedIsSound'
  BY <1>3, SoundKept
<1> QED
  BY <1>6, <1>7, <1>8, <1>9, <1>10, <1>11

LEMMA EditEndStep == ASSUME IInv, EditEnd PROVE IInv'
<1> USE DEF IInv
<1>1. /\ node = "tools" /\ node' = "gate"
      /\ working' = out.intent /\ specs' = out.specs
      /\ offers' \in CandidateLists(out.specs)
      /\ errors' = FALSE /\ retried' = errors /\ out' = NoOutcome
      /\ UNCHANGED <<current, registry, kept, turns, tools, touched, decided,
                     overruled>>
  BY DEF EditEnd, pass
<1>2. IsIntent(out.intent) /\ out.specs \in Seq(Specs) /\ registry \subseteq Motifs
  BY DEF TypeOK
<1>3. /\ offers' \in Seq(Offers)
      /\ Len(offers') = Len(specs')
      /\ \A k \in 1..Len(specs') : offers'[k].spec = specs'[k]
  BY <1>1, <1>2, CandidateListsType
<1>4. TypeOK'
  <2>1. IsIntent(out'.intent) /\ out'.specs \in Seq(Specs)
    BY <1>1, NoIntentType, EmptySeq DEF NoOutcome
  <2> QED
    BY <1>1, <1>2, <1>3, <2>1 DEF TypeOK
<1>5. OfferMatchesSpec'
  BY <1>3 DEF OfferMatchesSpec
<1>6. SpecsTouched'
  BY <1>1 DEF SpecsTouched
<1>7. DeltaSoFar'
  BY <1>1 DEF DeltaSoFar, AgreeOutside
<1>8. DecisionsKept'
  <2>1. decided = NoDecision
    BY <1>1 DEF NoDecisionYet
  <2>2. \A i \in DOMAIN working' : i \in LayerIds
    BY <1>1, <1>2, IntentElim
  <2> QED
    BY <1>1, <2>1, <2>2 DEF DecisionsKept, DecisionsIn, NoDecision
<1>9. NodesOK' /\ NoDecisionYet' /\ ValidatedFirst'
  BY <1>1 DEF NodesOK, NoDecisionYet, ValidatedFirst
<1>10. CommittedIsSound'
  BY <1>1, SoundKept
<1> QED
  BY <1>4, <1>5, <1>6, <1>7, <1>8, <1>9, <1>10

LEMMA GatePassStep == ASSUME IInv, GatePass PROVE IInv'
<1> USE DEF IInv
<1>1. /\ node = "gate" /\ node' = "validate" /\ specs = <<>>
      /\ UNCHANGED <<current, working, specs, offers, errors, retried, out,
                     registry, kept, turns, tools, touched, decided, overruled>>
  BY DEF GatePass, pass
<1>2. TypeOK'
  BY <1>1 DEF TypeOK
<1>3. OfferMatchesSpec' /\ SpecsTouched'
  BY <1>1 DEF OfferMatchesSpec, SpecsTouched
<1>4. DeltaSoFar'
  BY <1>1 DEF DeltaSoFar, AgreeOutside
<1>5. DecisionsKept'
  BY <1>1 DEF DecisionsKept, DecisionsIn
<1>6. NodesOK' /\ NoDecisionYet' /\ ValidatedFirst'
  BY <1>1 DEF NodesOK, NoDecisionYet, ValidatedFirst
<1>7. CommittedIsSound'
  BY <1>1, SoundKept
<1> QED
  BY <1>2, <1>3, <1>4, <1>5, <1>6, <1>7

\* Every kind of decision: selected, generated, replayed.
LEMMA ResolveStep ==
  ASSUME IInv, NEW sent \in Motifs, NEW m \in Motifs, Resolve(sent, m),
         registry \subseteq registry', registry' \subseteq Motifs
  PROVE  IInv'
<1> USE DEF IInv
<1> DEFINE i == Head(specs).layer
           over == IF m = sent THEN NoMotif ELSE m
<1>1. /\ Head(specs) \in Specs
      /\ working' \in Freeze(working, i, m)
      /\ specs' \in Seq(Specs) /\ offers' \in Seq(Offers)
      /\ Len(specs) = Len(specs') + 1 /\ Len(offers') = Len(specs')
      /\ \A k \in 1..Len(specs') : specs'[k] = specs[k + 1]
      /\ \A k \in 1..Len(specs') : offers'[k] = offers[k + 1]
      /\ Head(specs) = specs[1]
  BY ResolveEffect
<1>2. /\ node = "gate" /\ node' \in {"validate", "gate"}
      /\ decided' = [decided EXCEPT ![i] = sent]
      /\ overruled' = [overruled EXCEPT ![i] = over]
      /\ node' = "validate" => specs' = <<>>
      /\ kept' = FALSE
      /\ UNCHANGED <<current, errors, retried, out, turns, tools, touched>>
  BY DEF Resolve
<1>3. i \in LayerIds
  BY <1>1 DEF Specs
<1> HIDE DEF i
<1>4. /\ IsIntent(working) /\ IsIntent(working')
      /\ DOMAIN working' = DOMAIN working
      /\ \A j \in DOMAIN working \ {i} : working'[j] = working[j]
      /\ i \in DOMAIN working => working'[i].motif = m
  BY <1>1, FreezeEffect DEF TypeOK
<1>5. TypeOK'
  <2>1. sent \in MotifIds /\ over \in MotifIds
    BY DEF MotifIds
  <2> HIDE DEF over
  <2>2. decided' \in [LayerIds -> MotifIds] /\ overruled' \in [LayerIds -> MotifIds]
    BY <1>2, <1>3, <2>1 DEF TypeOK
  <2> QED
    BY <1>1, <1>2, <1>4, <2>2 DEF TypeOK
<1>6. Len(specs') \in Nat
  BY <1>1, LenProperties
<1>7. OfferMatchesSpec'
  BY <1>1, <1>6 DEF OfferMatchesSpec
<1>8. SpecsTouched'
  <2>1. ASSUME current # NoIntent, NEW k \in 1..Len(specs')
        PROVE  specs'[k].layer \in touched
    <3>1. k + 1 \in 1..Len(specs) /\ specs'[k] = specs[k + 1]
      BY <1>1, <1>6, <2>1
    <3> QED
      BY <1>2, <2>1, <3>1 DEF SpecsTouched
  <2> QED
    BY <1>2, <2>1 DEF SpecsTouched
<1>9. DeltaSoFar'
  <2>1. ASSUME current # NoIntent PROVE AgreeOutside(touched, current, working)'
    <3>1. i \in touched
      BY <1>1, <1>2, <1>6, <2>1 DEF SpecsTouched, i
    <3>2. AgreeOutside(touched, current, working)
      BY <1>2, <2>1 DEF DeltaSoFar
    <3> QED
      BY <1>2, <1>4, <3>1, <3>2 DEF AgreeOutside
  <2> QED
    BY <1>2, <2>1 DEF DeltaSoFar
<1>10. DecisionsKept'
  <2>1. DecisionsIn(working)
    BY <1>2 DEF DecisionsKept
  <2>2. /\ decided \in [LayerIds -> MotifIds] /\ overruled \in [LayerIds -> MotifIds]
        /\ DOMAIN working \subseteq LayerIds
    BY <1>4, IntentElim DEF TypeOK
  <2>3. ASSUME NEW j \in DOMAIN working', decided'[j] # NoMotif
        PROVE  \/ working'[j].motif = decided'[j] /\ overruled'[j] = NoMotif
               \/ working'[j].motif = overruled'[j]
    <3>1. CASE j = i
      <4>1. decided'[j] = sent /\ overruled'[j] = over /\ working'[j].motif = m
        BY <1>2, <1>4, <2>2, <2>3, <3>1
      <4> QED
        BY <4>1
    <3>2. CASE j # i
      BY <1>2, <1>4, <2>1, <2>2, <2>3, <3>2 DEF DecisionsIn
    <3> QED
      BY <3>1, <3>2
  <2> QED
    BY <2>3 DEF DecisionsKept, DecisionsIn
<1>11. NodesOK' /\ NoDecisionYet' /\ ValidatedFirst'
  BY <1>2 DEF NodesOK, NoDecisionYet, ValidatedFirst
<1>12. CommittedIsSound'
  BY <1>2, SoundKept
<1> QED
  BY <1>5, <1>7, <1>8, <1>9, <1>10, <1>11, <1>12

LEMMA GateStep ==
  ASSUME IInv, NEW sent \in Motifs, NEW m \in Motifs,
         GateSelected(m) \/ GateGenerated(m) \/ GateReplayed(sent, m)
  PROVE  IInv'
<1>1. registry \subseteq Motifs
  BY DEF IInv, TypeOK
<1>2. CASE GateSelected(m)
  <2>1. Resolve(m, m) /\ registry' = registry
    BY <1>2 DEF GateSelected
  <2>2. registry \subseteq registry' /\ registry' \subseteq Motifs
    BY <1>1, <2>1
  <2> QED
    BY <2>1, <2>2, ResolveStep
<1>3. CASE GateGenerated(m) \/ GateReplayed(sent, m)
  <2>1. /\ Resolve(m, m) \/ Resolve(sent, m)
        /\ registry' = registry \cup {m}
    BY <1>3 DEF GateGenerated, GateReplayed
  <2>2. registry \subseteq registry' /\ registry' \subseteq Motifs
    BY <1>1, <2>1
  <2> QED
    BY <2>1, <2>2, ResolveStep
<1> QED
  BY <1>2, <1>3

LEMMA GateRaisesStep == ASSUME IInv, GateRaises PROVE IInv'
<1> USE DEF IInv
<1>1. /\ kept' = TRUE
      /\ UNCHANGED <<node, current, working, specs, offers, errors, retried,
                     out, registry, turns, tools, touched, decided, overruled>>
  BY DEF GateRaises, pass
<1>2. TypeOK'
  BY <1>1 DEF TypeOK
<1>3. OfferMatchesSpec' /\ SpecsTouched' /\ NodesOK'
  BY <1>1 DEF OfferMatchesSpec, SpecsTouched, NodesOK
<1>4. DeltaSoFar'
  BY <1>1 DEF DeltaSoFar, AgreeOutside, Bystander, Covers
<1>5. DecisionsKept' /\ NoDecisionYet'
  BY <1>1 DEF DecisionsKept, DecisionsIn, NoDecisionYet
<1>6. ValidatedFirst'
  BY <1>1 DEF ValidatedFirst, Valid, LayerValid, Repaired, LaneUnclear,
              GroundHidden, Covers
<1>7. CommittedIsSound'
  BY <1>1, SoundKept
<1> QED
  BY <1>2, <1>3, <1>4, <1>5, <1>6, <1>7

\* What the repairs make of layer i.
RepairedLayer(x, y, i) ==
  /\ y[i] = [x[i] EXCEPT !.dims = y[i].dims, !.lane = y[i].lane,
                         !.bold = y[i].bold]
  /\ y[i].kind = x[i].kind /\ y[i].motif = x[i].motif
  /\ y[i].paint = x[i].paint /\ y[i].host = x[i].host
  /\ y[i].many = x[i].many /\ y[i].z = x[i].z
  /\ y[i].opaque = x[i].opaque
  /\ x[i].kind # "stripe" \/ x[i].dims # "bad" => y[i].dims = x[i].dims
  /\ x[i].kind = "stripe" => y[i].dims # "bad"
  /\ y[i].lane = IF LaneUnclear(x, i) THEN "band" ELSE x[i].lane
  /\ y[i].bold = IF GroundHidden(x, i) THEN FALSE ELSE x[i].bold

LEMMA RepairEffect ==
  ASSUME NEW x, IsIntent(x), NEW y \in Repairs(x)
  PROVE  /\ IsIntent(y)
         /\ DOMAIN y = DOMAIN x
         /\ \A i \in DOMAIN x : RepairedLayer(x, y, i)
<1>1. PICK ids \in SUBSET LayerIds : x \in [ids -> Layers]
  BY DEF IsIntent
<1>2. PICK near \in [DOMAIN x -> {"one", "other"}] :
        y = [i \in DOMAIN x |->
               [x[i] EXCEPT
                  !.dims = IF x[i].kind = "stripe" /\ @ = "bad"
                           THEN near[i] ELSE @,
                  !.lane = IF LaneUnclear(x, i) THEN "band" ELSE @,
                  !.bold = IF GroundHidden(x, i) THEN FALSE ELSE @]]
  BY DEF Repairs
<1>3. ASSUME NEW i \in DOMAIN x
      PROVE  y[i] \in Layers /\ RepairedLayer(x, y, i)
  <2> DEFINE dims == IF x[i].kind = "stripe" /\ x[i].dims = "bad"
                     THEN near[i] ELSE x[i].dims
             lane == IF LaneUnclear(x, i) THEN "band" ELSE x[i].lane
             bold == IF GroundHidden(x, i) THEN FALSE ELSE x[i].bold
  <2>1. near[i] \in {"one", "other"} /\ x[i] \in Layers
    BY <1>1
  <2>2. y[i] = [x[i] EXCEPT !.dims = dims, !.lane = lane, !.bold = bold]
    BY <1>2
  <2>3. /\ dims \in Dims
        /\ x[i].kind # "stripe" \/ x[i].dims # "bad" => dims = x[i].dims
        /\ x[i].kind = "stripe" => dims # "bad"
    BY <2>1 DEF Layers, Dims
  <2>4. lane \in {"bare", "band"}
    BY <2>1 DEF Layers
  <2>5. bold \in BOOLEAN
    BY <2>1 DEF Layers
  <2>6. /\ lane = IF LaneUnclear(x, i) THEN "band" ELSE x[i].lane
        /\ bold = IF GroundHidden(x, i) THEN FALSE ELSE x[i].bold
    OBVIOUS
  <2> HIDE DEF dims, lane, bold
  <2>7. /\ y[i] \in Layers
        /\ y[i].dims = dims /\ y[i].lane = lane /\ y[i].bold = bold
        /\ y[i].kind = x[i].kind /\ y[i].motif = x[i].motif
        /\ y[i].paint = x[i].paint /\ y[i].host = x[i].host
        /\ y[i].many = x[i].many /\ y[i].z = x[i].z
        /\ y[i].opaque = x[i].opaque
    BY <2>1, <2>2, <2>3, <2>4, <2>5 DEF Layers
  <2> QED
    BY <2>2, <2>3, <2>6, <2>7 DEF RepairedLayer
<1>4. y \in [ids -> Layers]
  BY <1>1, <1>2, <1>3
<1> QED
  BY <1>1, <1>2, <1>3, <1>4 DEF IsIntent

\* After the repairs there is nothing left to repair, but for the numbers of a
\* layer that is no stripe.
LEMMA RepairedOnce ==
  ASSUME NEW x, IsIntent(x), NEW y \in Repairs(x), NEW i \in DOMAIN x
  PROVE  ~LaneUnclear(y, i) /\ ~GroundHidden(y, i)
<1>1. DOMAIN y = DOMAIN x /\ \A j \in DOMAIN x : RepairedLayer(x, y, j)
  BY RepairEffect
<1>2. ~LaneUnclear(y, i)
  <2>1. ASSUME LaneUnclear(y, i) PROVE LaneUnclear(x, i)
    <3>1. /\ y[i].kind = "motif" /\ y[i].lane = "bare"
          /\ y[i].host \in DOMAIN x
          /\ y[y[i].host].kind = "stripe" /\ y[y[i].host].many
      BY <1>1, <2>1 DEF LaneUnclear
    <3>2. x[i].kind = "motif" /\ x[i].host = y[i].host /\ x[i].lane = "bare"
      BY <1>1, <3>1 DEF RepairedLayer
    <3>3. x[y[i].host].kind = "stripe" /\ x[y[i].host].many
      BY <1>1, <3>1 DEF RepairedLayer
    <3> QED
      BY <3>1, <3>2, <3>3 DEF LaneUnclear
  <2>2. LaneUnclear(x, i) => y[i].lane = "band"
    BY <1>1 DEF RepairedLayer
  <2> QED
    BY <2>1, <2>2 DEF LaneUnclear
<1>3. \A g \in DOMAIN x : Covers(y, i, g) <=> Covers(x, i, g)
  BY <1>1 DEF RepairedLayer, Covers
<1>4. ~GroundHidden(y, i)
  BY <1>1, <1>3 DEF RepairedLayer, GroundHidden
<1> QED
  BY <1>2, <1>4

\* The repairs make a layer no tool call has named fit the ones they have,
\* where the design the edit started from needed no repair.
LEMMA RepairsAreDelta ==
  ASSUME IsIntent(current), Repaired(current), NEW x, IsIntent(x),
         AgreeOutside(touched, current, x), NEW y \in Repairs(x),
         NEW i \in LayerIds \ touched
  PROVE  Bystander(y, i)
<1>1. /\ DOMAIN y = DOMAIN x
      /\ \A j \in DOMAIN x : RepairedLayer(x, y, j)
      /\ i \in DOMAIN current <=> i \in DOMAIN x
  BY RepairEffect DEF AgreeOutside
<1>2. ASSUME i \in DOMAIN current
      PROVE  LET old == current[i]
                 new == y[i]
             IN  /\ new = [old EXCEPT !.lane = new.lane, !.bold = new.bold]
                 /\ new.lane # old.lane => new.lane = "band" /\ old.host \in touched
                 /\ new.bold # old.bold =>
                      /\ old.bold
                      /\ \E g \in touched \cap DOMAIN y : Covers(y, i, g)
  <2>1. i \in DOMAIN x /\ x[i] = current[i] /\ x[i] \in Layers
    BY <1>1, <1>2, IntentElim DEF AgreeOutside
  <2>2. /\ y[i] = [x[i] EXCEPT !.dims = y[i].dims, !.lane = y[i].lane,
                               !.bold = y[i].bold]
        /\ x[i].kind # "stripe" \/ x[i].dims # "bad" => y[i].dims = x[i].dims
        /\ y[i].lane = IF LaneUnclear(x, i) THEN "band" ELSE x[i].lane
        /\ y[i].bold = IF GroundHidden(x, i) THEN FALSE ELSE x[i].bold
    BY <1>1, <2>1 DEF RepairedLayer
  <2>3. /\ current[i].kind = "stripe" => current[i].dims # "bad"
        /\ ~LaneUnclear(current, i) /\ ~GroundHidden(current, i)
    BY <1>2 DEF Repaired
  <2>4. y[i] = [x[i] EXCEPT !.lane = y[i].lane, !.bold = y[i].bold]
    <3>1. y[i].dims = x[i].dims
      BY <2>1, <2>2, <2>3
    <3> QED
      BY <2>1, <2>2, <3>1 DEF Layers
  <2>5. ASSUME y[i].lane # x[i].lane
        PROVE  y[i].lane = "band" /\ x[i].host \in touched
    <3>1. LaneUnclear(x, i)
      BY <2>2, <2>5
    <3>2. ASSUME x[i].host \notin touched PROVE FALSE
      <4>1. x[i].host \in DOMAIN x /\ x[i].host \in LayerIds
        BY <3>1, IntentElim DEF LaneUnclear
      <4>2. /\ x[i].host \in DOMAIN current
            /\ x[x[i].host] = current[x[i].host]
        BY <3>2, <4>1 DEF AgreeOutside
      <4> QED
        BY <2>1, <2>3, <3>1, <4>2 DEF LaneUnclear
    <3> QED
      BY <2>2, <3>1, <3>2
  <2>6. ASSUME y[i].bold # x[i].bold
        PROVE  x[i].bold /\ \E g \in touched \cap DOMAIN y : Covers(y, i, g)
    <3>1. x[i].bold /\ GroundHidden(x, i)
      BY <2>2, <2>6 DEF GroundHidden
    <3>2. PICK g \in DOMAIN x : Covers(x, i, g)
      BY <3>1 DEF GroundHidden
    <3>3. Covers(y, i, g)
      BY <1>1, <2>1, <3>2 DEF RepairedLayer, Covers
    <3>4. ASSUME g \notin touched PROVE FALSE
      <4>1. g \in DOMAIN current /\ x[g] = current[g]
        BY <3>2, <3>4, IntentElim DEF AgreeOutside
      <4>2. Covers(current, i, g)
        BY <2>1, <3>2, <4>1 DEF Covers
      <4> QED
        BY <2>1, <2>3, <3>1, <4>1, <4>2 DEF GroundHidden
    <3> QED
      BY <1>1, <3>1, <3>2, <3>3, <3>4
  <2> QED
    BY <2>1, <2>4, <2>5, <2>6
<1> QED
  BY <1>1, <1>2 DEF Bystander

LEMMA ValidateOKStep == ASSUME IInv, ValidateOK PROVE IInv'
<1> USE DEF IInv
<1>1. /\ node = "validate" /\ node' = "commit" /\ errors' = FALSE
      /\ Valid(working)
      /\ working' \in Repairs(working)
      /\ UNCHANGED <<current, specs, offers, retried, out, registry, kept,
                     turns, tools, touched, decided, overruled>>
  BY DEF ValidateOK, pass
<1>2. /\ IsIntent(working')
      /\ DOMAIN working' = DOMAIN working
      /\ \A i \in DOMAIN working :
           /\ working'[i].kind = working[i].kind
           /\ working'[i].motif = working[i].motif
           /\ working'[i].paint = working[i].paint
           /\ working'[i].host = working[i].host
           /\ working[i].kind = "motif" => working'[i].dims = working[i].dims
           /\ working[i].kind = "stripe" => working'[i].dims # "bad"
  <2>1. IsIntent(working) /\ working' \in Repairs(working)
    BY <1>1 DEF TypeOK
  <2>2. /\ IsIntent(working') /\ DOMAIN working' = DOMAIN working
        /\ \A i \in DOMAIN working : RepairedLayer(working, working', i)
    BY <2>1, RepairEffect
  <2> QED
    BY <2>2 DEF RepairedLayer
<1>3. DOMAIN working \subseteq LayerIds /\ \A i \in DOMAIN working : working[i] \in Layers
  BY IntentElim DEF TypeOK
<1>4. TypeOK'
  BY <1>1, <1>2 DEF TypeOK
<1>5. OfferMatchesSpec' /\ SpecsTouched'
  BY <1>1 DEF OfferMatchesSpec, SpecsTouched
<1>6. DeltaSoFar'
  <2>1. ASSUME current # NoIntent, NEW i \in LayerIds \ touched
        PROVE  Bystander(working', i)
    <3>1. AgreeOutside(touched, current, working)
      BY <1>1, <2>1 DEF DeltaSoFar
    <3>2. Repaired(current)
      BY <2>1 DEF CommittedIsSound, Repaired
    <3> QED
      BY <1>1, <3>1, <3>2, RepairsAreDelta DEF TypeOK
  <2>2. ASSUME current' # NoIntent, NEW i \in LayerIds \ touched'
        PROVE  Bystander(working, i)'
    BY <1>1, <2>1, <2>2 DEF Bystander, Covers
  <2> QED
    BY <1>1, <2>2 DEF DeltaSoFar
<1>7. DecisionsKept'
  BY <1>1, <1>2 DEF DecisionsKept, DecisionsIn
<1>8. NodesOK' /\ NoDecisionYet'
  BY <1>1 DEF NodesOK, NoDecisionYet
<1>9. ValidatedFirst'
  <2>1. \A i \in DOMAIN working : LayerValid(working, i)
    BY <1>1 DEF Valid
  <2>2. \A i \in DOMAIN working : working'[i].kind = "stripe" => working'[i].dims # "bad"
    BY <1>2
  <2>3. \A i \in DOMAIN working : LayerValid(working, i)'
    BY <1>1, <1>2, <2>1 DEF LayerValid
  <2>4. working' # NoIntent
    BY <1>1, <1>2, <1>3 DEF Valid, NoIntent, IsIntent
  <2>5. \A i \in DOMAIN working : ~LaneUnclear(working', i) /\ ~GroundHidden(working', i)
    BY <1>1, RepairedOnce DEF TypeOK
  <2>6. Repaired(working')
    BY <1>2, <2>2, <2>5 DEF Repaired
  <2>7. Repaired(working)'
    BY <2>6 DEF Repaired, LaneUnclear, GroundHidden, Covers
  <2> QED
    BY <1>2, <2>3, <2>4, <2>7 DEF ValidatedFirst, Valid
<1>10. CommittedIsSound'
  BY <1>1, SoundKept
<1> QED
  BY <1>4, <1>5, <1>6, <1>7, <1>8, <1>9, <1>10

LEMMA ValidateFailsStep == ASSUME IInv, ValidateFails PROVE IInv'
<1> USE DEF IInv
<1>1. /\ node = "validate" /\ errors' = TRUE
      /\ node' = "idle" \/ (node' = "edit" /\ current # NoIntent)
      /\ UNCHANGED <<current, working, specs, offers, retried, out, registry,
                     kept, turns, tools, touched, decided, overruled>>
  BY DEF ValidateFails, pass
<1>2. TypeOK'
  BY <1>1 DEF TypeOK
<1>3. OfferMatchesSpec' /\ SpecsTouched'
  BY <1>1 DEF OfferMatchesSpec, SpecsTouched
<1>4. DeltaSoFar' /\ DecisionsKept' /\ NodesOK' /\ NoDecisionYet' /\ ValidatedFirst'
  BY <1>1 DEF DeltaSoFar, DecisionsKept, NodesOK, NoDecisionYet, ValidatedFirst
<1>5. CommittedIsSound'
  BY <1>1, SoundKept
<1> QED
  BY <1>2, <1>3, <1>4, <1>5

LEMMA CommitStep == ASSUME IInv, Commit PROVE IInv'
<1> USE DEF IInv
<1>1. /\ node = "commit" /\ node' = "idle"
      /\ Composes(working)
      /\ current' = working /\ working' = NoIntent /\ specs' = <<>>
      /\ errors' = FALSE /\ retried' = FALSE
      /\ UNCHANGED <<offers, out, registry, kept, turns, tools, touched,
                     decided, overruled>>
  BY DEF Commit, pass
<1>2. TypeOK'
  BY <1>1, NoIntentType, EmptySeq DEF TypeOK
<1>3. OfferMatchesSpec'
  BY <1>1 DEF OfferMatchesSpec, NodesOK
<1>4. /\ SpecsTouched' /\ DeltaSoFar' /\ DecisionsKept' /\ NodesOK'
      /\ NoDecisionYet' /\ ValidatedFirst'
  BY <1>1 DEF SpecsTouched, DeltaSoFar, DecisionsKept, NodesOK, NoDecisionYet,
              ValidatedFirst
<1>5. CommittedIsSound'
  BY <1>1 DEF ValidatedFirst, Repaired, CommittedIsSound, Composes, Valid,
              LayerValid, LaneUnclear, GroundHidden, Covers
<1> QED
  BY <1>2, <1>3, <1>4, <1>5

LEMMA InvStep == ASSUME IInv, [Next]_vars PROVE IInv'
<1>1. CASE UNCHANGED vars
  <2>1. UNCHANGED <<node, current, working, specs, offers, errors, retried, out,
                    registry, kept, turns, tools, touched, decided, overruled>>
    BY <1>1 DEF vars, pass
  <2>2. TypeOK' /\ NodesOK' /\ OfferMatchesSpec' /\ SpecsTouched'
    BY <2>1 DEF IInv, TypeOK, NodesOK, OfferMatchesSpec, SpecsTouched
  <2>3. DeltaSoFar'
    BY <2>1 DEF IInv, DeltaSoFar, AgreeOutside, Bystander, Covers
  <2>4. DecisionsKept' /\ NoDecisionYet'
    BY <2>1 DEF IInv, DecisionsKept, DecisionsIn, NoDecisionYet
  <2>5. ValidatedFirst'
    BY <2>1 DEF IInv, ValidatedFirst, Valid, LayerValid, Repaired, LaneUnclear,
                GroundHidden, Covers
  <2>6. CommittedIsSound'
    BY <2>1, SoundKept DEF IInv
  <2> QED
    BY <2>2, <2>3, <2>4, <2>5, <2>6 DEF IInv
<1>2. ASSUME NEW sent \in Motifs, NEW m \in Motifs,
             GateSelected(m) \/ GateGenerated(m) \/ GateReplayed(sent, m)
      PROVE  IInv'
  BY <1>2, GateStep
<1>3. CASE NewTurn \/ AuthorIntent \/ EditBegin \/ Tool \/ EditEnd
  BY <1>3, NewTurnStep, AuthorStep, EditBeginStep, ToolStep, EditEndStep
<1>4. CASE GatePass \/ GateRaises \/ ValidateOK \/ ValidateFails \/ Commit
  BY <1>4, GatePassStep, GateRaisesStep, ValidateOKStep, ValidateFailsStep,
     CommitStep
<1> QED
  BY <1>1, <1>2, <1>3, <1>4 DEF Next

-----------------------------------------------------------------------------
(* The theorems.                                                           *)

\* The strengthened invariant holds in every reachable state.
THEOREM InvariantAlways == Spec => []IInv
BY InitStep, InvStep, PTL DEF Spec

\* Every variable of a turn always has its type, whatever the tools are called
\* with (tools.py, apply_tools; graph.py).
THEOREM TypeCorrect == Spec => []TypeOK
<1>1. IInv => TypeOK
  BY DEF IInv
<1> QED
  BY <1>1, InvariantAlways, PTL

\* The gate offers what was looked up for the spec it decides (resolve_gate).
THEOREM OfferMatchesSpecAlways == Spec => []OfferMatchesSpec
<1>1. IInv => OfferMatchesSpec
  BY DEF IInv
<1> QED
  BY <1>1, InvariantAlways, PTL

\* A committed design passes validation and can be drawn (validate, commit).
THEOREM CommittedIsSoundAlways == Spec => []CommittedIsSound
<1>1. IInv => CommittedIsSound
  BY DEF IInv
<1> QED
  BY <1>1, InvariantAlways, PTL

\* current_intent changes in commit only.
LEMMA CommitOnly ==
  ASSUME IInv, [Next]_vars, current' # current PROVE Commit
<1>1. ASSUME Tool PROVE FALSE
  <2>1. \A ids, intent, ss : ~ToolApplied(ids, intent, ss)
    BY DEF ToolApplied
  <2>2. \A i, dims, bold : ~AdjustLayer(i, dims, bold)
    BY <2>1 DEF AdjustLayer
  <2>3. \A i : ~RemoveLayer(i)
    BY <2>1 DEF RemoveLayer
  <2>4. \A i, layer, to, fresh : ~AddLayer(i, layer, to, fresh)
    BY <2>1 DEF AddLayer
  <2>5. \A i, fresh : ~SwapMotif(i, fresh)
    BY <2>1 DEF SwapMotif
  <2> QED
    BY <1>1, <2>2, <2>3, <2>4, <2>5, Zenon DEF Tool
<1>2. ASSUME NEW sent, NEW m,
             GateSelected(m) \/ GateGenerated(m) \/ GateReplayed(sent, m)
      PROVE  FALSE
  BY <1>2 DEF GateSelected, GateGenerated, GateReplayed, Resolve
<1>3. ASSUME NewTurn \/ AuthorIntent \/ EditBegin \/ EditEnd PROVE FALSE
  BY <1>3 DEF NewTurn, AuthorIntent, EditBegin, EditEnd
<1>4. ASSUME GatePass \/ GateRaises \/ ValidateOK \/ ValidateFails PROVE FALSE
  BY <1>4 DEF GatePass, GateRaises, ValidateOK, ValidateFails
<1>5. ~UNCHANGED vars
  BY DEF vars
<1> QED
  BY <1>1, <1>2, <1>3, <1>4, <1>5 DEF Next

\* A committed edit changes the layers its tool calls named and, of the others,
\* only a lane or bands that a repair makes fit those (edit_intent: "always
\* re-applied to current_intent, never the failed one"; validate_intent).
THEOREM EditsAreDeltas == Spec => EditIsDelta
<1> DEFINE Delta == \A i \in LayerIds \ touched : Bystander(current', i)
<1>1. ASSUME IInv, [Next]_vars
      PROVE  [current' # current /\ current # NoIntent => Delta]_vars
  <2>1. ASSUME current' # current, current # NoIntent PROVE Delta
    <3>1. Commit
      BY <1>1, <2>1, CommitOnly
    <3>2. node = "commit" /\ current' = working
      BY <3>1 DEF Commit
    <3> QED
      BY <1>1, <2>1, <3>2 DEF IInv, DeltaSoFar
  <2> QED
    BY <2>1
<1> QED
  BY <1>1, InvariantAlways, PTL DEF Spec, EditIsDelta

\* A committed layer has the motif that was last decided on for it in the turn,
\* or the one drawn for an approval that was replayed instead (resolve_gate,
\* _freeze_motif).
THEOREM LastDecisionsWin == Spec => LastDecisionWins
<1> DEFINE Kept == \A i \in DOMAIN current' :
                     decided[i] # NoMotif =>
                       \/ current'[i].motif = decided[i] /\ overruled[i] = NoMotif
                       \/ current'[i].motif = overruled[i]
<1>1. ASSUME IInv, [Next]_vars
      PROVE  [current' # current => Kept]_vars
  <2>1. ASSUME current' # current PROVE Kept
    <3>1. Commit
      BY <1>1, <2>1, CommitOnly
    <3>2. node = "commit" /\ current' = working
      BY <3>1 DEF Commit
    <3>3. DecisionsIn(working)
      BY <1>1, <3>2 DEF IInv, DecisionsKept
    <3> QED
      BY <3>2, <3>3 DEF DecisionsIn
  <2> QED
    BY <2>1
<1> QED
  BY <1>1, InvariantAlways, PTL DEF Spec, LastDecisionWins
=============================================================================
