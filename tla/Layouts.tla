------------------------------- MODULE Layouts -------------------------------
(***************************************************************************)
(* One design on its way to candidates (generate_candidates of             *)
(* src/app/engine/candidates.py, steps 1 and 2): the base intent is        *)
(* validated and guarded, varied in its layout, each variant validated and *)
(* guarded again, and each layout drawn in each colorway.                  *)
(*                                                                         *)
(* design is the intent in hand, base the validated base it comes from,    *)
(* stage how far it is, and errors why it stopped.                         *)
(***************************************************************************)
EXTENDS Intents

CONSTANT RawIntents   \* what a request or the model may hand over

\* What every intent has, by the pydantic model.  The unit is fine enough for
\* every slope to have a period that tiles.
ShapedStripe(l, tile) ==
  /\ DOMAIN l = {"type", "id", "z", "opaque", "slope", "period", "bands"}
  /\ l.period \in Nat \ {0}
  /\ l.slope[3] \in Nat \ {0} /\ l.slope[3] < 2 * tile
  /\ l.bands \in Seq([offset : Int, width : Nat, color : STRING])

ShapedPlacement(p) ==
  /\ DOMAIN p = {"type", "host", "lane", "path", "spacing", "lattice", "scatter", "points"}
  /\ p.spacing \in Nat \cup {NoLength}
  /\ p.lattice # None => /\ DOMAIN p.lattice = {"cw", "ch", "drop", "axis"}
                         /\ p.lattice.cw \in Nat /\ p.lattice.ch \in Nat

ShapedMotif(l) ==
  /\ DOMAIN l = {"type", "id", "z", "opaque", "motif", "size", "binding", "placement"}
  /\ l.size \in Nat
  /\ l.placement # None => ShapedPlacement(l.placement)

ShapedLayer(l, tile) ==
  \/ l.type = "background" /\ DOMAIN l = {"type", "id", "z", "opaque", "color"}
  \/ l.type = "stripe" /\ ShapedStripe(l, tile)
  \/ l.type = "motif" /\ ShapedMotif(l)

Shaped(intent) ==
  /\ DOMAIN intent = {"tile", "dpi", "method", "maxColors", "slots", "colorways", "layers"}
  /\ intent.tile \in Nat \ {0}
  /\ intent.dpi \in Int
  /\ DOMAIN intent.layers \subseteq Nat
  /\ \A i \in DOMAIN intent.layers : ShapedLayer(intent.layers[i], intent.tile)

ASSUME RawIntentsAssumption == \A raw \in RawIntents : Shaped(raw)

VARIABLES stage, design, base, errors
designVars == <<stage, design, base, errors>>

-----------------------------------------------------------------------------
\* _layout_variants.  A rhythm has its weights and its gap in tenths.

Rhythm(weights, gap) == [weights |-> weights, gap |-> gap]

\* _STRIPE_RHYTHMS_SINGLE and _STRIPE_RHYTHMS_MULTI
SingleRhythms == {Rhythm(<<50, 20, 20>>, 5), Rhythm(<<30, 20, 10>>, 6)}
MultiRhythms  == {Rhythm(<<50, 110>>, 4), Rhythm(<<60, 10, 30>>, 4)}

\* Bands and the gaps between them fill the period; the colors repeat.
WithRhythm(layer, rhythm) ==
  LET w     == rhythm.weights
      n     == Len(w)
      total == SumTo(w, n) + rhythm.gap * (n - 1)
      m     == Len(layer.bands)
      share(x) == RoundDiv(layer.period * x, total)
  IN [layer EXCEPT !.bands = [i \in 1..n |->
        [offset |-> share(SumTo(w, i - 1) + (i - 1) * rhythm.gap),
         width  |-> share(w[i]),
         color  |-> layer.bands[((i - 1) % m) + 1].color]]]

\* percent of the period
WithRatio(layer, percent) ==
  [layer EXCEPT !.bands[1].width = RoundDiv(layer.period * percent, 100)]

OtherRatios(layer) ==
  {r \in {35, 65} :
     Tol * Abs(r * layer.period - 100 * layer.bands[1].width) > 100 * layer.period}

StripeVariants(layer) ==
  IF Len(layer.bands) = 1
  THEN {WithRatio(layer, r) : r \in OtherRatios(layer)}
         \cup {WithRhythm(layer, r) : r \in SingleRhythms}
  ELSE {WithRhythm(layer, r) : r \in MultiRhythms}

\* by 0.75 and by 1.35, up to the tile
SizeVariants(layer, tile) ==
  LET sizes == {RoundDiv(75 * layer.size, 100),
                Smaller(tile, RoundDiv(135 * layer.size, 100))}
  IN {[layer EXCEPT !.size = s] : s \in {t \in sizes : Tol * Abs(t - layer.size) > Unit}}

SpacingVariants(layer) ==
  {[layer EXCEPT !.placement.spacing = RoundDiv(layer.placement.spacing * f, 4)] : f \in {3, 6}}

DropVariants(layer) ==
  {[layer EXCEPT !.placement.lattice.drop = d] :
     d \in ({None} \cup AllowedDrops) \ {layer.placement.lattice.drop}}

\* One cell more each way, and one less.
CellVariants(layer, tile) ==
  LET spec == layer.placement.lattice
      nx == Larger(1, RoundDiv(tile, spec.cw))
      ny == Larger(1, RoundDiv(tile, spec.ch))
      more == <<nx + 1, ny + 1>>
      less == <<Larger(1, nx - 1), Larger(1, ny - 1)>>
  IN {[layer EXCEPT !.placement.lattice.cw = RoundDiv(tile, c[1]),
                    !.placement.lattice.ch = RoundDiv(tile, c[2])] :
        c \in {more, less} \ {<<nx, ny>>}}

LayerVariants(layer, tile) ==
  IF layer.type = "stripe" THEN StripeVariants(layer)
  ELSE IF ~Placed(layer) THEN {}
  ELSE CASE layer.placement.type = "path_following" ->
              SpacingVariants(layer) \cup SizeVariants(layer, tile)
         [] layer.placement.type = "lattice" ->
              DropVariants(layer) \cup CellVariants(layer, tile) \cup SizeVariants(layer, tile)
         [] OTHER -> {}

\* The base comes first; each other variant changes one layer.
LayoutVariants(intent) ==
  {intent} \cup UNION {{[intent EXCEPT !.layers[i] = l] :
                          l \in LayerVariants(intent.layers[i], intent.tile)} :
                       i \in DOMAIN intent.layers}

-----------------------------------------------------------------------------
NoDesign == [tile |-> 0, dpi |-> 0, layers |-> <<>>]

Init == stage = "idle" /\ design = NoDesign /\ base = NoDesign /\ errors = {}

Submit ==
  /\ stage = "idle"
  /\ \E raw \in RawIntents : design' = raw
  /\ stage' = "raw"
  /\ UNCHANGED <<base, errors>>

\* validate_intent, then assert_seamless_invariants.
Check(accepted, refused) ==
  LET result == Validate(design)
  IN /\ design' = result.intent
     /\ errors' = IF result.errors # {} THEN result.errors
                  ELSE IF Seamless(result.intent) THEN {} ELSE {"assertion"}
     /\ stage' = IF errors' = {} THEN accepted ELSE refused

\* An error of the base is the caller's (422 at the route).
ValidateBase ==
  /\ stage = "raw"
  /\ Check("base", "rejected")
  /\ base' = IF stage' = "base" THEN design' ELSE base

Vary ==
  /\ stage = "base"
  /\ \E variant \in LayoutVariants(base) : design' = variant
  /\ stage' = "variant"
  /\ UNCHANGED <<base, errors>>

\* A variant that does not fit the base is dropped without a word.
ValidateVariant ==
  /\ stage = "variant"
  /\ Check("layout", "dropped")
  /\ UNCHANGED base

\* A layout that cannot be drawn is dropped and counted in a warning.
Draw ==
  /\ stage = "layout"
  /\ \E i \in DOMAIN design.colorways :
       errors' = ComposeFailures(design, design.colorways[i])
  /\ stage' = IF errors' = {} THEN "drawn" ELSE "failed"
  /\ UNCHANGED <<design, base>>

Next == Submit \/ ValidateBase \/ Vary \/ ValidateVariant \/ Draw

Spec == Init /\ [][Next]_designVars

-----------------------------------------------------------------------------
(* What the repairs leave is seamless, and stays so in every layout made    *)
(* from it: the guard never fires (assert_seamless_invariants is "by        *)
(* construction"), although the ground repair and the variants come after   *)
(* the checks it mirrors.                                                   *)
GuardNeverFires == "assertion" \notin errors

(* A stripe whose period the repair has moved tiles then, unless the period *)
(* is so short that rounding it costs more than the tolerance: no other     *)
(* stripe is refused (_repair_stripe_period "repairs it instead of 422").   *)
RepairedStripesTile ==
  "stripe" \in errors =>
    \E s \in LayersOf(design, "stripe") : ~StripeFits(s, design.tile) /\ 2 * s.period <= Tol

(* Validating an accepted intent once more does not refuse it, and moves no *)
(* band by more than the rounding of one repair: the base is always one of  *)
(* the layouts (the graph, the model's adapter and the engine validate the  *)
(* same intent in turn).                                                    *)
Settled(old, new) ==
  /\ [new EXCEPT !.layers = <<>>] = [old EXCEPT !.layers = <<>>]
  /\ \A i \in DOMAIN old.layers :
       \/ new.layers[i] = old.layers[i]
       \/ /\ old.layers[i].type = "stripe"
          /\ new.layers[i].period = old.layers[i].period
          /\ \A b \in DOMAIN old.layers[i].bands :
               Abs(new.layers[i].bands[b].width - old.layers[i].bands[b].width)
                 <= Len(old.layers[i].bands)
BaseSurvives ==
  [][stage = "variant" /\ design = base => stage' = "layout" /\ Settled(base, design')]_designVars

\* The bands of a stripe leave some point of the period bare.
Bare(stripe) ==
  \E t \in 0..stripe.period - 1 : \A i \in DOMAIN stripe.bands :
    (t - stripe.bands[i].offset) % stripe.period >= stripe.bands[i].width

\* The gap the cap leaves is no wider than the rounding of the bands.
GapRoundedAway(stripe) ==
  2 * (MaxCover[2] - MaxCover[1]) * stripe.period <= MaxCover[2] * Len(stripe.bands)

Accepted == stage \in {"base", "layout", "drawn"}

(* The ground stays in sight: an opaque stripe above the opaque ground      *)
(* never covers all of it, whatever bands were asked for and whatever       *)
(* rhythm the variant gave it (_repair_stripe_ground_gap), unless its       *)
(* bands are rounded by as much as the gap.                                 *)
GroundVisibleByZ ==
  Accepted => \A s \in LayersOf(design, "stripe"), g \in LayersOf(design, "background") :
                s.opaque /\ g.opaque /\ s.z > g.z => Bare(s) \/ GapRoundedAway(s)

(* If the base can be drawn, a layout made from it can, but for one reason: *)
(* the rhythm has fewer bands than the one whose lane a motif follows.      *)
VariantsDraw ==
  stage = "failed" /\ (\A i \in DOMAIN base.colorways :
                         ComposeFailures(base, base.colorways[i]) = {}) =>
    /\ errors = {"unknown lane"}
    /\ \E l \in LayersOf(design, "motif") : \E s \in LayersOf(design, "stripe") :
         /\ l.placement.host = s.id
         /\ Len(l.placement.lane) = 2 /\ l.placement.lane[1] >= Len(s.bands)
=============================================================================
