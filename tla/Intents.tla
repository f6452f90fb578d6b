------------------------------- MODULE Intents -------------------------------
(***************************************************************************)
(* Stage 0: the intent, its validation and its repair                      *)
(* (src/app/validate/intent.py over src/app/engine/intent.py and           *)
(* palette.py), the guard of src/app/engine/seamless.py, and what          *)
(* src/app/engine/composition.py needs to draw it.                         *)
(*                                                                         *)
(* An intent is a record [tile, dpi, method, maxColors, slots, colorways,  *)
(* layers].  slots is a sequence of slot ids, colorways one of             *)
(* [id, mapping], layers one of                                            *)
(*   [type |-> "background", id, z, opaque, color]                         *)
(*   [type |-> "stripe", id, z, opaque, slope, period, bands], a band is   *)
(*     [offset, width, color] and slope the snapped angle                  *)
(*   [type |-> "motif", id, z, opaque, motif, size, binding, placement],   *)
(*     binding: color slot of the motif -> slot (one color binds s0)       *)
(* and a placement is None or [type, host, lane, path, spacing, phase,     *)
(* lattice, scatter, points].  A field that is not set is None, NoId or    *)
(* NoLength.  A layer id is a number, the place of its string in the       *)
(* order of strings.  Warnings are left out.                               *)
(***************************************************************************)
EXTENDS Torus

CONSTANTS
  ColorSlots,      \* registered motif -> its color slots (get_motif)
  AllowedDpi,      \* config.ALLOWED_DPI
  MaxTile,         \* Settings.max_tile_mm
  MaxCover         \* Settings.stripe_max_band_coverage, <<num, den>>

ASSUME CoverAssumption ==
  MaxCover[1] \in Nat \ {0} /\ MaxCover[2] \in Nat \ {0} /\ MaxCover[1] <= MaxCover[2]
ASSUME AllowedDpiAssumption == AllowedDpi # {} /\ AllowedDpi \subseteq Nat

NoId     == 0
NoLength == -1

Motifs == DOMAIN ColorSlots

RoundSigned(a, b) == IF a < 0 THEN -RoundDiv(-a, b) ELSE RoundDiv(a, b)

\* The sum of the first n numbers of a sequence.
SumTo(s, n) ==
  LET sum[i \in 0..n] == IF i = 0 THEN 0 ELSE sum[i - 1] + s[i] IN sum[n]

Layers(intent)     == {intent.layers[i] : i \in DOMAIN intent.layers}
LayersOf(intent, type) == {l \in Layers(intent) : l.type = type}
SlotIds(intent)    == {intent.slots[i] : i \in DOMAIN intent.slots}

\* layers_by_id: of two layers with one id the last; None when there is none.
LayerById(intent, id) ==
  IF \E l \in Layers(intent) : l.id = id
  THEN intent.layers[CHOOSE i \in DOMAIN intent.layers :
         /\ intent.layers[i].id = id
         /\ \A j \in DOMAIN intent.layers : intent.layers[j].id = id => j <= i]
  ELSE None

Placed(layer) == layer.type = "motif" /\ layer.placement # None

-----------------------------------------------------------------------------
\* The pydantic model: the spec of a placement is the one its type names.
WellFormed(intent) ==
  /\ \A l \in LayersOf(intent, "stripe") : l.bands # <<>>
  /\ \A l \in {m \in Layers(intent) : Placed(m)} :
       /\ (l.placement.lattice # None) <=> (l.placement.type = "lattice")
       /\ (l.placement.scatter # None) <=> (l.placement.type = "scatter")
       /\ (l.placement.points # None)  <=> (l.placement.type = "point_set")

\* Palette.__post_init__
PaletteOK(intent) ==
  /\ intent.slots # <<>>
  /\ \A i, j \in DOMAIN intent.slots : intent.slots[i] = intent.slots[j] => i = j
  /\ \A i, j \in DOMAIN intent.colorways :
       intent.colorways[i].id = intent.colorways[j].id => i = j
  /\ \E i \in DOMAIN intent.colorways : intent.colorways[i].id = "default"
  /\ \A i \in DOMAIN intent.colorways :
       DOMAIN intent.colorways[i].mapping = SlotIds(intent)

DistinctColors(intent, colorway) ==
  {colorway.mapping[s] : s \in SlotIds(intent)}

ClampDpi(dpi) ==
  IF dpi \in AllowedDpi THEN dpi
  ELSE CHOOSE d \in AllowedDpi : \A e \in AllowedDpi :
         \/ Abs(d - dpi) < Abs(e - dpi)
         \/ (Abs(d - dpi) = Abs(e - dpi) /\ d <= e)

-----------------------------------------------------------------------------
\* Repairs of one layer

StripeFits(layer, tile) == StripeTiles(tile, layer.period, layer.slope)

\* Mutant: the length of the slope is forgotten.
RepairPeriodFlat(layer, tile) ==
  LET k == Larger(1, RoundDiv(tile, layer.period))
      scaled(x) == RoundSigned(x * tile, k * layer.period)
  IN IF layer.type # "stripe" \/ StripeFits(layer, tile) THEN layer
     ELSE [layer EXCEPT
             !.period = RoundDiv(tile, k),
             !.bands = [i \in DOMAIN layer.bands |->
                          [layer.bands[i] EXCEPT !.offset = scaled(layer.bands[i].offset),
                                                 !.width  = scaled(layer.bands[i].width)]]]

\* The nearest period that tiles, the bands scaled with it; both rounded.
RepairPeriod(layer, tile) ==
  LET k     == Larger(1, RoundDiv(tile, layer.period * layer.slope[3]))
      whole == k * layer.slope[3]
      scaled(x) == RoundSigned(x * tile, whole * layer.period)
  IN IF layer.type # "stripe" \/ StripeFits(layer, tile) THEN layer
     ELSE [layer EXCEPT
             !.period = RoundDiv(tile, whole),
             !.bands = [i \in DOMAIN layer.bands |->
                          [layer.bands[i] EXCEPT !.offset = scaled(layer.bands[i].offset),
                                                 !.width  = scaled(layer.bands[i].width)]]]

BareLanes == {<<"start">>, <<"center">>, <<"end">>}

\* Mutant: bare lanes are left as they are.
NormalizeLaneNever(layer, intent) == layer

\* A bare lane of a stripe with several bands is the lane of its first band.
NormalizeLane(layer, intent) ==
  IF /\ Placed(layer)
     /\ layer.placement.type = "path_following"
     /\ layer.placement.lane \in BareLanes
     /\ \E host \in {LayerById(intent, layer.placement.host)} :
          host # None /\ host.type = "stripe" /\ Len(host.bands) > 1
  THEN [layer EXCEPT !.placement.lane = <<0, layer.placement.lane[1]>>]
  ELSE layer

Widths(bands) == [i \in DOMAIN bands |-> bands[i].width]

CoversTooMuch(layer) ==
  MaxCover[2] * SumTo(Widths(layer.bands), Len(layer.bands)) > MaxCover[1] * layer.period

\* Mutant: shrinks by the cap, not to it.
RepairGroundGapByCap(layer) ==
  LET n     == Len(layer.bands)
      width == [i \in 1..n |-> RoundDiv(layer.bands[i].width * MaxCover[1], MaxCover[2])]
      gap   == (MaxCover[2] - MaxCover[1]) * layer.period
      start(i) == RoundDiv(MaxCover[2] * n * SumTo(width, i - 1) + (i - 1) * gap,
                           MaxCover[2] * n)
  IN IF ~CoversTooMuch(layer) THEN layer
     ELSE [layer EXCEPT !.bands = [i \in 1..n |->
             [layer.bands[i] EXCEPT !.offset = start(i), !.width = width[i]]]]

\* Shrink the bands to the cap, and spread them with equal gaps.
RepairGroundGap(layer) ==
  LET n     == Len(layer.bands)
      total == SumTo(Widths(layer.bands), n)
      width == [i \in 1..n |-> RoundDiv(layer.bands[i].width * MaxCover[1] * layer.period,
                                        MaxCover[2] * total)]
      gap   == (MaxCover[2] - MaxCover[1]) * layer.period   \* in 1 / (MaxCover[2] * n)
      start(i) == RoundDiv(MaxCover[2] * n * SumTo(width, i - 1) + (i - 1) * gap,
                           MaxCover[2] * n)
  IN IF ~CoversTooMuch(layer) THEN layer
     ELSE [layer EXCEPT !.bands = [i \in 1..n |->
             [layer.bands[i] EXCEPT !.offset = start(i), !.width = width[i]]]]

\* Mutant: only a stripe above every opaque background is looked at.
OverGroundAll(layer, intent) ==
  /\ layer.type = "stripe" /\ layer.opaque
  /\ \A bg \in LayersOf(intent, "background") : layer.z > bg.z

\* A stripe that an opaque background lies under, by its z_order.
OverGround(layer, intent) ==
  /\ layer.type = "stripe" /\ layer.opaque
  /\ \E bg \in LayersOf(intent, "background") : bg.opaque /\ layer.z > bg.z

MapLayers(intent, Op(_)) ==
  [intent EXCEPT !.layers = [i \in DOMAIN intent.layers |-> Op(intent.layers[i])]]

-----------------------------------------------------------------------------
\* Errors, each named for its check

SlotRefs(layer) ==
  CASE layer.type = "background" -> {layer.color}
    [] layer.type = "stripe"     -> {layer.bands[i].color : i \in DOMAIN layer.bands}
    [] layer.type = "motif"      -> {layer.binding[s] : s \in DOMAIN layer.binding}

Closure(slope, tile) == tile * slope[3]

WaveCloses(path, tile) ==
  path.kind = "wave" /\ path.wavelength # NoLength
    => Divides(Closure(path.slope, tile), path.wavelength)

ScatterValid(spec, tile) ==
  IF spec.mode = "poisson"
  THEN spec.minDist # NoLength /\ PoissonValid(spec.minDist, tile)
  ELSE spec.n # NoLength /\ SateenValid(spec.n, spec.step)

PointsValid(points, tile) ==
  \A i \in DOMAIN points : points[i][1] \in 0..tile - 1 /\ points[i][2] \in 0..tile - 1

\* The mode of a lane: a host and its lane, or a path of its own.
LaneMode(p) ==
  \/ p.path # None /\ p.host = NoId /\ p.lane = None
  \/ p.path = None /\ p.host # NoId /\ p.lane # None

PlacementErrors(layer, intent) ==
  LET p    == layer.placement
      host == LayerById(intent, p.host)
      unless(ok, error) == IF ok THEN {} ELSE {error}
  IN UNION {
       IF p.type = "path_following"
       THEN unless(p.spacing # NoLength, "spacing") \cup unless(LaneMode(p), "lane mode")
       ELSE {},
       unless(p.type = "lattice"   => LatticeValid(p.lattice, intent.tile), "lattice"),
       unless(p.type = "scatter"   => ScatterValid(p.scatter, intent.tile), "scatter"),
       unless(p.type = "point_set" => PointsValid(p.points, intent.tile), "point_set"),
       unless(p.host # NoId => p.host # layer.id /\ host # None, "host_layer"),
       unless(p.type = "path_following" /\ p.host # NoId /\ host # None
                => host.type = "stripe" \/ p.host = layer.id, "host type"),
       unless(p.path # None => WaveCloses(p.path, intent.tile), "wavelength") }

LayerErrors(layer, intent) ==
  LET unless(ok, error) == IF ok THEN {} ELSE {error}
  IN UNION {
       unless(SlotRefs(layer) \subseteq SlotIds(intent), "slot"),
       unless(layer.type = "motif" /\ layer.motif \in Motifs
                => DOMAIN layer.binding = ColorSlots[layer.motif], "colors"),
       unless(layer.type = "motif" => layer.size <= intent.tile, "size"),
       unless(layer.type = "stripe" => StripeFits(layer, intent.tile), "stripe"),
       IF Placed(layer) THEN PlacementErrors(layer, intent) ELSE {} }

IntentErrors(intent) ==
  LET unless(ok, error) == IF ok THEN {} ELSE {error}
  IN UNION {
       unless(intent.method = "yarn_dyed" =>
                \A i \in DOMAIN intent.colorways :
                  Cardinality(DistinctColors(intent, intent.colorways[i])) <= intent.maxColors,
              "max_colors"),
       unless(\A i, j \in DOMAIN intent.layers :
                intent.layers[i].id = intent.layers[j].id => i = j, "duplicate id"),
       unless(intent.tile <= MaxTile, "max_tile_mm"),
       UNION {LayerErrors(l, intent) : l \in Layers(intent)} }

-----------------------------------------------------------------------------
\* validate_intent with repair: the errors, or the repaired intent

Validate(raw) ==
  IF ~WellFormed(raw) THEN [errors |-> {"structure"}, intent |-> raw]
  ELSE IF ~PaletteOK(raw) THEN [errors |-> {"palette"}, intent |-> raw]
  ELSE LET period(l) == RepairPeriod(l, raw.tile)
           tiled   == MapLayers([raw EXCEPT !.dpi = ClampDpi(raw.dpi)], period)
           lane(l) == NormalizeLane(l, tiled)
           laned   == MapLayers(tiled, lane)
           errors  == IntentErrors(laned)
           gap(l)  == IF OverGround(l, laned) THEN RepairGroundGap(l) ELSE l
       IN [errors |-> errors,
           intent |-> IF errors = {} THEN MapLayers(laned, gap) ELSE laned]

\* assert_seamless_invariants
Seamless(intent) ==
  /\ \A l \in LayersOf(intent, "stripe") : StripeFits(l, intent.tile)
  /\ \A l \in LayersOf(intent, "motif") :
       /\ l.size <= intent.tile
       /\ l.placement # None =>
            /\ l.placement.path # None => WaveCloses(l.placement.path, intent.tile)
            /\ l.placement.type = "lattice" =>
                 /\ Divides(intent.tile, l.placement.lattice.cw)
                 /\ Divides(intent.tile, l.placement.lattice.ch)
            /\ l.placement.type = "scatter" /\ l.placement.scatter.mode = "sateen"
                 => SateenValid(l.placement.scatter.n, l.placement.scatter.step)

-----------------------------------------------------------------------------
\* compose

Lanes(stripe) ==
  LET edges == {"start", "center", "end"}
  IN ((0..Len(stripe.bands) - 1) \X edges)
       \cup (IF Len(stripe.bands) = 1 THEN BareLanes ELSE {})

\* The background and stripe layers, by id.
Hosts(intent) == LayersOf(intent, "background") \cup LayersOf(intent, "stripe")

\* Why a motif layer cannot be drawn in this colorway; {} when it can.
LayerFailures(layer, intent) ==
  LET p     == layer.placement
      hosts == {h \in Hosts(intent) : h.id = p.host}
      own   == p.path # None /\ p.host = NoId
  IN IF p = None THEN {"no placement"}
     ELSE IF p.host # NoId /\ hosts = {} THEN {"host is not drawn"}
     ELSE IF layer.motif \notin Motifs THEN {"unknown motif"}
     ELSE CASE p.type = "path_following" /\ p.spacing = NoLength -> {"no spacing"}
            [] p.type = "path_following" /\ p.spacing # NoLength /\ own ->
                 IF p.path.kind = "wave" /\ NoLength \in {p.path.wavelength, p.path.amplitude}
                 THEN {"half a wave"} ELSE {}
            [] p.type = "path_following" /\ p.spacing # NoLength /\ ~own ->
                 IF \E h \in hosts : h.type = "stripe" /\ p.lane \in Lanes(h)
                 THEN {} ELSE {"unknown lane"}
            [] p.type = "lattice" ->
                 IF LatticeCount(p.lattice, intent.tile) > MaxInstances
                 THEN {"too many"} ELSE {}
            [] p.type = "scatter" ->
                 IF NoLength = (IF p.scatter.mode = "sateen" THEN p.scatter.n
                                ELSE p.scatter.minDist)
                 THEN {"no scatter"} ELSE {}
            [] OTHER -> {}   \* point_set: its points are given

\* resolve_color, for every slot a layer names.
ColorFailures(layer, intent, colorway) ==
  IF /\ SlotRefs(layer) \subseteq SlotIds(intent)
     /\ SlotRefs(layer) \subseteq DOMAIN colorway.mapping
     /\ layer.type = "motif" /\ layer.motif \in Motifs
          => ColorSlots[layer.motif] \subseteq DOMAIN layer.binding
  THEN {} ELSE {"color"}

ComposeFailures(intent, colorway) ==
  UNION ({LayerFailures(l, intent) : l \in LayersOf(intent, "motif")}
           \cup {ColorFailures(l, intent, colorway) : l \in Layers(intent)})
=============================================================================
