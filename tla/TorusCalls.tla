----------------------------- MODULE TorusCalls -----------------------------
(***************************************************************************)
(* What the geometry of Torus and the cloth of Fabric promise.  One call   *)
(* of one operation is made, with any of its arguments; call keeps them    *)
(* and what came out.                                                      *)
(***************************************************************************)
EXTENDS Fabric

CONSTANTS
  \* the arguments tried
  Tiles,    \* sides of the tile
  Lengths,  \* cells, spacings, periods, distances, half widths of a box
  Phases,   \* phases of a lane
  BandOffsets, \* offsets of a band
  Slopes,   \* slopes of a stripe
  Rises,    \* requested directions: <<a, b>> with slope a / b
  DartTile, MaxDarts, MaxSateen,
  Masks,    \* masks of a motif: [side, mask, dpi]
  Side, Designs, ClothRequests, \* designs of a cloth, and what is asked for
  PaletteSlots, Colorways,      \* the slots and colorways of their palette
  Reach     \* how many tiles (or periods) away copies are looked at

ASSUME LengthsAssumption ==
  /\ Tiles \subseteq Nat \ {0}
  /\ Lengths \subseteq Nat \ {0}
  /\ Phases \subseteq Int /\ BandOffsets \subseteq Int
  /\ DartTile \in Nat \ {0} /\ Reach \in Nat
  /\ MaxDarts \in Nat /\ MaxSateen \in Nat
ASSUME RisesAssumption == Rises \subseteq Int \X Nat
\* The tolerance tells a dropped row from one that is not dropped.
ASSUME ToleranceAssumption == \A d \in AllowedDrops : Tol > d[2]
\* A slope is a Fraction in its lowest terms, with its hypotenuse.
ASSUME SlopesAssumption ==
  /\ Slopes \subseteq Int \X Nat \X (Nat \ {0})
  /\ \A s \in Slopes : s[1] * s[1] + s[2] * s[2] = s[3] * s[3] /\ Coprime(Abs(s[1]), s[2])
ASSUME MasksAssumption ==
  \A m \in Masks : m.side \in Nat \ {0} /\ m.dpi \in Nat \ {0} /\ m.mask \subseteq Pixels(m.side)
ASSUME DesignsAssumption ==
  /\ Side \in Nat \ {0}
  /\ \A d \in Designs : DOMAIN d = 1..Len(d) /\ Len(d) \in Nat
  /\ \A d \in Designs : \A i \in DOMAIN d :
       /\ DOMAIN d[i] = {"type", "paint"}
       /\ \A s \in DOMAIN d[i].paint : d[i].paint[s] \subseteq Pixels(Side)
ASSUME ClothRequestsAssumption ==
  \A r \in ClothRequests : /\ r.dpi \in Nat
                           /\ DOMAIN r = {"method", "weave", "colorway", "map", "dpi",
                                         "strength", "relief"}

-----------------------------------------------------------------------------
\* One call of one operation, with the arguments and what came out.

VARIABLE call

NoCall == [op |-> "none"]

CallInit == call = NoCall

\* A motif is at most as wide as the tile; turned by 45 degrees its box is
\* sqrt(2) as wide.
Fits(e, tile) == 1000 * e <= 708 * tile

CallClones ==
  /\ call = NoCall
  /\ \E tile \in Tiles, ex, ey \in Lengths : \E x, y \in 0..tile - 1 :
       /\ Fits(ex, tile) /\ Fits(ey, tile)
       /\ call' = [op |-> "clone_instances", tile |-> tile, ex |-> ex, ey |-> ey,
                   box |-> Box(x, y, ex, ey), out |-> Clones(Box(x, y, ex, ey), tile)]

Drops == {None} \cup AllowedDrops \cup {<<2, 3>>}
LatticeSpecs == [cw : Lengths, ch : Lengths, drop : Drops, axis : {"row", "column"}]

CallLattice ==
  /\ call = NoCall
  /\ \E tile \in Tiles, spec \in LatticeSpecs :
       /\ LatticeValid(spec, tile)
       /\ call' = [op |-> "place_lattice", tile |-> tile, spec |-> spec,
                   out |-> PlaceLattice(spec, tile)]

CallSateen ==
  /\ call = NoCall
  /\ \E n \in 2..MaxSateen, step \in 1..2 * MaxSateen :
       /\ SateenValid(n, step)
       /\ call' = [op |-> "place_sateen", n |-> n, out |-> PlaceSateen(n, step)]

CallPoisson ==
  /\ call = NoCall
  /\ \E dist \in Lengths, count \in 1..MaxDarts :
     \E darts \in [1..MaxDarts -> (0..DartTile - 1) \X (0..DartTile - 1)] :
       /\ PoissonValid(dist, DartTile)
       /\ call' = [op |-> "place_poisson", tile |-> DartTile, dist |-> dist,
                   count |-> count, darts |-> darts,
                   out |-> PlacePoisson(darts, dist, count, DartTile)]

CallPath ==
  /\ call = NoCall
  /\ \E closure, spacing \in Lengths, phase \in Phases :
       call' = [op |-> "place_path_following", closure |-> closure, spacing |-> spacing,
                out |-> PlacePath(closure, spacing, phase)]

CallSnap ==
  /\ call = NoCall
  /\ \E rise \in Rises, tile \in Tiles :
       call' = [op |-> "snap_angle", tile |-> tile, rise |-> rise, out |-> SnapAngle(rise[1], rise[2])]

CallStripe ==
  /\ call = NoCall
  /\ \E tile \in Tiles, period, width \in Lengths, offset \in BandOffsets, slope \in Slopes :
       LET band == [offset |-> offset, width |-> width]
       IN call' = [op |-> "render_stripe", tile |-> tile, band |-> band, slope |-> slope,
                   period |-> period, ok |-> StripeTiles(tile, period, slope),
                   out |-> BandLines(band, period, slope, tile)]

CallThreads ==
  /\ call = NoCall
  /\ \E m \in Masks :
       call' = [op |-> "motif_thread_mask", of |-> m,
                out |-> ThreadMask(m.mask, m.side, m.dpi)]

CallFabric ==
  /\ call = NoCall
  /\ \E design \in Designs, request \in ClothRequests :
       LET r  == WithDpi(request)
           ok == ~Refused(r, PaletteSlots, Colorways)
       IN call' = [op |-> "render_fabric", design |-> design, request |-> r, ok |-> ok,
                   out |-> IF ok THEN RenderFabric(design, Side, r) ELSE <<>>]

CallNext == CallClones \/ CallLattice \/ CallSateen \/ CallPoisson \/ CallPath
          \/ CallSnap \/ CallStripe \/ CallThreads \/ CallFabric

CallSpec == CallInit /\ [][CallNext]_call

-----------------------------------------------------------------------------
\* The inside of the box, moved by d tiles, meets the inside of the tile.
Visible(box, d, tile) ==
  /\ box.x0 + d[1] * tile < tile /\ 0 < box.x1 + d[1] * tile
  /\ box.y0 + d[2] * tile < tile /\ 0 < box.y1 + d[2] * tile

(* Whatever part of an instance the neighbouring tiles would show in this   *)
(* one is drawn: every copy of it on the plane that reaches into the tile   *)
(* is a clone, although only the eight neighbours are tried and only when   *)
(* the box crosses an edge (clone_instances).                               *)
ClonesComplete ==
  call.op = "clone_instances" =>
    \A d \in (-Reach..Reach) \X (-Reach..Reach) :
      (d # <<0, 0>> /\ Visible(call.box, d, call.tile)) => d \in call.out

(* A lattice that validation accepts, with cells that divide the tile       *)
(* exactly, has its points all different and is the same lattice seen from  *)
(* each of its points, across the edges of the tile too (place_lattice,     *)
(* _lattice_errors).                                                        *)
LatticeCloses ==
  call.op = "place_lattice"
    /\ call.tile % call.spec.cw = 0 /\ call.tile % call.spec.ch = 0 =>
    LET side   == call.tile * Drop(call.spec)[2]
        points == {call.out[at] : at \in DOMAIN call.out}
    IN /\ Cardinality(points) = LatticeCount(call.spec, call.tile)
       /\ \A p \in points, b \in {LatticeBasis(call.spec)[1], LatticeBasis(call.spec)[2]} :
            <<(p[1] + b[1]) % side, (p[2] + b[2]) % side>> \in points

(* A scatter keeps its points apart: no two points of a sateen grid share   *)
(* a row (scatter.py: "no two points share a row or column"); the accepted  *)
(* darts are pairwise far enough on the torus, across the edges too, and a  *)
(* dart is given up only when it is too close to an accepted one or there   *)
(* are enough (_place_sateen, _place_poisson).                              *)
NearOnTorus(a, b, dist, tile) ==
  \E i, j \in {-1, 0, 1} :
    LET dx == a[1] - b[1] + i * tile
        dy == a[2] - b[2] + j * tile
    IN dx * dx + dy * dy < dist * dist

ScatterSpread ==
  /\ call.op = "place_sateen" =>
       \A i, j \in DOMAIN call.out : call.out[i] = call.out[j] => i = j
  /\ call.op = "place_poisson" =>
       LET near(a, b) == NearOnTorus(a, b, call.dist, call.tile)
           kept == {call.out[i] : i \in DOMAIN call.out}
       IN /\ \A i, j \in DOMAIN call.out : i # j => ~near(call.out[i], call.out[j])
          /\ Len(call.out) <= call.count
          /\ (Len(call.out) < call.count) =>
               \A k \in DOMAIN call.darts : \E p \in kept : near(call.darts[k], p)

(* Two instances on a lane are at least one snapped step apart, also from   *)
(* the last to the first across the wrap, and a lane is never left empty    *)
(* (place_path_following).                                                  *)
LaneSpaced ==
  call.op = "place_path_following" =>
    LET round == SnapCount(call.closure, call.spacing) * call.closure
    IN /\ call.out # {}
       /\ \A s, t \in call.out :
            s < t => t - s >= call.closure /\ s + round - t >= call.closure

(* What the docstrings say of the same walk: the lane holds the number of   *)
(* instances snap_spacing returns, "so the motif rhythm is uniform across   *)
(* the wrap" (units.py:119).                                                *)
LaneRhythmUniform ==
  call.op = "place_path_following" =>
    Cardinality(call.out) = SnapCount(call.closure, call.spacing)

(* A snapped direction closes within MAX_LANE_PERIOD_TILES tiles each way;  *)
(* one that closes in so many already is not turned, so that snapping once  *)
(* more changes nothing (every variant is validated and drawn from the      *)
(* snapped angle anew); and its lane does not run over itself before it     *)
(* closes (snap_angle, Centerline.point_at).                                *)
SnapCloses ==
  call.op = "snap_angle" =>
    LET p == call.out[1]
        q == call.out[2]
    IN /\ Abs(p) <= MaxLanePeriodTiles /\ q \in 0..MaxLanePeriodTiles
       /\ (Abs(call.rise[1]) <= MaxLanePeriodTiles /\ call.rise[2] <= MaxLanePeriodTiles) =>
            p * call.rise[2] = q * call.rise[1]
       /\ SnapAngle(p, q) = call.out
       /\ \A t, u \in 0..call.tile - 1 :
            PointAt(call.out, 0, t, call.tile) = PointAt(call.out, 0, u, call.tile) => t = u

(* A stripe repeats under both translations of the tile, up to the          *)
(* tolerance, if validation accepts it, and is accepted if it repeats       *)
(* exactly (stripe_tiles: "iff"); and every place of the tile that lies on  *)
(* the endless family of bands lies on a line that is drawn (Stripe.render, *)
(* k_min..k_max).                                                           *)
StripeRepeats ==
  LET step == call.slope[3] * call.period
      off(n) == Smaller((n * call.tile) % step, step - ((n * call.tile) % step))
  IN /\ call.ok => \A n \in {Abs(call.slope[1]), call.slope[2]} :
                     Tol * off(n) <= n * Larger(step, call.tile)
     /\ (off(call.slope[1]) = 0 /\ off(call.slope[2]) = 0) => call.ok

StripeCovers ==
  LET step == 2 * call.slope[3] * call.period
      half == call.slope[3] * call.band.width
      c    == BandCenter(call.band, call.slope)
      covers(line, t) == Abs(t - line) <= half
  IN \A x, y \in 0..call.tile, k \in -Reach..Reach :
       LET t == 2 * (call.slope[2] * y - call.slope[1] * x)
       IN covers(c + k * step, t) => \E line \in call.out : covers(line, t)

StripesTile == call.op = "render_stripe" => StripeRepeats /\ StripeCovers

(* The cloth is seamless: moved along its yarns, over whatever edge of the  *)
(* tile, a motif takes its strands with it, and the whole design its cloth  *)
(* with inlay and relief ("a motif crossing the tile edge keeps its strand  *)
(* phase", _thread_period_width, _motif_thread_mask, _apply_relief).        *)
MovedAlong(mask, side) == {<<(p[1] + 1) % side, (p[2] - 1) % side>> : p \in mask}
MovedDesign(design, side) ==
  [i \in DOMAIN design |->
     [design[i] EXCEPT !.paint = [s \in DOMAIN @ |-> MovedAlong(@[s], side)]]]

ThreadsMove ==
  LET m == call.of
  IN ThreadMask(MovedAlong(m.mask, m.side), m.side, m.dpi) = MovedAlong(call.out, m.side)

ClothMoves ==
  call.ok =>
    LET moved == RenderFabric(MovedDesign(call.design, Side), Side, call.request)
    IN \A p \in Pixels(Side) :
         moved[<<(p[1] + 1) % Side, (p[2] - 1) % Side>>] = call.out[p]

(* And a yarn-dyed motif is laid in: off its strands the cloth is the one   *)
(* that is woven without any motif ("the base fabric shows between yarns"), *)
(* and the strands have their one weave whatever the ground has.            *)
MotifsInlaid ==
  call.ok /\ call.request.method = "yarn_dyed" /\ DOMAIN WithoutMotifs(call.design) # {} =>
    LET bare == RenderFabric(WithoutMotifs(call.design), Side, call.request)
    IN \A p \in Pixels(Side) :
         IF call.out[p].yarn
         THEN call.out[p].weave = MotifWeave
         ELSE call.out[p].slot = bare[p].slot /\ call.out[p].weave = bare[p].weave

ClothTiles ==
  /\ call.op = "motif_thread_mask" => ThreadsMove
  /\ call.op = "render_fabric" => ClothMoves /\ MotifsInlaid
=============================================================================
