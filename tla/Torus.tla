-------------------------------- MODULE Torus --------------------------------
(***************************************************************************)
(* The geometry of the tile: what src/app/engine draws on a square torus   *)
(* of side tile, and the checks of app/validate/intent.py that guard it.   *)
(*                                                                         *)
(* A length is an integer, in units of 1 / Unit mm; the code compares      *)
(* with a relative tolerance of 1 / Tol = 1e-6.  Floating-point error      *)
(* below the tolerance is left out.  A slope is <<p, q, h>> with           *)
(* h = hypot(p, q) an integer; the closure of any other slope is           *)
(* irrational and is left out.  The operators are pure; TorusCalls checks  *)
(* each of them, Intents and Layouts are built on them.                    *)
(***************************************************************************)
EXTENDS Integers, FiniteSets, Sequences

CONSTANTS
  Unit,               \* units in a millimetre
  Tol,                \* 1 / tolerance: 10^6
  MaxLanePeriodTiles, \* units.MAX_LANE_PERIOD_TILES
  MaxInstances        \* Settings.max_placement_instances

ASSUME UnitAssumption == Unit \in Nat \ {0} /\ Tol \in Nat \ {0}
ASSUME CapsAssumption == MaxLanePeriodTiles \in Nat \ {0, 1} /\ MaxInstances \in Nat \ {0}

Abs(x)       == IF x < 0 THEN -x ELSE x
Smaller(x, y) == IF x < y THEN x ELSE y
Larger(x, y)  == IF x < y THEN y ELSE x

\* round(a / b) of Python, for a >= 0 and b > 0: a half goes to the even one.
RoundDiv(a, b) ==
  LET down == a \div b
      rest == a % b
  IN IF 2 * rest > b \/ (2 * rest = b /\ down % 2 = 1) THEN down + 1 ELSE down

CeilDiv(a, b) == -((-a) \div b)

Coprime(a, b) == \A d \in 2..Larger(a, b) : a % d # 0 \/ b % d # 0

None == <<>>

-----------------------------------------------------------------------------
\* units.py: divisibility, the snapped step and the snapped angle

Divides(whole, part) ==
  /\ part > 0
  /\ Tol * Abs(RoundDiv(whole, part) * part - whole) <= Larger(Unit, whole)

\* The number of instances on a lane; its step is closure / SnapCount.
SnapCount(closure, spacing) == Larger(1, RoundDiv(closure, spacing))

StripeTiles(tile, period, slope) ==
  LET k == RoundDiv(tile, period * slope[3])
  IN /\ k >= 1
     /\ Tol * Abs(k * period * slope[3] - tile) <= Larger(period * slope[3], tile)

\* Fraction(a / b).limit_denominator: the nearest, on a tie the simpler one.
Fractions == {f \in (0..MaxLanePeriodTiles) \X (1..MaxLanePeriodTiles) :
                f[1] <= f[2] /\ (f = <<0, 1>> \/ Coprime(f[1], f[2]))}
Miss(f, a, b) == Abs(f[1] * b - a * f[2])
Nearest(a, b) ==
  CHOOSE f \in Fractions : \A g \in Fractions \ {f} :
     \/ Miss(f, a, b) * g[2] < Miss(g, a, b) * f[2]
     \/ Miss(f, a, b) * g[2] = Miss(g, a, b) * f[2] /\ f[2] < g[2]

\* Mutant: a steep slope is not taken by its cotangent.
SnapAngleFlat(a, b) ==
  LET sign == IF a < 0 THEN -1 ELSE 1
      flat == Nearest(Abs(a), b)
  IN IF b = 0 THEN <<1, 0>> ELSE <<sign * flat[1], flat[2]>>

\* snap_angle for the direction with slope a / b, b >= 0: the slope p / q, by
\* its cotangent when steep; q = 0 is vertical.
SnapAngle(a, b) ==
  LET sign    == IF a < 0 THEN -1 ELSE 1
      flat    == Nearest(Abs(a), b)
      steep   == Nearest(b, Abs(a))
  IN IF b = 0 THEN <<1, 0>>
     ELSE IF Abs(a) <= b THEN <<sign * flat[1], flat[2]>>
     ELSE IF steep[1] = 0 THEN <<1, 0>>
     ELSE <<sign * steep[2], steep[1]>>

-----------------------------------------------------------------------------
\* seamless.py: boundary clones.  A box is the rendered box of an instance,
\* centred on its anchor: registry motifs have their anchor in the middle.

Box(x, y, ex, ey) == [x0 |-> x - ex, x1 |-> x + ex, y0 |-> y - ey, y1 |-> y + ey]

Crosses(box, tile) ==
  box.x0 < 0 \/ box.y0 < 0 \/ box.x1 > tile \/ box.y1 > tile

Outside(box, dx, dy, tile) ==
  \/ box.x1 + dx * tile < 0
  \/ box.y1 + dy * tile < 0
  \/ box.x0 + dx * tile > tile
  \/ box.y0 + dy * tile > tile

\* Mutant: no clone before the origin.
OffsetsAhead == {0, 1}

Offsets == {-1, 0, 1}

Clones(box, tile) ==
  IF Crosses(box, tile)
  THEN {d \in (Offsets \X Offsets) \ {<<0, 0>>} : ~Outside(box, d[1], d[2], tile)}
  ELSE {}

-----------------------------------------------------------------------------
\* placement/: points on the torus

\* A lattice spec: cells cw by ch; drop is None or <<num, den>>; a point is in
\* units of 1 / den, so that a dropped row or column is exact.
Drop(spec) == IF spec.drop = None THEN <<0, 1>> ELSE spec.drop

LatticeCount(spec, tile) == RoundDiv(tile, spec.cw) * RoundDiv(tile, spec.ch)

LatticeBasis(spec) ==
  LET num == Drop(spec)[1]
      den == Drop(spec)[2]
  IN IF spec.axis = "column"
     THEN << <<den * spec.cw, num * spec.ch>>, <<0, den * spec.ch>> >>
     ELSE << <<den * spec.cw, 0>>, <<num * spec.cw, den * spec.ch>> >>

LatticePoint(spec, tile, i, j) ==
  LET b    == LatticeBasis(spec)
      side == tile * Drop(spec)[2]
  IN <<(i * b[1][1] + j * b[2][1]) % side, (i * b[1][2] + j * b[2][2]) % side>>

PlaceLattice(spec, tile) ==
  [at \in (0..RoundDiv(tile, spec.cw) - 1) \X (0..RoundDiv(tile, spec.ch) - 1) |->
     LatticePoint(spec, tile, at[1], at[2])]

AllowedDrops == {<<1, 2>>, <<1, 3>>, <<1, 4>>}

\* Mutant: only the cells are checked.
DropClosesNever(spec, tile) == TRUE

\* The dropped lattice contains the translations of the tile.
DropCloses(spec, tile) ==
  LET cell == IF spec.axis = "column" THEN spec.cw ELSE spec.ch
      a    == tile * Drop(spec)[1]
      b    == cell * Drop(spec)[2]
  IN Tol * Abs(RoundDiv(a, b) * b - a) <= b

\* Mutant: the height of the cell is not checked.
LatticeValidOneAxis(spec, tile) ==
  /\ LatticeCount(spec, tile) <= MaxInstances
  /\ Divides(tile, spec.cw)
  /\ spec.drop # None => spec.drop \in AllowedDrops /\ DropCloses(spec, tile)

LatticeValid(spec, tile) ==
  /\ LatticeCount(spec, tile) <= MaxInstances
  /\ Divides(tile, spec.cw)
  /\ Divides(tile, spec.ch)
  /\ spec.drop # None => spec.drop \in AllowedDrops /\ DropCloses(spec, tile)

\* The sateen grid of n cells: column i has its point in this row.
PlaceSateen(n, step) == [i \in 0..n - 1 |-> (i * step) % n]

SateenValid(n, step) == Coprime(step, n)

\* Mutant: the distance does not wrap.
FlatDist2(a, b, tile) ==
  (a[1] - b[1]) * (a[1] - b[1]) + (a[2] - b[2]) * (a[2] - b[2])

\* Square of the distance on the torus.
TorusDist2(a, b, tile) ==
  LET dx == Smaller(Abs(a[1] - b[1]), tile - Abs(a[1] - b[1]))
      dy == Smaller(Abs(a[2] - b[2]), tile - Abs(a[2] - b[2]))
  IN dx * dx + dy * dy

\* Dart throwing: the darts the seed draws, in their order.
PlacePoisson(darts, dist, count, tile) ==
  LET kept[n \in 0..Len(darts)] ==
        IF n = 0 THEN <<>>
        ELSE IF /\ Len(kept[n - 1]) < count
                /\ \A i \in DOMAIN kept[n - 1] :
                     TorusDist2(darts[n], kept[n - 1][i], tile) >= dist * dist
             THEN Append(kept[n - 1], darts[n])
             ELSE kept[n - 1]
  IN kept[Len(darts)]

PoissonValid(dist, tile) == 2 * dist <= tile

\* Mutant: a phase of more than a period is not reduced.
PlacePathUnreduced(closure, spacing, phase) ==
  LET n     == SnapCount(closure, spacing)
      start == n * phase
  IN {s \in {start + k * closure : k \in 0..n} : s < n * closure}

\* path_following: arc positions on a lane of this closure length, in units
\* of 1 / SnapCount, so that the snapped step is the closure itself.
PlacePath(closure, spacing, phase) ==
  LET n     == SnapCount(closure, spacing)
      start == n * (phase % closure)
  IN {s \in {start + k * closure : k \in 0..n} : s < n * closure}

\* The point of a straight lane at arc length h * t, and offset h * o.
PointAt(slope, o, t, tile) ==
  <<(t * slope[2] - o * slope[1]) % tile, (t * slope[1] + o * slope[2]) % tile>>

-----------------------------------------------------------------------------
\* primitives/stripe.py: the lines drawn for one band, in units of 1 / (2h)

BandCenter(band, slope) == slope[3] * (2 * band.offset + band.width)

Projections(slope, tile) ==
  {0, -2 * slope[1] * tile, 2 * slope[2] * tile, 2 * (slope[2] - slope[1]) * tile}

\* Mutant: the last line is rounded down.
BandLinesShort(band, period, slope, tile) ==
  LET step == 2 * slope[3] * period
      c    == BandCenter(band, slope)
      lo   == CHOOSE t \in Projections(slope, tile) :
                \A u \in Projections(slope, tile) : t <= u
      hi   == CHOOSE t \in Projections(slope, tile) :
                \A u \in Projections(slope, tile) : t >= u
  IN {c + k * step : k \in ((lo - c) \div step)..((hi - c) \div step)}

BandLines(band, period, slope, tile) ==
  LET step == 2 * slope[3] * period
      c    == BandCenter(band, slope)
      lo   == CHOOSE t \in Projections(slope, tile) :
                \A u \in Projections(slope, tile) : t <= u
      hi   == CHOOSE t \in Projections(slope, tile) :
                \A u \in Projections(slope, tile) : t >= u
  IN {c + k * step : k \in ((lo - c) \div step)..CeilDiv(hi - c, step)}
=============================================================================
