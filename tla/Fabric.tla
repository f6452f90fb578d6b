-------------------------------- MODULE Fabric --------------------------------
(***************************************************************************)
(* The cloth of an accepted design (src/app/render/fabric.py): the design  *)
(* is multiplied with the photograph of a weave, and in a yarn-dyed one    *)
(* the motifs are laid in again as diagonal yarns, and what borders on     *)
(* another color is embossed.                                              *)
(*                                                                         *)
(* A picture has side by side pixels, a pixel is <<x, y>>.  A design has a *)
(* layer at each of its places in the drawing order, each [type, paint]:   *)
(* paint maps the slots of the layer to the pixels it paints with them.  A *)
(* pixel of the cloth is [slot, weave, yarn, faces]: whose color, in which *)
(* weave, whether it is a motif's yarn, and which shadings lie on it.      *)
(* Colors, the photographs, their strength, and pixels painted in part are *)
(* left out.                                                               *)
(***************************************************************************)
EXTENDS Torus

CONSTANTS
  Weaves,       \* available_weaves()
  Twills,       \* those that start with "twill"
  MotifWeave,   \* MOTIF_WEAVE
  FabricDpi, MaxDpi   \* Settings.fabric_dpi, max_dpi

ASSUME WeavesAssumption == Twills \subseteq Weaves
ASSUME DpiAssumption == FabricDpi \in Nat \ {0} /\ MaxDpi \in Nat \ {0}

NoSlot == "no slot"

Pixels(side) == (0..side - 1) \X (0..side - 1)

\* ImageChops.offset: the pixel that comes to p when the picture is moved by d
\* to the right and down, around the edges.
Offset(p, d, side) == <<(p[1] - d) % side, (p[2] - d) % side>>

\* round(um / 1000 mm at this resolution), at least one pixel
Thin(um, dpi) == Larger(1, RoundDiv(um * dpi, 25400))

-----------------------------------------------------------------------------
\* Yarns.  A strand is a run of pixels along x + y = c, from x to x.

\* target = max(2.0, MOTIF_THREAD_PERIOD_MM * dpi / 25.4) pixels
StrandCount(side, dpi) ==
  Larger(1, IF 7 * dpi <= 508 THEN RoundDiv(side, 2) ELSE RoundDiv(side * 254, 7 * dpi))

\* Mutant: the spacing is the target, whatever the tile.
ThreadPeriodTarget(side, dpi) ==
  IF 7 * dpi <= 508 THEN <<2, 1>> ELSE <<7 * dpi, 254>>

\* step, a fraction of the side
ThreadPeriod(side, dpi) == <<side, StrandCount(side, dpi)>>

ThreadWidth(side, dpi) ==
  LET step == ThreadPeriod(side, dpi)
  IN Larger(1, Smaller(CeilDiv(step[1], step[2]) - 1, RoundDiv(82 * step[1], 100 * step[2])))

\* ceil((width / 2) / sqrt(2)), at least 1
Inset(width) == CHOOSE i \in 1..width : 8 * i * i >= width * width
                                        /\ \A j \in 1..i - 1 : 8 * j * j < width * width

\* The lines that are scanned in the mask repeated three times each way.
Lines(side, dpi) ==
  LET step  == ThreadPeriod(side, dpi)
      phase == ThreadWidth(side, dpi) \div 2
      last  == CeilDiv((6 * side - 1 - phase) * step[2], step[1]) - 1
  IN {phase + (k * step[1]) \div step[2] : k \in 0..last}

Tiled(mask, side) == {p \in Pixels(3 * side) : <<p[1] % side, p[2] % side>> \in mask}

\* Each run of a line inside the mask, shortened at both ends, if enough is left.
Strands(mask, side, dpi) ==
  LET inset == Inset(ThreadWidth(side, dpi))
      tiled == Tiled(mask, side)
      on(c, x) == <<x, c - x>> \in tiled
      starts(c) == {x \in 0..3 * side - 1 : on(c, x) /\ ~on(c, x - 1)}
      end(c, a) == CHOOSE b \in a..3 * side - 1 :
                     ~on(c, b + 1) /\ \A x \in a..b : on(c, x)
  IN UNION {{[c |-> c, from |-> a + inset, to |-> end(c, a) - inset] :
               a \in {s \in starts(c) : end(c, s) - s >= 2 * inset}} :
            c \in Lines(side, dpi)}

\* A capsule: what is within half a width of the strand.
Covers(s, p, width) ==
  LET across == p[1] + p[2] - s.c
      along  == p[1] - p[2]
      first  == 2 * s.from - s.c
      last   == 2 * s.to - s.c
      over   == IF along < first THEN first - along
                ELSE IF along > last THEN along - last ELSE 0
  IN 2 * (across * across + over * over) <= width * width

\* The middle one of the nine.
ThreadMask(mask, side, dpi) ==
  LET strands == Strands(mask, side, dpi)
      width   == ThreadWidth(side, dpi)
  IN {p \in Pixels(side) :
        \E s \in strands : Covers(s, <<p[1] + side, p[2] + side>>, width)}

-----------------------------------------------------------------------------
\* The design, by layers

OnlyLayers(design, places) == [i \in places |-> design[i]]
MotifLayers(design) == OnlyLayers(design, {i \in DOMAIN design : design[i].type = "motif"})
WithoutMotifs(design) == OnlyLayers(design, {i \in DOMAIN design : design[i].type # "motif"})

SlotsOf(design) == UNION {DOMAIN design[i].paint : i \in DOMAIN design}

PaintingWith(layer, p) == {s \in DOMAIN layer.paint : p \in layer.paint[s]}
Painting(design, p) == {i \in DOMAIN design : PaintingWith(design[i], p) # {}}

Topmost(places) == CHOOSE i \in places : \A j \in places : j <= i
OneOf(slots) == CHOOSE s \in slots : TRUE

\* The slot of each pixel: that of the topmost layer which paints it.
Segment(design, side) ==
  [p \in Pixels(side) |->
     IF Painting(design, p) = {} THEN NoSlot
     ELSE OneOf(PaintingWith(design[Topmost(Painting(design, p))], p))]

MaskFor(seg, slot) == {p \in DOMAIN seg : seg[p] = slot}

\* The cloth in weave, but for the slots that are mapped to another.
Woven(seg, weave, map) ==
  [p \in DOMAIN seg |->
     [slot |-> seg[p], weave |-> IF seg[p] \in DOMAIN map THEN map[seg[p]] ELSE weave,
      yarn |-> FALSE, faces |-> {}]]

\* Light from the top left: what differs from its neighbor there is lit.
Shaded(cloth, lit, dark, kind) ==
  [p \in DOMAIN cloth |->
     [cloth[p] EXCEPT !.faces = @ \cup (IF p \in lit THEN {<<kind, "lit">>} ELSE {})
                                  \cup (IF p \in dark THEN {<<kind, "dark">>} ELSE {})]]

ThreadRelief(cloth, thread, side, dpi) ==
  LET d == Thin(40, dpi)
  IN Shaded(cloth, {p \in thread : Offset(p, d, side) \notin thread},
                   {p \in thread : Offset(p, -d, side) \notin thread}, "strand")

Rim(seg, d, side) == {p \in DOMAIN seg : seg[p] # seg[Offset(p, d, side)]}

Relief(cloth, seg, side, dpi) ==
  LET d == Thin(170, dpi)
  IN Shaded(cloth, Rim(seg, d, side), Rim(seg, -d, side), "rim")

\* The masks of the slots of the motifs: only what no other motif hides.
Threads(design, side, dpi) ==
  LET seg == Segment(MotifLayers(design), side)
  IN UNION {ThreadMask(MaskFor(seg, s), side, dpi) : s \in SlotsOf(MotifLayers(design))}

\* Mutant: the ground is taken as the design shows it, motifs and all.
GroundSeen(design) == design

Ground(design) == WithoutMotifs(design)

\* The ground with the yarns of the motifs laid over it.
Inlaid(cloth, design, side, r) ==
  LET ground == Ground(design)
      thread == Threads(design, side, r.dpi)
      seg    == Segment(design, side)
      woven  == Woven(Segment(ground, side), r.weave, r.map)
      laid   == [p \in DOMAIN seg |->
                   IF p \in thread
                   THEN [slot |-> seg[p], weave |-> MotifWeave, yarn |-> TRUE, faces |-> {}]
                   ELSE woven[p]]
  IN IF DOMAIN WithoutMotifs(design) = {} \/ SlotsOf(MotifLayers(design)) = {} THEN cloth
     ELSE IF r.relief > 0 THEN ThreadRelief(laid, thread, side, r.dpi)
     ELSE laid

-----------------------------------------------------------------------------
\* render_fabric.  A request is [method, weave, colorway, map, dpi, strength,
\* relief]; a dpi of 0 is none.

WithDpi(r) == [r EXCEPT !.dpi = IF @ = 0 THEN FabricDpi ELSE @]

Refused(r, slots, colorways) ==
  \/ r.method \notin {"print", "yarn_dyed"}
  \/ r.weave \notin Weaves \/ r.colorway \notin colorways
  \/ r.method = "print" /\ (r.weave \notin Twills \/ DOMAIN r.map # {})
  \/ ~(DOMAIN r.map \subseteq slots) \/ \E s \in DOMAIN r.map : r.map[s] \notin Weaves
  \/ r.dpi > MaxDpi
  \/ r.strength < 0 \/ r.relief < 0

RenderFabric(design, side, r) ==
  LET seg == Segment(design, side)
      out == Woven(seg, r.weave, r.map)
  IN IF r.method = "print" THEN out
     ELSE IF r.relief > 0 THEN Relief(Inlaid(out, design, side, r), seg, side, r.dpi)
     ELSE Inlaid(out, design, side, r)
=============================================================================
