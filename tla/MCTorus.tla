------------------------------- MODULE MCTorus -------------------------------
(* Small arguments for the operators of Torus: whole millimetres, a tile of *)
(* 6 or 10, every motif and cell up to half of it and a few beyond; and     *)
(* pictures of a few pixels for those of Fabric.                            *)
EXTENDS TorusCalls, TLC

MCTiles == {6, 10}
MCLengths == 1..5 \cup {7}
MCPhases == -3..9
MCBandOffsets == {-3, 0, 2}
MCSlopes == {<<0, 1, 1>>, <<1, 0, 1>>, <<3, 4, 5>>, <<-4, 3, 5>>, <<5, 12, 13>>}
MCRises == {<<a, b>> \in (-18..18) \X (0..18) : <<a, b>> # <<0, 0>> /\ a % 2 = b % 3}
               \cup {<<1, 40>>, <<-40, 1>>, <<1, 30>>, <<33, 35>>}

-----------------------------------------------------------------------------
Block(side, x, y, w, h) ==
  {<<(x + i) % side, (y + j) % side>> : i \in 0..w - 1, j \in 0..h - 1}

\* Blocks anywhere on the tile, across its edges too, alone and in pairs; 72 dpi
\* gives the narrowest yarns, 120 dpi yarns of three pixels.
MCMasks ==
  {[side |-> n, dpi |-> dpi, mask |-> Block(n, x, y, w, h)] :
     n \in {7}, dpi \in {72, 120}, x \in {0, 2, 5}, y \in 0..6, w \in {3, 5, 7}, h \in {4, 6, 7}}
    \cup {[side |-> 6, dpi |-> 72, mask |-> Block(6, x, y, 4, 4) \cup Block(6, y, x, 1, 5)] :
             x \in {1, 4}, y \in 0..5}

MCSide == 7
MCSlots == {"a", "b", "c"}
GroundOf(slot) == [type |-> "background", paint |-> slot :> Pixels(MCSide)]
BandOf(slot)   == [type |-> "stripe", paint |-> slot :> Block(MCSide, 1, 0, 2, 7)]
MotifAt(x, y, slot) == [type |-> "motif", paint |-> slot :> Block(MCSide, x, y, 6, 5)]
TwoColors(x, y) ==
  [type |-> "motif",
   paint |-> "b" :> Block(MCSide, x, y, 5, 4) @@ "c" :> Block(MCSide, x, y + 4, 4, 3)]

MCDesigns ==
  {<<GroundOf("a"), m>> : m \in {MotifAt(3, 3, "b"), MotifAt(2, 5, "a"), TwoColors(2, 1)}}
    \cup {<<GroundOf("a"), BandOf("b"), MotifAt(x, 4, "c"), MotifAt(0, y, "b")>> :
             x \in {0, 4}, y \in {1, 5}}
    \cup {<<MotifAt(2, 2, "c"), GroundOf("a"), BandOf("c"), TwoColors(5, 0)>>,
           <<GroundOf("a"), BandOf("b")>>,
           <<[type |-> "motif", paint |-> "b" :> Pixels(MCSide)]>>}

Request(method, weave, map, relief) ==
  [method |-> method, weave |-> weave, map |-> map, relief |-> relief,
   colorway |-> "default", dpi |-> 72, strength |-> 2]
Usual == Request("yarn_dyed", "solid", "b" :> "twill-0", 1)
MCClothRequests ==
  {Request("yarn_dyed", w, m, r) :
     w \in {"solid", "twill-0"}, r \in {0, 1},
     m \in {<<>>, "b" :> "herringbone", "a" :> "twill-45" @@ "c" :> "solid"}}
    \cup {Request("print", w, m, 1) : w \in {"solid", "twill-45"}, m \in {<<>>, "a" :> "solid"}}
    \cup {Request("knitted", "solid", <<>>, 1), Request("yarn_dyed", "lace", <<>>, 1),
           Request("yarn_dyed", "solid", "d" :> "solid", 1),
           Request("yarn_dyed", "solid", "a" :> "lace", 1), Request("yarn_dyed", "solid", <<>>, -1),
           [Usual EXCEPT !.dpi = 0], [Usual EXCEPT !.dpi = 120], [Usual EXCEPT !.dpi = 601],
           [Usual EXCEPT !.strength = -1], [Usual EXCEPT !.colorway = "other"]}
=============================================================================
