------------------------------ MODULE MCLayouts ------------------------------
(* Intents on a tile of 24 mm in units of 0.01 mm: a ground, a stripe and a *)
(* motif, with one part at a time taken through its cases.                  *)
EXTENDS Layouts

MCColorSlots == [dot |-> {"s0"}, rose |-> {"s0", "s1"}]
MCAllowedDpi == {150, 300, 600}
MCMaxCover   == <<3, 4>>

Flat  == <<0, 1, 1>>
Steep == <<4, 3, 5>>

Band(offset, width, color) == [offset |-> offset, width |-> width, color |-> color]
Ground(id, z, opaque) ==
  [type |-> "background", id |-> id, z |-> z, opaque |-> opaque, color |-> "a"]
Stripe(id, z, opaque, slope, period, bands) ==
  [type |-> "stripe", id |-> id, z |-> z, opaque |-> opaque, slope |-> slope,
   period |-> period, bands |-> bands]
Motif(motif, size, binding, placement) ==
  [type |-> "motif", id |-> 7, z |-> 5, opaque |-> TRUE, motif |-> motif, size |-> size,
   binding |-> binding, placement |-> placement]

Place(type) ==
  [type |-> type, host |-> NoId, lane |-> None, path |-> None, spacing |-> NoLength,
   lattice |-> None, scatter |-> None, points |-> None]
OnHost(host, lane) ==
  [Place("path_following") EXCEPT !.host = host, !.lane = lane, !.spacing = 600]
Path(kind, wavelength, amplitude) ==
  [kind |-> kind, slope |-> Flat, wavelength |-> wavelength, amplitude |-> amplitude]
OnPath(path) == [Place("path_following") EXCEPT !.path = path, !.spacing = 500]
Lattice(cw, ch, drop) ==
  [Place("lattice") EXCEPT
     !.lattice = [cw |-> cw, ch |-> ch, drop |-> drop, axis |-> "column"]]
Scatter(mode, dist, n, step) ==
  [Place("scatter") EXCEPT
     !.scatter = [mode |-> mode, minDist |-> dist, n |-> n, step |-> step]]
Points(points) == [Place("point_set") EXCEPT !.points = points]

Default == [id |-> "default", mapping |-> [a |-> "white", b |-> "navy"]]
Same    == [id |-> "same", mapping |-> [a |-> "navy", b |-> "navy"]]
Short   == [id |-> "short", mapping |-> [a |-> "white"]]

Intent(layers) ==
  [tile |-> 2400, dpi |-> 300, method |-> "print", maxColors |-> 1,
   slots |-> <<"a", "b">>, colorways |-> <<Default, Same>>, layers |-> layers]

OneBand   == <<Band(0, 200, "b")>>
TwoBands  == <<Band(0, 150, "a"), Band(300, 100, "b")>>
Plain     == Stripe(4, 2, TRUE, Flat, 600, TwoBands)
Dot(p)    == Motif("dot", 400, [s0 |-> "b"], p)
Tidy      == Intent(<<Ground(3, 1, TRUE), Plain, Dot(OnHost(4, <<0, "center">>))>>)

\* canvas, production, palette
Framed ==
  {[Tidy EXCEPT !.dpi = d] : d \in {72, 225, 600}}
    \cup {[Tidy EXCEPT !.method = "yarn_dyed", !.maxColors = n] : n \in {1, 2}}
    \cup {[Tidy EXCEPT !.tile = t] : t \in {1200, 100000}}
    \cup {[Tidy EXCEPT !.slots = s] : s \in {<<>>, <<"a">>, <<"a", "a">>, <<"a", "b", "c">>}}
    \cup {[Tidy EXCEPT !.colorways = c] :
            c \in {<<Same>>, <<Default, Default>>, <<Default, Short>>}}

BandSets == {
  OneBand, TwoBands, <<>>,
  <<Band(-50, 590, "a")>>,
  <<Band(100, 301, "a"), Band(300, 299, "b")>>,
  <<Band(0, 7, "a"), Band(7, 580, "b"), Band(590, 3, "a")>>,
  <<Band(0, 199, "a"), Band(200, 200, "b"), Band(401, 200, "c")>>,
  <<Band(0, 200, "a"), Band(200, 200, "b"), Band(400, 200, "a")>> }
Stripes == {Stripe(id, z, opaque, slope, period, bands) :
              id \in {2, 4}, z \in {0, 1, 2}, opaque \in BOOLEAN, slope \in {Flat, Steep},
              period \in {19, 240, 480, 550, 600, 1000}, bands \in BandSets}
Striped ==
  {Intent(<<Ground(3, 1, TRUE), s>>) : s \in Stripes}
    \cup {Intent(<<Ground(3, 1, FALSE), Ground(5, 0, o), s>>) :
            o \in BOOLEAN, s \in {t \in Stripes : t.id = 4 /\ t.period = 600}}
    \cup {[Intent(<<Stripe(4, 2, TRUE, Flat, 50, OneBand)>>) EXCEPT !.tile = t] : t \in {99, 101}}

Lanes1 == BareLanes \cup ({0, 1, 2} \X {"start", "end"}) \cup {None}
Paths == {Path("straight", NoLength, NoLength)}
           \cup {Path("wave", w, a) : w \in {NoLength, 800, 700}, a \in {NoLength, 0, 90}}
Placements ==
  {None} \cup {OnHost(h, l) : h \in {NoId, 3, 4, 7, 9}, l \in Lanes1}
    \cup {OnPath(p) : p \in Paths}
    \cup {[OnHost(4, <<0, "start">>) EXCEPT !.path = p] : p \in Paths}
    \cup {[OnHost(4, <<0, "start">>) EXCEPT !.spacing = s] : s \in {NoLength, 70, 2400}}
    \cup {Lattice(w, h, d) : w \in {600, 700, 400}, h \in {600, 800, 1000, 20},
                             d \in {None, <<1, 2>>, <<1, 3>>, <<2, 3>>}}
    \cup {[Lattice(600, 800, None) EXCEPT !.host = h] : h \in {3, 7, 8, 9}}
    \cup {Scatter("poisson", d, NoLength, 1) : d \in {NoLength, 1200, 1201}}
    \cup {Scatter("sateen", NoLength, n, s) : n \in {NoLength, 6}, s \in {1, 2, 5}}
    \cup {Points(<< <<0, x>> >>) : x \in {0, 2399, 2400}}
    \cup {Place("lattice"), [Place("scatter") EXCEPT !.points = << <<0, 0>> >>]}
Other == [Motif("dot", 300, [s0 |-> "a"], Lattice(600, 600, None)) EXCEPT !.id = 8]
Placing ==
  {Intent(<<Ground(3, 1, TRUE), Stripe(4, 2, TRUE, Flat, 600, b), Dot(p), Other>>) :
     p \in Placements, b \in {OneBand, TwoBands,
                              <<Band(0, 90, "a"), Band(100, 90, "b"), Band(200, 90, "a")>>}}

Bound ==
  {Intent(<<Ground(3, 1, TRUE), Motif(m, size, b, Lattice(600, 800, None))>>) :
     m \in {"dot", "rose", "ghost"}, size \in {300, 2000, 2400, 2401},
     b \in {[s0 |-> "a"], [s0 |-> "c"], [s0 |-> "a", s1 |-> "b"]}}
    \cup {Intent(<<Ground(4, 1, TRUE), Plain>>)}

MCRawIntents == Framed \cup Striped \cup Placing \cup Bound
=============================================================================
