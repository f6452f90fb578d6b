----------------------------- MODULE MCEditTurn -----------------------------
(* EditTurn for TLC: designs with a stripe and a motif that follows it,    *)
(* and the layers an edit may add.                                         *)
EXTENDS EditTurn, TLC

CONSTANTS a, b, plain, tinted

MCLayerIds == {a, b}

Layer(kind, motif, paint, host, z) ==
  [kind |-> kind, motif |-> motif, paint |-> paint, host |-> host,
   lane |-> "bare", dims |-> "one", many |-> FALSE, bold |-> FALSE, z |-> z,
   opaque |-> TRUE]

Ground == Layer("ground", NoMotif, "slot", NoHost, 0)
Stripe == Layer("stripe", NoMotif, "slot", NoHost, 1)
Drawn(m, paint, host) == Layer("motif", m, paint, host, 2)

Bold == [Stripe EXCEPT !.bold = TRUE]

\* Authoring leaves a motif layer to be decided under an id of the LLM's own,
\* nothing to decide, or a spec for a layer that is no motif.
MCDesigns ==
  {[intent |-> (a :> Stripe @@ b :> Drawn(tinted, "slot", a)),
    specs  |-> <<[layer |-> b, fresh |-> FALSE]>>],
   [intent |-> (a :> Bold @@ b :> Drawn(plain, "slot", NoHost)),
    specs  |-> <<>>],
   [intent |-> (b :> Drawn(plain, "slot", NoHost)),
    specs  |-> <<[layer |-> b, fresh |-> TRUE], [layer |-> b, fresh |-> FALSE]>>],
   [intent |-> (a :> Stripe),
    specs  |-> <<[layer |-> a, fresh |-> FALSE]>>]}

\* Among them a stripe with several bands for the motif that follows one, and
\* a background under a bold stripe.
MCProposals ==
  {Ground, [Stripe EXCEPT !.many = TRUE],
   Drawn(NoMotif, "stray", NoHost), Drawn(NoMotif, "slot", a),
   Drawn(tinted, "slots", NoHost), Drawn(tinted, "strays", NoHost)}
=============================================================================
