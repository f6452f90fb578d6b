------------------------------ MODULE EditTurn ------------------------------
(***************************************************************************)
(* What one session's turns do to the design: the author node, the edit    *)
(* tools (app/sessions/tools.py), and in app/sessions/graph.py the motif   *)
(* freeze of the resolve gate, the validate node with its retry, and the   *)
(* commit.                                                                 *)
(*                                                                         *)
(* An intent is a function from the ids of its layers to the layers.  Of a *)
(* layer we keep what these steps read and write: what it draws, which     *)
(* motif, whether its colours are slots of the palette, the stripe and the *)
(* lane it follows, its adjustable numbers (angle, period, size, spacing), *)
(* of which "bad" stands for values validate_intent snaps or rejects, and  *)
(* what the repairs of the other layers depend on: whether a stripe has    *)
(* several bands, and bold ones, its place in the order and its opacity.   *)
(* The colours themselves are left out, and so is rounding: a repaired     *)
(* layer stays repaired (what rounding does to it is in Layouts).          *)
(* Session-level settings, the lock, the budget and time travel are in     *)
(* Session; motifs that are deleted or lost again are in MotifRegistry.    *)
(*                                                                         *)
(* The loop of apply_tools is one step per tool call.  A node that raises, *)
(* or a process that dies in it, leaves the head where it was until a new  *)
(* turn is started, which NewTurn can do at any time; only the gate leaves *)
(* something behind, the decision it raised on.                            *)
(***************************************************************************)
EXTENDS Naturals, Sequences

CONSTANTS
  LayerIds,    \* ids the LLM may give to a layer
  Single,      \* motifs with the one colour slot s0
  Multi,       \* motifs with several colour slots
  Pool,        \* motifs registered at the start
  NoMotif, Pending, NoHost,
  Designs,     \* what authoring may return: an intent and its gated specs
  Proposals,   \* layers add_layer may be called with
  MaxTurns,    \* bound: turns started
  MaxTools     \* bound: tool calls applied in one edit pass

Motifs   == Single \cup Multi
MotifIds == Motifs \cup {Pending, NoMotif}

\* color: a palette slot, or not; colors: all palette slots, or not.
Paints == {"slot", "stray", "slots", "strays"}
Dims   == {"one", "other", "bad"}

\* lane: "bare" (start, center, end) or with the "band" it is of (b0.center).
\* bold: the bands cover more of the period than stripe_max_band_coverage.
Layers == [kind : {"ground", "stripe", "motif"}, motif : MotifIds,
           paint : Paints, host : LayerIds \cup {NoHost},
           lane : {"bare", "band"}, dims : Dims, many : BOOLEAN,
           bold : BOOLEAN, z : Nat, opaque : BOOLEAN]

NoIntent == [i \in {} |-> {}]
IsIntent(x) == \E ids \in SUBSET LayerIds : x \in [ids -> Layers]
Specs    == [layer : LayerIds, fresh : BOOLEAN]
Offers   == [spec : Specs, motifs : SUBSET Motifs]

ASSUME MotifsAssumption ==
  /\ Single \cap Multi = {}
  /\ Pool \subseteq Motifs
  /\ NoMotif \notin Motifs /\ Pending \notin Motifs /\ NoMotif # Pending
  /\ NoHost \notin LayerIds
ASSUME InputsAssumption ==
  /\ \A d \in Designs : IsIntent(d.intent) /\ d.specs \in Seq(Specs)
  /\ Proposals \subseteq Layers
ASSUME EditBoundsAssumption == MaxTurns \in Nat /\ MaxTools \in Nat

VARIABLES
  node,      \* the node the turn is at; "tools" is inside edit_intent
  current,   \* current_intent
  working,   \* working_intent
  specs,     \* pending_specs
  offers,    \* pending_candidates, with the spec they were looked up for
  errors, retried,
  out,       \* the ToolOutcome being built by apply_tools
  registry,  \* the motifs that are registered
  kept,      \* LangGraph keeps a "generate" the gate has raised on
  turns, tools,
  \* what really happened in this pass
  touched,   \* layers its tool calls named
  decided,   \* the motif the user last decided on for a layer at the gate
  overruled  \* and the one a kept "generate" has drawn in its place

pass == <<touched, decided, overruled>>
vars == <<node, current, working, specs, offers, errors, retried, out,
          registry, kept, turns, tools, pass>>

NoDecision == [i \in LayerIds |-> NoMotif]
NoOutcome  == [intent |-> NoIntent, specs |-> <<>>]

Init ==
  /\ node = "idle"
  /\ current = NoIntent /\ working = NoIntent
  /\ specs = <<>> /\ offers = <<>>
  /\ errors = FALSE /\ retried = FALSE
  /\ out = NoOutcome
  /\ registry = Pool
  /\ kept = FALSE
  /\ turns = 0 /\ tools = 0
  /\ touched = {} /\ decided = NoDecision /\ overruled = NoDecision

-----------------------------------------------------------------------------
(* Turns and authoring.                                                    *)

NewTurn ==
  /\ turns < MaxTurns
  /\ turns' = turns + 1
  /\ node' = IF current = NoIntent THEN "author" ELSE "edit"
  /\ out' = NoOutcome
  /\ kept' = FALSE
  /\ UNCHANGED <<current, working, specs, offers, errors, retried, registry,
                 tools, pass>>

\* _candidate_lists: nothing to reuse for a spec that forces a new motif, else
\* whatever the pool has that is similar.
CandidateLists(ss) ==
  {[k \in 1..Len(ss) |->
      [spec |-> ss[k], motifs |-> IF ss[k].fresh THEN {} ELSE similar[k]]] :
   similar \in [1..Len(ss) -> SUBSET registry]}

AuthorIntent ==
  /\ node = "author"
  /\ \E d \in Designs :
       /\ working' = d.intent
       /\ specs' = d.specs
       /\ offers' \in CandidateLists(d.specs)
  /\ errors' = FALSE /\ retried' = FALSE
  /\ touched' = {} /\ decided' = NoDecision /\ overruled' = NoDecision
  /\ node' = "gate"
  /\ UNCHANGED <<current, out, registry, kept, turns, tools>>

-----------------------------------------------------------------------------
(* edit_intent: apply_tools on the intent it starts from, one tool call at *)
(* a time; a call with arguments that do not fit is skipped.               *)

EditBaseFailed == IF errors THEN working ELSE current                 \* fault

\* "always re-applied to current_intent, never the failed one"
EditBase == current

EditBegin ==
  /\ node = "edit"
  /\ out' = [intent |-> EditBase, specs |-> <<>>]
  /\ touched' = {} /\ decided' = NoDecision /\ overruled' = NoDecision
  /\ tools' = 0
  /\ node' = "tools"
  /\ UNCHANGED <<current, working, specs, offers, errors, retried, registry,
                 kept, turns>>

ToolApplied(ids, intent, newSpecs) ==
  /\ node = "tools"
  /\ tools < MaxTools
  /\ tools' = tools + 1
  /\ out' = [intent |-> intent, specs |-> out.specs \o newSpecs]
  /\ touched' = touched \cup ids
  /\ UNCHANGED <<node, current, working, specs, offers, errors, retried,
                 registry, kept, turns, decided, overruled>>

\* _scale_motif, _set_stripe, _set_density: a stripe's bands stay as wide while
\* its period is changed, so they may cover more of it, or less.
AdjustLayer(i, dims, bold) ==
  /\ i \in DOMAIN out.intent
  /\ out.intent[i].kind = "stripe" \/ (out.intent[i].kind = "motif" /\ ~bold)
  /\ ToolApplied(
       {i}, [out.intent EXCEPT ![i].dims = dims, ![i].bold = bold], <<>>)

\* _remove_layer
RemoveLayer(i) ==
  /\ i \in DOMAIN out.intent
  /\ DOMAIN out.intent # {i}
  /\ ToolApplied({i}, [j \in DOMAIN out.intent \ {i} |-> out.intent[j]], <<>>)

\* _add_layer.  A motif layer without a motif is parked on the sentinel, with
\* one colour, and leaves a spec for the gate.  The facets the LLM gives are
\* merged over the spec: a layer_id among them (to) replaces the new layer's.
\* Where the layer lies is the LLM's choice, or on top.
AddLayer(i, layer, to, fresh) ==
  /\ i \notin DOMAIN out.intent
  /\ LET parked == layer.kind = "motif" /\ layer.motif = NoMotif
         added  == IF parked THEN [layer EXCEPT !.motif = Pending] ELSE layer
     IN  /\ parked => layer.paint \in {"slot", "stray"}
         /\ ~parked => to = i /\ ~fresh
         /\ ToolApplied(
              {i, to},
              [j \in DOMAIN out.intent \cup {i} |->
                 IF j = i THEN added ELSE out.intent[j]],
              IF parked THEN <<[layer |-> to, fresh |-> fresh]>> ELSE <<>>)

\* _swap_motif: a spec for the gate; the layer keeps its motif for now.
SwapMotif(i, fresh) ==
  /\ i \in DOMAIN out.intent
  /\ out.intent[i].kind = "motif"
  /\ ToolApplied({i}, out.intent, <<[layer |-> i, fresh |-> fresh]>>)

EditEnd ==
  /\ node = "tools"
  /\ working' = out.intent
  /\ specs' = out.specs
  /\ offers' \in CandidateLists(out.specs)
  /\ errors' = FALSE
  /\ retried' = errors
  /\ out' = NoOutcome
  /\ node' = "gate"
  /\ UNCHANGED <<current, registry, kept, turns, tools, pass>>

-----------------------------------------------------------------------------
(* resolve_gate                                                            *)

\* How the freeze rebinds a layer's colours to motif m: one slot, keeping the
\* colour when it is a palette slot, or one per colour slot, keeping the
\* colours the layer has for them (stray ones too).
FrozenPaints(paint, m) ==
  IF m \in Single THEN {"slot"}
  ELSE {"slots"} \cup ({paint} \cap {"strays"})

FreezePendingOnly(intent, i, m) ==                                    \* fault
  IF i \notin DOMAIN intent \/ intent[i].motif # Pending THEN {intent}
  ELSE {[intent EXCEPT ![i].motif = m, ![i].paint = p] :
          p \in FrozenPaints(intent[i].paint, m)}

\* _freeze_motif: nothing when the layer is gone; it does not look at what kind
\* of layer it finds.
Freeze(intent, i, m) ==
  IF i \notin DOMAIN intent THEN {intent}
  ELSE {[intent EXCEPT ![i].motif = m, ![i].paint = p] :
          p \in FrozenPaints(intent[i].paint, m)}

GatePass ==
  /\ node = "gate"
  /\ specs = <<>>
  /\ node' = "validate"
  /\ UNCHANGED <<current, working, specs, offers, errors, retried, out,
                 registry, kept, turns, tools, pass>>

OffersLeftUnsliced == offers                                          \* fault

OffersLeft == Tail(offers)

\* The user has sent one decision for the first spec and m is frozen; the gate
\* goes on to the next one.
Resolve(sent, m) ==
  /\ node = "gate" /\ specs # <<>>
  /\ LET i == Head(specs).layer
     IN  /\ working' \in Freeze(working, i, m)
         /\ decided' = [decided EXCEPT ![i] = sent]
         /\ overruled' =
              [overruled EXCEPT ![i] = IF m = sent THEN NoMotif ELSE m]
  /\ specs' = Tail(specs)
  /\ offers' = OffersLeft
  /\ kept' = FALSE
  /\ node' = IF Tail(specs) = <<>> THEN "validate" ELSE "gate"
  /\ UNCHANGED <<current, errors, retried, out, turns, tools, touched>>

\* select-motif takes one of the motifs offered (select_motif, routes).
GateSelected(m) ==
  /\ ~kept
  /\ Resolve(m, m)
  /\ m \in Head(offers).motifs
  /\ UNCHANGED registry

\* confirm: Recraft draws a motif and it is registered.
GateGenerated(m) ==
  /\ Resolve(m, m)
  /\ registry' = registry \cup {m}

\* "generate" fails: the embedding or Recraft is down, or the motif is
\* unsuitable.  The run ends, and the decision stays with the interrupt.
GateRaises ==
  /\ node = "gate" /\ specs # <<>>
  /\ kept' = TRUE
  /\ UNCHANGED <<node, current, working, specs, offers, errors, retried, out,
                 registry, turns, tools, pass>>

\* A select sent after that: interrupt() returns the decision that was kept, so
\* that a motif is generated, and frozen, and the one sent is not.
GateReplayed(sent, m) ==
  /\ kept
  /\ Resolve(sent, m)
  /\ sent \in Head(offers).motifs
  /\ registry' = registry \cup {m}

-----------------------------------------------------------------------------
(* validate and commit                                                     *)

\* The repairs of validate_intent, which look at every layer: a stripe whose
\* period does not tile is snapped to one that does (near), its bands with it;
\* a bare lane of a stripe with several bands becomes the one of its first; and
\* the bands of an opaque stripe over an opaque background are narrowed until
\* that shows between them.
LaneUnclear(intent, i) ==
  LET host == intent[i].host
  IN  /\ intent[i].kind = "motif" /\ intent[i].lane = "bare"
      /\ host \in DOMAIN intent
      /\ intent[host].kind = "stripe" /\ intent[host].many

Covers(intent, i, g) ==
  /\ intent[i].kind = "stripe" /\ intent[i].opaque
  /\ intent[g].kind = "ground" /\ intent[g].opaque
  /\ intent[g].z < intent[i].z

GroundHidden(intent, i) ==
  intent[i].bold /\ \E g \in DOMAIN intent : Covers(intent, i, g)

Repairs(intent) ==
  {[i \in DOMAIN intent |->
      [intent[i] EXCEPT
         !.dims = IF intent[i].kind = "stripe" /\ @ = "bad" THEN near[i] ELSE @,
         !.lane = IF LaneUnclear(intent, i) THEN "band" ELSE @,
         !.bold = IF GroundHidden(intent, i) THEN FALSE ELSE @]] :
   near \in [DOMAIN intent -> {"one", "other"}]}

\* What validate_intent asks of a layer.  A motif that is not registered is
\* left to compose, and so is the lane of a band the host has not got.
LayerValid(intent, i) ==
  LET l == intent[i]
  IN  /\ l.kind = "motif" => l.dims # "bad"
      /\ l.paint \in {"slot", "slots"}
      /\ l.kind # "motif" => l.motif = NoMotif
      /\ l.kind = "motif" /\ l.motif \in registry =>
           (l.motif \in Multi => l.paint = "slots")
      /\ l.host # NoHost =>
           /\ l.host # i
           /\ l.host \in DOMAIN intent
           /\ intent[l.host].kind = "stripe"

Valid(intent) ==
  /\ intent # NoIntent
  /\ \A i \in DOMAIN intent : LayerValid(intent, i)

ValidateOK ==
  /\ node = "validate"
  /\ Valid(working)
  /\ working' \in Repairs(working)
  /\ errors' = FALSE
  /\ node' = "commit"
  /\ UNCHANGED <<current, specs, offers, retried, out, registry, kept,
                 turns, tools, pass>>

\* One retry of an edit, then the turn ends with the errors.
ValidateFails ==
  /\ node = "validate"
  /\ ~Valid(working)
  /\ errors' = TRUE
  /\ node' = IF current # NoIntent /\ ~retried THEN "edit" ELSE "idle"
  /\ UNCHANGED <<current, working, specs, offers, retried, out, registry,
                 kept, turns, tools, pass>>

\* compose looks up every motif and every lane; when it fails for every
\* candidate, commit raises.  A lane that is not there does not make it fail for
\* every one: a variant may have more bands.
ComposesUnlessPending(intent) ==                                      \* fault
  \A i \in DOMAIN intent : intent[i].motif # Pending

Composes(intent) ==
  \A i \in DOMAIN intent :
    intent[i].kind = "motif" => intent[i].motif \in registry

Commit ==
  /\ node = "commit"
  /\ Composes(working)
  /\ current' = working
  /\ working' = NoIntent
  /\ specs' = <<>>
  /\ errors' = FALSE /\ retried' = FALSE
  /\ node' = "idle"
  /\ UNCHANGED <<offers, out, registry, kept, turns, tools, pass>>

-----------------------------------------------------------------------------
Tool ==
  \/ \E i \in LayerIds, dims \in Dims, bold \in BOOLEAN :
       AdjustLayer(i, dims, bold)
  \/ \E i \in LayerIds : RemoveLayer(i)
  \/ \E i, to \in LayerIds, layer \in Proposals, fresh \in BOOLEAN :
       AddLayer(i, layer, to, fresh)
  \/ \E i \in LayerIds, fresh \in BOOLEAN : SwapMotif(i, fresh)

Next ==
  \/ NewTurn
  \/ AuthorIntent
  \/ EditBegin \/ Tool \/ EditEnd
  \/ GatePass
  \/ \E m \in Motifs : GateSelected(m) \/ GateGenerated(m)
  \/ \E sent, m \in Motifs : GateReplayed(sent, m)
  \/ GateRaises
  \/ ValidateOK \/ ValidateFails
  \/ Commit

Spec == Init /\ [][Next]_vars

-----------------------------------------------------------------------------
(* Correctness.                                                            *)

\* Every variable has its type.
TypeOK ==
  /\ node \in {"idle", "author", "edit", "tools", "gate", "validate", "commit"}
  /\ IsIntent(current) /\ IsIntent(working)
  /\ specs \in Seq(Specs) /\ offers \in Seq(Offers)
  /\ errors \in BOOLEAN /\ retried \in BOOLEAN
  /\ IsIntent(out.intent) /\ out.specs \in Seq(Specs)
  /\ registry \subseteq Motifs
  /\ kept \in BOOLEAN
  /\ turns \in Nat /\ tools \in Nat
  /\ touched \subseteq LayerIds
  /\ decided \in [LayerIds -> MotifIds]
  /\ overruled \in [LayerIds -> MotifIds]

\* What the gate offers was looked up for the spec it is about to decide, over
\* as many gates as the turn needs, turns that were given up in between and
\* edits that were tried again (resolve_gate slices the two lists).
OfferMatchesSpec ==
  /\ Len(offers) = Len(specs)
  /\ \A k \in 1..Len(specs) : offers[k].spec = specs[k]

\* A committed design passes validation, needs no repair, and every motif in it
\* is registered, although validate tolerates unknown motifs and layers carry
\* the sentinel meanwhile (commit).  Motifs are only ever registered here.
CommittedIsSound ==
  current # NoIntent =>
    /\ Valid(current)
    /\ \A i \in DOMAIN current :
         /\ current[i].kind = "stripe" => current[i].dims # "bad"
         /\ ~LaneUnclear(current, i) /\ ~GroundHidden(current, i)
         /\ current[i].kind = "motif" => current[i].motif \in registry

\* What may become of layer i of the design in an edit that does not name it:
\* its lane gets a band when its host was named, its bands are narrowed when a
\* background was named that lies below it, and nothing else.
Bystander(intent, i) ==
  /\ i \in DOMAIN current <=> i \in DOMAIN intent
  /\ i \in DOMAIN current =>
       LET old == current[i]
           new == intent[i]
       IN  /\ new = [old EXCEPT !.lane = new.lane, !.bold = new.bold]
           /\ new.lane # old.lane => new.lane = "band" /\ old.host \in touched
           /\ new.bold # old.bold =>
                /\ old.bold
                /\ \E g \in touched \cap DOMAIN intent : Covers(intent, i, g)

\* A committed edit changes the layers its tool calls named and, where a repair
\* makes them fit those, the lane or the bands of a layer that was not; no trace
\* is left of a pass that failed validation, of an earlier turn that was given
\* up, or of a gate decision about another layer (edit_intent, validate_intent).
EditIsDelta ==
  [][current' # current /\ current # NoIntent =>
       \A i \in LayerIds \ touched : Bystander(current', i)]_vars

\* A committed layer has the motif the user last decided on for it, with several
\* gates for one layer the last one; or, where an approval that had failed was
\* replayed in place of that decision, the motif drawn for the approval
\* (resolve_gate, _freeze_motif).
LastDecisionWins ==
  [][current' # current =>
       \A i \in DOMAIN current' :
         decided[i] # NoMotif =>
           \/ current'[i].motif = decided[i] /\ overruled[i] = NoMotif
           \/ current'[i].motif = overruled[i]]_vars
=============================================================================
