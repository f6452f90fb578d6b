# Verification of the seamless-tile service

TLA+ models of the seamless-tile service, the TLC configurations that check
them on small instances, and TLAPS proofs of what matters most for every
value of their constants.  Source paths below are relative to `src/`, the
repository.

## 1. The system

The service turns a prompt, or a ready intent, into candidates for a seamless
SVG tile.  A *session* is a conversation about one design: a LangGraph thread
that authors an intent, edits it with a closed set of tools, asks the user
before it spends money on a drawn motif, and commits one frozen intent per
turn.  Everything below a committed intent is a deterministic engine.

| Component | State it keeps | Operations | Hard behaviour |
|---|---|---|---|
| Session graph and routes (`app/sessions/graph.py`, `state.py`, `app/api/routes/{generate,sessions,finalize}.py`) | the thread's checkpoints: `SessionState`, the next node, the gate's interrupt and its cached decision | a turn (`POST /generate` with a session, optionally a fork), `select-motif`, `confirm` (generate, finalize), list/restore | routes await previews and renders between reading and writing the head; a node that raises leaves the head behind; time travel; crash between two checkpoints |
| Cost guard (`app/sessions/budget.py`) | `_INFLIGHT`, per-session locks; counters in the state | enter/leave, `budget_exceeded`, `increment_budget` | refuse the second of two requests; a counter that moves after the thing it counts |
| Edit tools and motif freeze (`app/sessions/tools.py`, `_freeze_motif`) | working intent, pending specs and their candidate lists | eleven tools, the gate's freeze, the retry | specs that outlive their layer, parallel lists, a sentinel id in the design |
| Stateless generation (`app/api/routes/generate.py`, `app/adapters/embedding.py`) | an LRU response cache, an LRU embedding cache filled by worker threads | `POST /generate` without a session | concurrent first misses, a cache key computed before the pool changes, an unlocked `OrderedDict` |
| Motif registry and store (`app/motifs/`) | `MOTIFS`, the store's rows, the pool epoch | register, lazy load, hydrate, delete | write-through that may fail, caches that outlive a delete |
| Registry fingerprint (`app/adapters/registry_fingerprint.py`) | a memo per (store, epoch) | `registry_version_for` | unlocked memo read by several threads |
| Motif resolver (`app/adapters/motif_resolver.py`) | none of its own; it reads the store and fills it | `resolve_motifs`, `present_candidates` | a ladder of queries that may each fail; partial success: a dropped layer drops the layers it hosts |
| Adapters (`app/adapters/{recraft,llm,edit_llm,embedding,image}.py`) | spec, vectorize and intent caches | one call with one re-prompt each | paid calls that fail late |
| Candidate search (`app/engine/candidates.py`) | none | layout variants, selection per design, merge of the designs | variants that fail are dropped, not raised; thinning in several steps |
| Tile engine (`app/engine/`) | none | snapped angles, stripes, lanes, lattices, scatters, torus clones, compose | arithmetic on the torus with tolerances |
| Validation (`app/validate/`) | none | `validate_intent` with its repairs, the guard behind it, the seam metric | repairs that come after checks; what it tolerates and leaves to compose |
| Rendering and previews (`app/render/`, `app/storage/`) | none | the cloth of a design: weaves, yarns, relief; rasterize, upload | yarns whose spacing has to divide the tile |
| Service shell | none that matters | settings, log, export, palettes | best-effort uploads |

**Interactions.** A session route enters the in-flight lock, hands `graph.invoke` to a
worker thread, awaits the previews, writes them back with `update_state`, and leaves the
lock.  The graph calls the LLM (author, edit), the store (candidates for the gate), Recraft
(to generate, after a confirm; to vectorize uploaded images, from the author node without
one) and the engine (commit).  The cost guard is checked by the route *before* it resumes
the graph; the counter moves in the node, or after the render.  Without a session a request
is stamped with the motif pool, looked up in the response cache, authored, resolved (which
may make motifs and so change the pool), and composed: each design is validated, repaired,
varied in its layout, validated again and drawn in each colorway, and the drawings of all
designs are thinned to one set.  A finalize renders the chosen one as cloth.  A process
crash loses the lock, the handlers and an interrupt's fresh decision, and none of the
checkpoints (Postgres saver).

**What makes it correct.**  One operation at a time per session.  The counters
are an exact account, on whatever branch of the history, and never pass their
ceilings.  The candidates shown, and finalized, are those of the committed
intent.  The undo list is the list of commits.  A failed edit is retried once,
from the committed design.  An edit changes what its tool calls named, and of the
other layers only what has to fit what was named; the last decision of the user
counts, unless an approval that failed is replayed in its place; and what is committed
can be drawn.  A version of the motif pool is never behind the pool, and a motif id that was
handed out can be drawn.  A layer gets a motif of the scope it asked for, and what is
left after failures can be composed.  A cached response is the whole answer to an
equal request under an equal fingerprint, and a motif of that fingerprint is not shown
from the cache once it is deleted.  What validation lets through tiles, whatever layout
is made from it, and what tiles is drawn without a seam.  Of what could be drawn the
request gets as many different candidates as it asked for.  Every operation ends.

## 2. The modules

### SpendGate: what the cost gate promises

`spent` (recorded generations), `approved` (an approval is outstanding), `committed` (the
session has a design), `calls` (generations asked of Recraft) and `uploads` (images it was
asked to vectorize).  `Grant` needs a free place under `Limit`; `Call` and `Record` need an
approval; an approval that came to nothing may be withdrawn (`Withdraw`).  `Upload` needs no
approval, only that no design is committed yet; `Commit` is for good.  The abstract
specification is independent of graph, lock, checkpoints and crashes.

### Session: one session, its routes and its graph

One session, since sessions share nothing that is modelled.

| Variables | In the code |
|---|---|
| `st` | the head's `SessionState`: committed intent, candidates, `render_batch`, pending specs, `validate_errors`, `edit_retried`, the two budget counters, and `side` |
| `next`, `task` | the head's next node; the gate task's interrupt, and the decision it raised on |
| `listed` | the checkpoints `list_turn_checkpoints` returns |
| `inflight` | the session is in `budget._INFLIGHT` |
| `pc`, `mem` | where each request's coroutine is, and what it holds across its awaits |
| `fired` | the running node (gate or author) has reached the Recraft API |
| `turn`, `passes`, `commits`, `calls`, `uploads`, `gens`, `renders`, `crashes` | what really happened, to state properties against |

Actions: `AcceptTurn`, `InvokeTurn`, `RefuseInput` (a turn up to and into
`graph.invoke`); `VectorizeImages`, `AuthorIntent`, `EditIntent`, `GatePass`, `GateAsk`,
`GateSelected`, `CallRecraft`, `GateGenerated`, `ValidateOK`, `ValidateRetry`,
`ValidateGiveUp`, `Commit` (the nodes); `NodeRaises`, `GateRaises` (their
failures); `PreviewsDone`; `SelectMotif`, `ConfirmGenerate`, `AcceptFinalize`,
`FabricRendered`, `FinalizeRaises`, `CountFinalize` (the other routes);
`Crash`.

Abstractions.  An intent is known by the number of its commit, and the
session-level settings (seed, colorway, material map) by the number of the turn
that last wrote one of them (`side`).  A pending spec is `reuse` or `new`
according to whether the gate can offer existing motifs.  `CallRecraft` stands
for one run of `generate_via_recraft` that reaches the API (one or two
requests), `VectorizeImages` for the calls that one pass of the author node makes for
uploaded images.  LangGraph and its savers are external; what is assumed of them is
what the code relies on: a superstep ends in a checkpoint, a node that raises
leaves the one it started from and keeps a decision it was resumed with beside
the interrupt, `update_state` makes a new head without pending writes.  Requests
that are refused change no state and are not actions.  The time a synchronous
resume occupies the event loop is not modelled; it could only forbid
interleavings.  A fork starts at a listed checkpoint, the only ids a client
learns.

### EditTurn: what turns do to the design

| Variables | In the code |
|---|---|
| `node` | the node a turn is at; `tools` is the loop of `apply_tools` |
| `current`, `working` | `current_intent`, `working_intent`: functions from layer ids to layers |
| `specs`, `offers` | `pending_specs`, `pending_candidates` (each offer with the spec it was looked up for) |
| `errors`, `retried` | `validate_errors`, `edit_retried` |
| `out` | the `ToolOutcome` under construction |
| `registry` | the motifs `get_motif` finds |
| `kept` | LangGraph keeps a "generate" the gate has raised on |
| `touched`, `decided`, `overruled` | layers named by the pass's tool calls; per layer, the motif the user last decided on, and the one that a kept "generate" has drawn in its place |

Actions: `NewTurn`, `AuthorIntent`, `EditBegin`, the tools (`AdjustLayer` for
`scale_motif`, `set_stripe` and `set_density`; `RemoveLayer`; `AddLayer`;
`SwapMotif`), `EditEnd`, `GatePass`, `GateSelected`, `GateGenerated`, `GateRaises`,
`GateReplayed`, `ValidateOK`, `ValidateFails`, `Commit`.  The loop over tool calls takes
one step per call; nobody else can see the difference, since a node runs alone.  A call
whose arguments do not fit changes nothing and is no step.  `set_palette_slot`,
the session-level tools and `regenerate` change no layer.  A node that raises, or
a crash, is `NewTurn` from wherever the head was left; only the gate leaves something
behind when it raises, the decision it raised on, and a select sent after that is
answered with it.

Of a layer we keep its kind (ground, stripe or motif), its motif, whether its colours are
slots of the palette, the stripe and the lane it follows, whether its numbers are good,
and what the repairs of *other* layers look at: whether a stripe has several bands, and
bands that cover too much, its place in the order and its opacity.  `Repairs` has the
three repairs of `validate_intent`: a stripe's numbers are snapped, a bare lane of a
stripe with several bands becomes the one of its first, and an opaque stripe over an
opaque background is narrowed until that shows.  The second and the third change layers
that no tool call named.  A motif's numbers are rejected, not snapped.  Validation
tolerates a motif that is not registered; `compose` does not.  Rounding is left to
`Layouts`, motifs that are deleted or lost in a restart to `MotifRegistry`; a lane of a
band the host has not got, and a colorway the intent does not define, are left out (the
second makes every commit raise, section 6).

`Session` and `EditTurn` are two views of the same graph: `Session` has the
processes, the money and the history, and leaves the design a number;
`EditTurn` has the design, and leaves the processes out.  Their node names and
their specs' order agree.

### MotifRegistry: the pool of motifs, its caches and its fingerprint

One process, served by threads that take no locks.  A step is what a thread does
between two calls, which is where CPython can switch.

| Code | Model |
|---|---|
| rows of the `motifs` table (`PostgresMotifStore`) | `store`, the last of `pools`, the contents the table has had |
| `MOTIFS`, `_registry_pool_epoch` | `motifs`, `epoch` |
| `recraft._motif_svg_cache`, `_vectorize_cache` | `frozen` on `SpecKeys`, `ImageKeys` |
| `registry_fingerprint._cache` | `memo` |
| a request's place in a function, and its locals | `pc`, `mem` |
| `generate_via_recraft`, `vectorize_via_recraft` | `ServeFrozen`, `Miss`, `Generated`, `Regenerate`, `GenerateRaises`, `Freeze` |
| `build_text_motif` | `TextKnown`, `TextNew` |
| `register_motif` | `Upsert` or `UpsertFails`, `Insert`, `Bump` |
| `get_motif`, `_lazy_load` | `LoadMotif`, `RowFound`, `UnknownMotif`, `KeepRow` |
| `delete_motif` | `DeleteRow`, `Evict`, `Flush`, `BumpDeleted` |
| `registry_version_for` | `ReadEpoch`, `CheckMemo`, `QueryIds` or `QueryFails`, `Memoize`, `Answer` |
| `lifespan`, `hydrate_from_store` | `Restart` |

`settled`, `served`, `unsaved`, `deleted` and `gone` are history: no action's guard
reads them, but for the bounds.  A motif is its content hash, a version the set of
ids it hashes (eight hex digits of SHA-256 are taken as injective).  The process has
a store; without one `_write_through`, `_lazy_load` and `registry_version_for` return
at once.  Nothing in the repository calls `delete_motif` but its tests: it is an
administrator's function, and the model lets it be called in the server's process at
any time, the scope its comment gives it.

### Resolver: a motif for each layer

`resolve_motifs` with everything under it, and `present_candidates`.

| Code | Model |
|---|---|
| rows of the `motifs` table, with their facets and embeddings | `store`, `about` |
| `recraft._motif_svg_cache` | `frozen` |
| `layers_by_id`, `resolved["layers"]` | `layer`, `kept` |
| `attempted`, `failed`, `dropped` | the same |
| where `resolve_motifs` is: the loop over the specs, the loop of the cascade, returned or raised | `pc` |
| the loop over the specs | `TextMotif`, `ImageMotif`, `TextOrImageFails`, and for a described motif `Reuse`, `ServeFrozen`, `Generate`, `GenerateFails`, `EmbeddingDown` |
| `_exact_match`, `find_best_by_embedding`, `_select_variant`, the ladder of `_resolve_one` | `Exact`, `Closest`, `Variants`, `Anchor` with `Hit` |
| `present_candidates` | `Offers`, in the order of `OfferRank` |
| after the loop | `AllResolved`, `AllFailed`, `SomeFailed`; `Cascade`; `Survive` or `NobodySurvives` |

`won` and `last` are history.  An `Answer` says which of the store's
queries for a spec worked and whether there was an embedding client.  The hash of the
seed may pick any member of a variant pool.  A descriptor is what the six normalized
facets make equal; its subject, scope and similarities are constants, a distance being
one minus the similarity.  Requests come one after another, and each finds the pool that
those before it left; what interleaved requests do to the pool is in `MotifRegistry`.
The cascade's passes over the layers are taken layer by layer in any order, which is
every order the layers can be listed in and more.

### Generate: requests without a session

| Code | Model |
|---|---|
| the store's rows, `MOTIFS` | `store`, `motifs`; `OthersAdd`, `OthersDelete` are sessions, uploads and deletions |
| `_RESPONSE_CACHE`, `_embedding_cache` | `cache`, `embeds`, oldest first |
| a request's coroutine and its locals | `pc`, `mem` |
| `generate` | `Arrive`, `Stamp`, `Hit`, `MissIntent`, `MissPrompt`, `Compose`, `ComposeFails`, `Render` |
| `build_intents` with its one re-ask | `AskAgain`, `AskFails`, `Author` |
| `embed_query` | `EmbedLookup`, `EmbedTouch`, `EmbedRead`, `EmbedFails`, `EmbedStore`, `EmbedTouchStored`, `EmbedCheck`, `EmbedPop` |
| `resolve_motifs` | `Reuse`, `Make`, `PickFails` |

A coroutine runs on the event loop, so what it does between two awaits is one action;
adapters run in worker threads, so `embed_query` is cut wherever another thread may
come between: between the test for a key, the move to the end and the read.  The
fingerprint is the set of the store's ids (`MotifRegistry` has the memo in front of it),
or the empty set when the store does not answer, which is what an empty store has.
Composition reads `MOTIFS` and loads from the store what is missing there; a motif that is
made may reach `MOTIFS` and not the store.  A deletion is one step.  A request needs one
motif, and a response is who made it, with what motif, the ids it was stamped with, and
whether its previews were all uploaded.  `gone`, `answers`, `replays` and `lost` are
history.

### Torus, Fabric and TorusCalls: the geometry

`Torus` has the arithmetic of the tile as operators: divisibility and snapping
(`units.py`), clones (`seamless.py`), stripes (`primitives/stripe.py`), lanes
(`host.py`, `placement/path_following.py`), lattices and scatters.  `Fabric` has
`render_fabric`: its refusals, the segmentation of a design, the weaves by slot, the
diagonal yarns a motif is laid in with, and the relief, on pictures of a few pixels.
`TorusCalls` has one variable, `call`: one operation is called, with any arguments of its
constants, and the properties compare what comes out with what it should be on the
endless plane.

A length is an integer (in `1 / Unit` mm) and a slope is `<<p, q, h>>` with an integer
hypotenuse `h`; the tolerance is kept as a factor, `Tol`, and rounding to the even number
is kept.  A darts sequence stands for the random generator.  The closure of a slope with
another hypotenuse is irrational, and floating-point error is below the tolerance: both
are left out.  In `Fabric` a design has a layer at each of its places in the drawing order (the
motif layers of a design keep theirs), a colour is the slot it comes from, and a pixel is
painted wholly or not.

### Intents and Layouts: a design on its way to candidates

`Intents` has `validate_intent` with each repair and each check in its order, the guard
`assert_seamless_invariants`, and what `compose` and the resolution of colours need to
draw.  `Layouts` is the way of one design: `Submit`, `ValidateBase`, `Vary`
(`_layout_variants`), `ValidateVariant`, `Draw`.  Errors are kept by kind.  A layer id is a
number, its place in the order of strings.  Text, warnings and
pydantic's checks of single fields are left out.

### Candidates: from drawings to a set

`Request`, `SearchDesign` (steps 3 to 5 of `generate_candidates`: duplicates, ranking,
diversity of layouts), `DropDesign`, `Merge` (`generate_candidate_set`).  A rank key is its
place among all rank keys, a drawing a member of a set.

### Proof modules

`SessionProofs`, `EditTurnProofs`, `MotifRegistryProofs`,
`ResolverProofs`, `GenerateProofs`, `TorusProofs`, `LayoutsProofs` and `CandidatesProofs`
extend the modules they are named for, and `LayoutsProofs` also `TorusProofs`, for its
lemmas about numbers; see section 5.

**How the modules compose.**  `TorusCalls` extends `Fabric` and that `Torus`; `Layouts`
extends `Intents` and that `Torus`, so that what a design is checked with is the geometry
that `TorusCalls` checks.  `Session` is refined from `SpendGate`.  The others meet in what
one gives the next: `Candidates` gets from `Layouts` what was drawn, `Generate` gets from
`MotifRegistry` a fingerprint and from `Resolver` a motif.

## 3. The runs

| Run | Instance | What it shows |
|---|---|---|
| `session_safety` | 2 handlers (symmetric), limits 2 and 1, specs up to 2 per pass, 3 turns, 3 generation calls, 1 call for uploaded images, 1 crash; about 1.9 million states | the invariants below, `CallsApproved`, and that `Session` implements `SpendGate` |
| `session_liveness` | smaller, `FairSpec` | `OperationsFinish`: no edit is retried for ever, the lock is given back |
| `edit_safety` | 2 layer ids, one motif of each kind, 4 authored designs, 6 layers to add, 2 tool calls a pass, 3 turns; about 1.1 million states | the properties of `EditTurn` |
| `registry_safety` | 2 threads, 2 motifs, 1 spec, 1 image; 3 contents of the pool, epoch up to 2, 1 restart, which resets the epoch; after it `MCBound` follows the first change only | the properties of `MotifRegistry` |
| `resolver_safety` | 3 layers (symmetric), 2 motifs, 3 descriptors in 2 scopes, one of them a text; `MCBound` keeps to one unhosted motif layer in any pool, or layers with any hosts in the empty pool; about 70 000 states | the properties of `Resolver` |
| `generate` | 2 handlers, 1 prompt and 1 ready intent, 2 motifs, 2 texts, caches of size 1, 3 requests, 1 change of the pool by others; about 3.3 million states | the properties of `Generate` |
| `tile` | tiles of 6 and 10, lengths 1 to 7, five slopes, directions up to 40 tiles; motifs and designs of 6 or 7 pixels; about 31 000 calls | the properties of `TorusCalls` |
| `layouts` | about 1 800 intents, right and wrong in each part, on a tile of 24 mm; about 18 500 states | the properties of `Layouts` |
| `candidates` | up to 2 designs with up to 3 drawings each, 2 layouts, 4 different drawings, counts from 0 to 9 with a maximum of 4 | the properties of `Candidates` |
| `recraft_only_on_confirm`, `deleted_not_served`, `lane_rhythm` | as above | a sentence of a document or comment that the code does not keep (section 6) |

Properties of `Session`:

- `OneOperation`: the lock is held exactly while a handler works, by one.
- `AccountExact`: the counters are the generations completed and the finalizes
  answered, on any branch; a render escapes the count only in a crash between
  the render and `increment_budget`.
- `CandidatesMatchIntent`: candidates are those of the committed intent, also
  through the write-back of previews that uses a result taken before an await.
- `FinalizeFresh`: what finalize read before its await is still the committed
  candidate, with no motif decision pending, when the render is counted.
- `ListedAreCommits`: the undo list is one entry per commit, in
  order, whatever forks and failures came between; and each listed checkpoint can be made
  again: its candidates were made with the settings it holds, and no spec, error or retry
  is left in it.
- `AtMostOneRetry`: no more than two edit passes a turn.
- `GateResumable`: a gate that has asked keeps its spec, and an approval keeps its
  place in the budget while it is retried.
- `CallsApproved`: a generation is asked for while a confirm is at work, or as the replay
  of an approval whose gate still stands, with room in the budget; and images are
  vectorized only before the first commit.
- `CostGateSpec`: every behaviour is one of `SpendGate`.

Properties of `EditTurn`:

- `OfferMatchesSpec`: what the gate offers belongs to the spec it decides.
- `CommittedIsSound`: the committed design is valid, needs no repair, and its motifs are
  registered, although validation tolerates unknown motifs and a layer may carry the
  sentinel until the gate has been through.
- `EditIsDelta`: a committed edit changed the layers its calls named, and others only
  where a repair made them fit those: the lane of a layer whose host was named, the bands
  of a stripe over a background that was named (`Bystander`).  Nothing is left of a failed
  pass, an abandoned turn, or a gate for another layer.
- `LastDecisionWins`: each committed layer has the motif last decided on for it, or the
  one that was drawn for a failed approval replayed in the place of that decision.

Properties of `MotifRegistry`:

- `FingerprintFresh`: a version that an outage has not degraded contains each change
  that was complete when it was asked for, though the memo is filled and read without
  a lock while the epoch moves.
- `ServedUsable`: an id that was handed out can be drawn until it is deleted; one whose
  write-through failed, until the process restarts.
- `DeletedStaysGone`: a motif deleted while no thread had it in hand is back nowhere
  (store, `MOTIFS`, spec cache) until it is made again.

Properties of `Resolver`:

- `SurvivorsAreWhole`: a returned intent has the host of each of its layers, and a motif
  for each layer that had a spec: it can be composed.
- `DropsOnlyDependents`: the dropped layers are in every set of layers that has the
  failed ones and is closed under hosting.  It compares the loop with reachability in
  the host graph, which may have cycles (the validator forbids a layer to host itself
  only).
- `ScopeKept`: a reused motif has the scope that was asked for, though it is drawn from
  the group of the motif that was matched.
- `OfferLeadsWithAnchor`: the gate's first offer is the motif where the resolver's
  ladder would end; the code has the ladder twice.

Properties of `Generate`:

- `HitIsReplay`: what the cache serves was answered before, whole, to an equal request
  under an equal fingerprint.
- `DeletedNotReplayed`: a response drawn from a motif of its fingerprint is not given to a
  request that came when that motif was deleted, unless it was registered again in
  between: deletion moves the key.
- `CachesBounded`: the response cache keeps its size, and the embedding cache exceeds its
  own only by the threads about to trim and by the lookups that died of a `KeyError`.

Properties of `TorusCalls`:

- `ClonesComplete`: any copy of an instance that reaches into the tile is among the clones,
  though only the eight neighbours are tried.
- `LatticeCloses`: an accepted lattice looks the same from each of its points, over the
  edges too.
- `ScatterSpread`: no two points of a sateen share a row; accepted darts are far enough
  apart on the torus, and one is given up only for being too close.
- `LaneSpaced`: instances on a lane are a step apart, over the wrap too, and there is one.
- `SnapCloses`: a snapped direction closes in few tiles, snapping again changes nothing,
  and its lane does not meet itself before it closes.
- `StripesTile`: a stripe that is accepted repeats; one that repeats is accepted; and all
  of the endless family that shows in the tile is drawn.
- `ClothTiles`: a design moved along the yarns over an edge moves its cloth with it; and
  off the strands the cloth is the one woven without motifs.

Properties of `Layouts`:

- `GuardNeverFires`: the assertion behind the validation is indeed "by construction", also
  for the layouts varied from an accepted design, though the ground repair comes after the
  checks.
- `RepairedStripesTile`: a repaired stripe is refused only if it is so fine that rounding
  its period costs more than the tolerance (`2 * period <= Tol`).
- `GroundVisibleByZ`: no opaque stripe above the ground covers it all, unless the gap that
  the cap leaves is no wider than the rounding of the bands (`GapRoundedAway`).
- `VariantsDraw`: if the base can be drawn, so can its layouts, but for a lane whose band
  the new rhythm does not have.
- `BaseSurvives`: validating again refuses nothing and moves no band by more than a
  rounding.

Properties of `Candidates`:

- `SetIsFull`: the set has as many candidates as were asked for, or as there are different
  drawings, though they are thinned twice; no two alike.
- `LayoutsFirst`: no layout comes twice in a design's selection while one is left out.
- `DesignsFair`: no design gets two more than one that still had a candidate to give.

**Bounds and why they are enough.**  Two handlers, since the lock admits one and the second
is whoever meets it.  One call for uploaded images shows the path; they can come only before
the first commit.  Recraft limit 2 with up to 2 specs a pass reaches the ceiling within one
turn and across turns; finalize limit 1 reaches the other. Three turns give author, failed
edit, and an edit or fork after it, which is the longest chain the state carries information
along (a failed turn leaves its errors and settings to the next one).  One crash reaches
every point once; nothing counts crashes but the account itself.  Two layers and two calls
give remove-and-add of an id, two specs for one layer, and a spec sent elsewhere; with a
two-entry spec list in an authored design the gate takes two decisions on one layer, and a
failed approval can be replayed in place of either.  A stripe with several bands and a
background are among the layers to add, so that removing a host and adding it again rewrites
the lane of the motif on it, and a background put under an authored bold stripe narrows
that.  In the registry a stale memo needs one thread that has read the epoch and one that
changes the pool, and a resurrected motif one that loads and one that deletes; two motifs
tell a replaced id from the same id, and three contents give a change and its undoing.  In
the resolver one layer is enough for the ladder, as a spec is resolved without a look at the
other layers, and an empty pool for the cascade, which does not look at the pool
(`MCBound`); two motifs are a match and its rival, whether by embedding or as a variant; the
cascade needs a chain of three layers to go on from what it dropped itself.  In `generate`
two requests miss together and a third may hit what either left, with a deletion or an
outage of the store in between; a cache of one entry is full at once, and with two texts a
thread loses the entry it has just seen to the other.  The `tile` arguments have cells,
periods and spacings that divide the tile and that do not, phases beyond the closure on
either side, motifs up to the largest box that fits, and directions on both sides of the 16
tiles a lane may take; `Reach` looks three tiles away, further than any box.  Two
resolutions give yarns of the smallest width and of three pixels.  In `layouts` the
tolerance is a hundredth (`Tol = 100`; TLC's integers have 32 bits), where the code and
`tile` have a millionth: a larger tolerance lets more through, and the theorem on the guard
holds for any.  Two designs with three drawings over two layouts give the selection a layout
to prefer, twins within a design and between designs, and a design that has no more to
give.  The proofs have no bounds, so for what is proved (section 5) a run shows only that
its case arises; the bounds matter for `OperationsFinish`.

`CHECK_DEADLOCK FALSE` in the runs: at the bound on turns or requests nobody sends any,
and a call of an operation, a design or a search is over when it is over.

`TypeOK` of each module is a theorem and no run's property.

**Fairness.**  `FairSpec` has weak fairness of `Work(h)` for each handler: a
coroutine that has been let in goes on, since every adapter call has a timeout
and every node returns or raises.  Requests and crashes are not fair: users may
leave.  Weak fairness is enough, as a handler's work stays enabled until it
moves; the lock forbids interference.

## 4. The mutants

Every property has a mutant of the code's model that breaks it, kept next to the definition
it replaces and marked `fault` or `Mutant`: no lock on entry, a budget that admits one too
many, a fork that refunds, a checkpoint that keeps the gate it went through, an endless
retry, a gate query that looks only at the next node, a boundary that ignores errors, specs
appended instead of replaced, a freeze that only fills the sentinel, candidate lists that
are not sliced, a retry on the failed design, a memo that ignores the epoch, a registration
that keeps only what was persisted, a deletion that flushes nothing, or drops the keys it
should keep, a variant group without the scope, an offer list in another order than the
ladder, a cascade of one pass, or from the hosted to the host; a response kept without its
previews, a key without the fingerprint, a trim that is one late; clones on one side only, a
drop that never closes, a distance that forgets the torus, a phase that is not reduced, an
angle snapped on one axis, lines that stop short, yarns at the target spacing; a lattice
checked on one axis, a period repaired as if the stripe were level, lanes not normalized, a
ground repair to the cap for every stripe, or for the wrong ones; candidates by rank alone,
design by design, or with twins.

## 5. What is proved

All with no bound on the constants but the stated assumptions
(`LimitsAssumption`, `BoundsAssumption`, `MotifsAssumption`,
`InputsAssumption`, `EditBoundsAssumption`: limits and bounds are naturals, the
two kinds of motif are disjoint, the inputs are well-formed; those of the other modules are
given with their theorems).

`SessionProofs`:

- `TypeCorrect`: `[]TypeOK`.
- `OneOperationAlways`: the invariant is `OneOperation` with the lock and the
  handlers in step; `Enter` needs a free lock, `Leave` and `Crash` free it.
- `GateResumableAlways`: the budget half needs `OneOperation` (nobody records a
  generation while another's approval is out), and that a decision is given to a
  handler only below the limit; the spec half that a checkpoint drops the
  interrupt.
- `SessionImplementsCostGate`: each step of `Session` is a step of `SpendGate` or a
  stutter, under the refinement `spent <- st.recraft`, `approved <- Approved`,
  `committed <- st.intent # 0`, with both kinds of call counted on both sides.  That the
  author node, which vectorizes, is reached only without a design is `IntentOK`.
- `SpendWithinLimit`: from the refinement, the ceiling with the outstanding
  approval counted in.

And the rest of the safety properties of the session:

- `ListedAreCommitsAlways`, `CandidatesMatchIntentAlways`, `FinalizeFreshAlways`:
  one inductive invariant, `CommitInv`.  What an edit writes before its validation is in
  the head only until a commit makes candidates under it, so no listed checkpoint has
  settings its candidates were not made with.  A fork starts from a listed checkpoint, so
  the listing has to agree with the candidates before the head can; and the
  preview write-back writes what its handler holds, so what is held has to be what
  the session has (`HeldOK`), which is where the lock is needed.
- `AtMostOneRetryAlways`: `PassesOK` counts the passes behind each node; the second
  is behind a gate only with `retried`.
- `AccountExactAlways`: a finalize has room in the budget and has rendered before
  it counts (`RendersOK`); the generation half takes its room from
  `GateResumable`.
- `SpentIsKept`: neither counter ever falls, since a fork carries the head's over.
- `CallsAreApproved`: what is true of "Recraft can never fire without an explicit
  `generate_motif` confirm".  A generation is asked for while a confirm is at work, or
  because one was before: its approval, kept with an interrupt that still stands, is
  replayed.  In both cases the budget has room for it.  Finding 1 of section 6 is the
  second case, and for generations there is no third (`ApprovalOK`).  Uploaded images are
  vectorized without a confirm, but only while the session has no design.
- `OperationsAreShort`: a handler that works has at most `2 * PassSteps + 1` steps before
  it, and every step but an idle one leaves it fewer.  `PassSteps` grows with the number of
  specs a pass may leave for the gate; the factor is the one retry.  So no operation can
  turn in a circle, with any number of specs, gates, failures and resumes.

`EditTurnProofs`: `TypeCorrect`, `OfferMatchesSpecAlways`,
`CommittedIsSoundAlways`, `EditsAreDeltas`, `LastDecisionsWin`.  One inductive
invariant serves all of them.  `EditIsDelta` compares a commit with the design
the pass started from, so the invariant carries the comparison along: until validation
what differs is named, after it it may also be a bystander (`DeltaSoFar`); and the specs
of a pass are about named layers (`SpecsTouched`).  The repairs read hosts and backgrounds,
so what they do to an unnamed layer has to be traced to a named one (`RepairsAreDelta`):
a design that was committed needs no repair (`CommittedIsSound`), hence a repair that
is needed now is needed because of a layer that was named since; and one pass of the
repairs leaves nothing to repair (`RepairedOnce`).  `LastDecisionWins` needs that
decisions, or what overruled them, are in the design until the commit (`DecisionsKept`)
and that none is left from the pass before (`NoDecisionYet`).

`MotifRegistryProofs`, with `IdsAssumption` only (ids are not the null id):

- `FingerprintFreshAlways`, by `FreshInv`: within an epoch nothing is completed, so all
  who have read the same epoch need the same changes (`EpochTells`), and a memo for an
  epoch is good for each of them (`MemoGood`).  It is why the bump must come after the
  store's change, and why a late `Memoize` under an old epoch is harmless.
- `ServedUsableAlways`, by `UsableInv`: the caches, `MOTIFS` and the hands of the
  threads hold nothing but persisted or unsaved ids, deleted ones aside.
- `DeletedStaysGoneAlways`, by `GoneInv`: the row goes first, so no lazy load can find
  it; `MOTIFS` has the id at most until the eviction, a spec at most until the flush.
- `OnlyImagesBringBackAlways`, from `GoneInv`: what is true of "can never be served again
  from a warm cache".  After the flush no text, registration or spec hit hands the id out;
  an image that was vectorized into it is the one way back (finding 2 of section 6).

`ResolverProofs`, with motif ids and distances that are naturals, a list length of at
least one, and a null host that is no layer.  The sets of layers, ids and descriptors
may be infinite where the theorem does not count:

- `SurvivorsAreWholeAlways` and `DropsOnlyDependentsAlways`, by `DropInv`: while the
  cascade runs, and at each stage after it, the dropped layers hold the failed ones and
  are within every closed set that does; a layer attempted and not failed has its motif.
- `ScopeKeptAlways`: a variant has the group of the anchor, the group has the scope in
  it, and an id's descriptor does not change while the id is in the store.
- `OfferLeadsWithAnchorAlways`: a consequence of types alone, by the three ways a ladder
  can end; least ids come from the well-foundedness of the naturals.

`GenerateProofs`, for any sizes of the caches and any finite set of handlers
(`SizesAssumption`, `HandlersAssumption`, `MotifsAssumption`):

- `GenerateType`: `[]TypeOK`.
- `GenerateHitIsReplay`: every cache entry was answered to a request with its key, so an
  entry that a concurrent miss overwrote or moved is still such an answer.
- `GenerateDeletedNotReplayed`: what is gone is not in the store, so it is in no stamp read
  from it after; for a request in service it stays gone until it is registered
  (`GoneKnown`), and an entry is kept under the ids of its own stamp (`CacheSound`).
- `GenerateCachesBounded`: the surplus of the embedding cache is paid for by the threads
  between their store and their trim, and by those that died there.  The counting is by
  cardinalities of finite sets.
- `KeyErrorsAreRaces`: in a run in which no two threads are between lookup and trim at once
  (`EmbedsAlone`), no lookup dies and the cache is at most one entry over its size: the key
  a thread has seen is still there when it moves it, and when it reads it (`OwnEntry`).
  With two threads there TLC finds lookups that die, so the hypothesis is what is needed.

`TorusProofs`, for any tile, motif, lane, cell, period, direction and `Reach`
(`LengthsAssumption`, `RisesAssumption`; a slope is in its lowest terms, as a `Fraction` is,
with a hypotenuse that is a whole number: `SlopesAssumption`; the cap on lanes is at least
two tiles, the code's being 16: `CapsAssumption`; a dropped cell is one of a number that the
tolerance tells apart: `ToleranceAssumption`; masks and paints are sets of pixels of the
tile, a design is a sequence of layers, and a resolution is positive or, for the configured
one, 0: `MasksAssumption`, `DesignsAssumption`, `ClothRequestsAssumption`).  The section
`Numbers` has what the rest needs of quotients and rests, up to Bezout's identity and
Gauss's lemma; inductions go over a set of naturals and its least member.

- `TorusClonesComplete`: a box no larger than the tile, from an anchor inside it, meets the
  tile only from the eight neighbours, and is copied whenever it crosses an edge.
- `TorusLaneSpaced`: the instances are multiples of the step from a phase within the
  closure, so the last is a step short of the first in the next round.
- `LaneLosesWholeSteps`: of the `n` instances a lane was snapped to it holds `n` less the
  whole steps that fit into its phase, so the rhythm is kept exactly when the phase is
  shorter than a step.  This is the boundary of finding 3 of section 6.
- `TorusStripesTile`: what a side of the tile is off a whole number of steps is no more than
  as many times what the rounding is off; a stripe that repeats along both sides has a step
  that divides the tile, by Bezout's identity on its direction; and the corners of the tile
  bound the lines that can show in it.
- `TorusLatticeCloses`: an accepted lattice is a grid of `n` by `m` points sheared by the
  drop, and the shear over the whole tile is a multiple of the cell (`LatticeIsFine`, where
  the drop's denominator has to divide the count); rests tell its points apart, and a step
  from any of them leads to another (`IsPoint`).  A lattice by columns is one by rows with
  its axes exchanged.
- `TorusScatterSpread`: a step without a common divisor visits every row once; over the
  darts, by induction on how many were thrown, those kept are apart and those given up are
  near one kept (`Thrown`), and the nearest copy on the torus is within one tile.
- `TorusSnapCloses`: `limit_denominator` has an answer (a common multiple of all the
  denominators makes the misses comparable, and naturals have a least), and only one: a
  target halfway between two fractions of one denominator is as near to one of a smaller
  (`HalfwaySimpler`).  A direction that closes in time misses by nothing, so it is kept; a
  lane that met itself would have a tile that divides both sides of its way.
- `TorusClothTiles`: what a strand covers, one or two pixels of it cover, with enough of the
  mask beside them on their line (`CoveredHasWindow`), and conversely the run around such
  pixels is a strand that covers it (`WindowIsCovered`).  The lines repeat with the tile
  because the step divides it (`LinesRepeat`), and none of those pixels is more than a tile
  away (`WindowIsNear`), so within the three tiles that are scanned they can be moved with
  the mask (`ThreadSlides`).  The picture of a moved design, its weaves, edges and faces
  follow pixel by pixel (`Follows`, `TakesAlong`).

`LayoutsProofs`, for any unit, tolerance and caps, and any intents that have the fields the
pydantic model gives them, with whole lengths and a unit fine enough for every slope to have
a period that tiles (`RawIntentsAssumption`, by `Shaped`; `CoverAssumption`,
`AllowedDpiAssumption`).  The invariant, `LayoutsInv`, has the design in hand and its base
in that shape, what the checks that were passed have established, and why the design was
dropped:

- `LayoutsGuardNeverFires`: what the ground repair and the lane repair touch are fields the
  guard does not read, so the checks before them still hold after; each variant has the
  shape of an intent and is checked as one; neither validation nor drawing reports an
  assertion of its own.
- `LayoutsRepairedStripesTile`: the repaired period is the tile over a whole number of
  closing lengths, and the rounding of it costs half a unit for each of them.
- `LayoutsGroundVisible`: the sum of the widths that the cap leaves, by induction over the
  bands, is short of the period by the gap, up to half a unit for each band; so if the gap
  is wider, the place after the last band is bare.
- `LayoutsVariantsDraw`: a variant changes the layout only, so a color, a motif or a path
  that could be drawn can be; what is left is the lane.
- `LayoutsBaseSurvives`: each repair, done again, moves nothing or by its own rounding, and
  each check reads only what was not moved or holds for whatever was.

`CandidatesProofs`, for any number of designs and candidates and any finite set of ranks
(`CountsAssumption`, `RanksAssumption`), by an invariant, `CInv`, on what each search has
left and what is merged so far:

- `CandidatesSetIsFull`: a selection is as long as asked for or has every different
  drawing, and so has the merge of selections.
- `CandidatesLayoutsFirst`: the best of each layout come before any second of a layout, and
  an initial segment of that order has no second while a first is left out.
- `CandidatesDesignsFair`: the merge takes one of each design that has another, round by
  round.

Model-checked only: `OperationsFinish`, which is liveness under fairness and ENABLED, out
of this prover's reach.  `OperationsAreShort` proves the half of it that is about the
program, that its steps run out; that a step is always enabled, and that fairness takes
it, is what the run `session_liveness` shows.

## 6. Where the code and its documents disagree

1. *Recraft can fire on select-motif* (`recraft_only_on_confirm`).  A decision the
   gate raised on is replayed on the next resume.  For generations there is no other way
   (`CallsAreApproved`).  The selected motif is then lost: the layer gets the one that was
   generated, which is the exception in `LastDecisionWins`.
2. *A deleted motif can be served again* (`deleted_not_served`).  The deletion flushes
   the spec cache and not the image cache, and nothing else brings it back
   (`OnlyImagesBringBackAlways`).
3. *A lane with a large phase is bare at its start* (`lane_rhythm`).  The phase is reduced
   by the closure and not by the step, and the walk goes on from it only: the lane then
   holds fewer instances than the count it was snapped to (`path_following.py:98`), one for
   every whole step in the phase (`LaneLosesWholeSteps`).

Seen in the models and the code, without a run of their own.  In sessions:

- Errors left in the state by a turn that ended in a 422 make the next edit's first pass
  count as its retry (`graph.py:142`).
- A turn that fails leaves its seed, colorway or material beside the older intent, so the
  head need not reproduce its candidates until the next commit (`graph.py:164`).  The
  listed checkpoints always do (`ListedAreCommits`).
- Facets with a `layer_id` send the spec to another layer, and the sentinel may then reach
  validation and commit (`tools.py:229`).
- A colorway that the committed intent does not define makes the commit raise in each later
  turn (`graph.py:264`).
- Only completed generations count against the session's ceiling, so a generation that
  fails can be confirmed, and its calls paid for, without end (`graph.py:217`).
- Images that were uploaded are vectorized by Recraft in the author node, without a confirm
  and without a count (`graph.py:112`).  A comment there says that the gate is about
  generation only; the docstring of `sessions.py` says "Recraft can never fire" (line 9).
- The gate still asks about, and pays for, a motif for a layer that a later call of the
  same pass removed; the freeze then does nothing (`graph.py:220`).
- A repair may rewrite layers that no tool call named: the bare lane of a motif whose host
  came to have several bands, and the bands of an opaque stripe under which an opaque
  background was put (`validate/intent.py:304`, `518`).  `EditIsDelta` says exactly when.

In the pool of motifs and the resolver:

- A load that has a motif in hand when it is deleted puts it back (`registry.py:156`).
- Two requests that miss one spec at once both generate, and pay, and the later motif
  replaces the earlier one (`recraft.py:463`; the docstring: "a miss generates exactly
  once").  A call that fails after it was paid, and a restart after a failed write-through,
  make it be paid for again.  No property of the project says how often a motif is paid
  for.
- In a scope without motifs no vector is computed, so the first motif made there is stored
  without and not found by similarity (`motif_resolver.py:179`).
- With two specs for one layer, one resolved and one failed, the layer counts as failed,
  and if it is the only one the request fails (`motif_resolver.py:415`).
- An embedding outage is caught with the failures of single motifs, and with another
  motif resolved it is reported as a motif that did not pass its gate
  (`motif_resolver.py:399`; the comment at 176 wants a 502, `embedding.py:100` a
  fall-back).
- The fallback does not look at the subject, and text motifs are in the pool of whole
  motifs (`motif_resolver.py:199`, `glyph_builder.py:132`; the docstring at 336 has a
  "subject/part hard-filter").

On the stateless path:

- `generate_cache_size` is 0 by default: there is no response cache unless it is asked for.
- The stamp is read before resolving (`generate.py:336`), so a motif the request made
  itself is not in it, and deleting that motif leaves the key as it was: the response is
  still replayed, with a motif that is gone.  `DeletedNotReplayed` is about motifs of the
  stamp.
- A store that does not answer gives the version of an empty store
  (`registry_fingerprint.py:49`), so a response of an outage is kept under that key, and
  replayed in the next outage or while the store is empty, whatever was deleted meanwhile.
- A `KeyError` of the embedding cache ends the request with a 500, and can leave the cache
  one entry over its size for good.  It can come from the move and from the read after it
  (`embedding.py:109`, `110`), but only when two threads are in there at once
  (`KeyErrorsAreRaces`); two threads that miss one text at
  once may go on with different vectors (`embedding.py:82`: "same (model, text) -> same
  vector").

In the engine and the cloth:

- An accepted intent need not be one that can be drawn: a motif layer without a placement, a
  lane of a band that does not exist, a wave without a length or an amplitude, a lattice
  hosted on a motif.  All of these surface as a failure of every layout.
- The period of a repaired stripe is rounded, and below half a millimetre it is refused after
  the repair (`validate/intent.py:207`).
- The ground repair asks for a higher `z_order`, the drawing order also looks at the id: a
  stripe with the ground's `z_order` may cover it (`validate/intent.py:508`).
- A layout whose drawings all fail still counts in `available_strategy_count`
  (`candidates.py:129`).
- "At most three clones" is not so for a wide box turned by 45 degrees, which may need more
  (`seamless.py:55`).
- Yarns are drawn 0.82 steps wide across lines that are a step apart along the edge, so in a
  solid area they overlap, though the base "shows between yarns" (`fabric.py:518`); and a
  design with nothing but motifs gets no inlay (`fabric.py:416`), though "the motif yarn
  surface is ALWAYS design x twill-45" (`fabric.py:70`).

## 7. The plan

Done, the most important behaviour first:

1. `SpendGate`, `Session`, `SessionProofs`.
2. `EditTurn`, `EditTurnProofs`.
3. `MotifRegistry`, `MotifRegistryProofs`.
4. `Resolver`, `ResolverProofs`.
5. `Torus`, `Fabric`, `TorusCalls`, `TorusProofs`.
6. `Intents`, `Layouts`, `LayoutsProofs`.
7. `Candidates`, `CandidatesProofs`.
8. `Generate`, `GenerateProofs`.

Left:

9. Proofs: the sharing of one store by the resolver and the registry.
10. The adapters' reading of replies (`llm.py`: which designs of a reply are kept), wave
    lanes beyond their closure, and the normalization of a motif's SVG (`geometry.py`,
    `facets.py`) as operators.

## 8. What is not modelled

- The `turns` log, warnings, the best-effort row in `seamless_sessions`, and the
  read-only endpoints: no decision reads them.
- The choice of the checkpointer; a crash keeps the checkpoints, as the Postgres
  saver does.  With LangGraph's asynchronous durability a crash may fall back to
  an earlier checkpoint, which is a crash at an earlier moment.
- Two worker processes on one database: the code says it runs one.
- A crash between the gate becoming next and its question, followed by a confirm
  that fails: the session then no longer looks as if it waited.  It is a hazard
  in the list; no document says otherwise.
- The prompts, the parsing of model output and of images, HTTP; the path from a reference
  image to an intent, and the design log.
- Fonts, glyphs and the numeric geometry of a motif's SVG (`geometry.py`, `glyph_builder.py`,
  `facets.py` beyond the resolver's use of facets): floating-point drawing that the
  repository's own tests cover.
- Slopes whose length is irrational, floating-point error, and the samples along a wave.
- Weave photographs, colours, anti-aliasing, the rasterizer and the sanitizer; the seam
  metric of `validate/seamless.py`, which measures the edges of a picture.
- The service shell and `scripts/`: wiring, settings, logging, offline evaluation.
