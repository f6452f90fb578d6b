---------------------------- MODULE MotifRegistry ----------------------------
(***************************************************************************)
(* The reusable motif pool of one server process: the in-memory MOTIFS and *)
(* its epoch (app/motifs/registry.py), the durable store behind it         *)
(* (app/motifs/store.py), the freeze caches that map a spec or an image to *)
(* a motif id (app/adapters/recraft.py), the text motifs                   *)
(* (app/motifs/glyph_builder.py) and the memoized pool fingerprint         *)
(* (app/adapters/registry_fingerprint.py).                                 *)
(*                                                                         *)
(* The Threads are the executor threads that serve requests; none of this  *)
(* is locked.  A step is what a thread does between two calls, which is    *)
(* where the interpreter can switch: in particular the epoch's += 1, and   *)
(* the memo's comparison with its return, are single steps.  Every call of *)
(* the store can fail.                                                     *)
(*                                                                         *)
(* A motif is its id, the hash of its geometry.  A version is the set of   *)
(* ids it fingerprints: the baseline version is that of the empty pool,    *)
(* and two pools are taken to have different fingerprints.                 *)
(***************************************************************************)
EXTENDS Naturals, Sequences

CONSTANTS
  Threads,      \* threads that serve requests
  Ids,          \* motif ids
  SpecKeys,     \* keys of recraft._motif_svg_cache: canonical specs
  ImageKeys,    \* keys of recraft._vectorize_cache: images
  NoId, NoKey,  \* no motif id, no cache key
  MaxPools,     \* bound: contents the store has had
  MaxEpoch,     \* bound: epoch up to which a pool change is begun
  MaxRestarts   \* bound: restarts of the process

ASSUME IdsAssumption == NoId \notin Ids
ASSUME KeysAssumption ==
  SpecKeys \cap ImageKeys = {} /\ NoKey \notin SpecKeys \cup ImageKeys
ASSUME PoolBoundsAssumption ==
  MaxPools \in Nat /\ MaxEpoch \in Nat /\ MaxRestarts \in Nat

VARIABLES
  pools,      \* contents of the motifs table, oldest first, the last is now
  motifs,     \* ids in MOTIFS
  frozen,     \* both freeze caches
  epoch,      \* _registry_pool_epoch
  memo,       \* registry_fingerprint._cache
  pc,         \* what each thread is doing
  mem,        \* what each thread holds
  \* what really happened
  settled,    \* index in pools of the last change that was completed
  served,     \* motif ids handed out that a restart has not lost
  unsaved,    \* ids whose last write-through failed
  deleted,    \* ids some delete_motif has been called for
  gone,       \* deleted ids that nobody was at work on, and nobody made again
  restarts

process == <<motifs, frozen, epoch, memo, pc, mem>>
ghosts  == <<settled, served, unsaved, deleted, gone, restarts>>
vars    == <<pools, process, ghosts>>

Keys  == SpecKeys \cup ImageKeys
store == pools[Len(pools)]

Memo   == [set : BOOLEAN, epoch : Nat, version : SUBSET Ids]
NoMemo == [set |-> FALSE, epoch |-> 0, version |-> {}]

Stages == {"idle", "generating", "upsert", "insert", "bump", "freeze",
           "loading", "loaded", "evict", "flush", "uncount",
           "check", "querying", "queried", "answered"}

\* id, key: of the motif at work on.  again: the one regeneration is used up.
\* at, need: what the thread's store access saw or has to see (history).
\* epoch, version, ok: of the fingerprint at work on; ok: the store answered.
Memory == [id : Ids \cup {NoId}, key : Keys \cup {NoKey}, again : BOOLEAN,
           at : Nat, need : Nat, epoch : Nat, version : SUBSET Ids, ok : BOOLEAN]
NoMem  == [id |-> NoId, key |-> NoKey, again |-> FALSE,
           at |-> 0, need |-> 0, epoch |-> 0, version |-> {}, ok |-> FALSE]

Init ==
  /\ pools = <<{}>>
  /\ motifs = {}
  /\ frozen = [k \in Keys |-> NoId]
  /\ epoch = 0
  /\ memo = NoMemo
  /\ pc = [t \in Threads |-> "idle"]
  /\ mem = [t \in Threads |-> NoMem]
  /\ settled = 1
  /\ served = {} /\ unsaved = {} /\ deleted = {} /\ gone = {}
  /\ restarts = 0

Begin(t, stage, m) ==
  /\ pc[t] = "idle"
  /\ pc' = [pc EXCEPT ![t] = stage]
  /\ mem' = [mem EXCEPT ![t] = m]

At(t, stage)   == pc[t] = stage
Goto(t, stage) == pc' = [pc EXCEPT ![t] = stage]

End(t) ==
  /\ pc' = [pc EXCEPT ![t] = "idle"]
  /\ mem' = [mem EXCEPT ![t] = NoMem]

\* The table takes a new content; one that is no change leaves no trace.
Store(content) ==
  pools' = IF content = store THEN pools ELSE Append(pools, content)

Room == Len(pools) < MaxPools /\ epoch < MaxEpoch

-----------------------------------------------------------------------------
(* generate_via_recraft, vectorize_via_recraft and build_text_motif.       *)

\* A cache hit hands out what was frozen.
ServeFrozen(t, k) ==
  /\ At(t, "idle")
  /\ frozen[k] # NoId
  /\ served' = served \cup {frozen[k]}
  /\ UNCHANGED <<pools, process, settled, unsaved, deleted, gone, restarts>>

\* A miss calls the generator; nothing keeps two threads from missing at once.
Miss(t, k) ==
  /\ frozen[k] = NoId
  /\ Begin(t, "generating", [NoMem EXCEPT !.key = k])
  /\ UNCHANGED <<pools, motifs, frozen, epoch, memo, ghosts>>

\* The answer passes the suitability gate: any motif.
Generated(t, id) ==
  /\ At(t, "generating")
  /\ Room
  /\ Goto(t, "upsert")
  /\ mem' = [mem EXCEPT ![t].id = id]
  /\ gone' = gone \ {id}
  /\ UNCHANGED <<pools, motifs, frozen, epoch, memo, settled, served, unsaved,
                 deleted, restarts>>

\* The gate rejects it: a spec is prompted for once more.
Regenerate(t) ==
  /\ At(t, "generating")
  /\ mem[t].key \in SpecKeys
  /\ ~mem[t].again
  /\ mem' = [mem EXCEPT ![t].again = TRUE]
  /\ UNCHANGED <<pools, motifs, frozen, epoch, memo, pc, ghosts>>

\* The generator is down, or what it answers is unsuitable for good.
GenerateRaises(t) ==
  /\ At(t, "generating")
  /\ End(t)
  /\ UNCHANGED <<pools, motifs, frozen, epoch, memo, ghosts>>

\* A text motif is built from its glyphs, without a cache of its own: it is
\* registered unless MOTIFS has it.
TextKnown(t, id) ==
  /\ At(t, "idle")
  /\ id \in motifs
  /\ served' = served \cup {id}
  /\ UNCHANGED <<pools, process, settled, unsaved, deleted, gone, restarts>>

TextNew(t, id) ==
  /\ id \notin motifs
  /\ Room
  /\ Begin(t, "upsert", [NoMem EXCEPT !.id = id])
  /\ gone' = gone \ {id}
  /\ UNCHANGED <<pools, motifs, frozen, epoch, memo, settled, served, unsaved,
                 deleted, restarts>>

-----------------------------------------------------------------------------
(* register_motif.                                                         *)

\* _write_through: INSERT ... ON CONFLICT DO NOTHING, in a commit of its own.
Upsert(t) ==
  /\ At(t, "upsert")
  /\ Store(store \cup {mem[t].id})
  /\ mem' = [mem EXCEPT ![t].at = Len(pools')]
  /\ Goto(t, "insert")
  /\ unsaved' = unsaved \ {mem[t].id}
  /\ UNCHANGED <<motifs, frozen, epoch, memo, settled, served, deleted, gone,
                 restarts>>

\* Its failure is swallowed.
UpsertFails(t) ==
  /\ At(t, "upsert")
  /\ Goto(t, "insert")
  /\ unsaved' = unsaved \cup {mem[t].id}
  /\ UNCHANGED <<pools, motifs, frozen, epoch, memo, mem, settled, served,
                 deleted, gone, restarts>>

\* A fault: only what was persisted is kept in memory.
InsertIfSaved(t) ==
  /\ At(t, "insert")
  /\ motifs' = IF mem[t].at > 0 THEN motifs \cup {mem[t].id} ELSE motifs
  /\ Goto(t, "bump")
  /\ UNCHANGED <<pools, frozen, epoch, memo, mem, ghosts>>

Insert(t) ==
  /\ At(t, "insert")
  /\ motifs' = motifs \cup {mem[t].id}
  /\ Goto(t, "bump")
  /\ UNCHANGED <<pools, frozen, epoch, memo, mem, ghosts>>

\* _bump_registry_pool_epoch, the last thing register_motif and delete_motif
\* do.  With it the change is complete.
Later(i, j) == IF i > j THEN i ELSE j

Bumped(t) ==
  /\ epoch' = epoch + 1
  /\ settled' = Later(settled, mem[t].at)

Bump(t) ==
  /\ At(t, "bump")
  /\ Bumped(t)
  /\ Goto(t, "freeze")
  /\ UNCHANGED <<pools, motifs, frozen, memo, mem, served, unsaved, deleted,
                 gone, restarts>>

\* The caller freezes the id under its key (a text has none) and hands it out.
Freeze(t) ==
  /\ At(t, "freeze")
  /\ frozen' = [k \in Keys |-> IF k = mem[t].key THEN mem[t].id ELSE frozen[k]]
  /\ served' = served \cup {mem[t].id}
  /\ End(t)
  /\ UNCHANGED <<pools, motifs, epoch, memo, settled, unsaved, deleted, gone,
                 restarts>>

-----------------------------------------------------------------------------
(* get_motif, off its fast path: _lazy_load.                               *)

LoadMotif(t, id) ==
  /\ id \notin motifs
  /\ Begin(t, "loading", [NoMem EXCEPT !.id = id])
  /\ UNCHANGED <<pools, motifs, frozen, epoch, memo, ghosts>>

RowFound(t) ==
  /\ At(t, "loading")
  /\ mem[t].id \in store
  /\ Goto(t, "loaded")
  /\ UNCHANGED <<pools, motifs, frozen, epoch, memo, mem, ghosts>>

\* No row, or no store: the motif is unknown.
UnknownMotif(t) ==
  /\ At(t, "loading")
  /\ End(t)
  /\ UNCHANGED <<pools, motifs, frozen, epoch, memo, ghosts>>

KeepRow(t) ==
  /\ At(t, "loaded")
  /\ motifs' = motifs \cup {mem[t].id}
  /\ End(t)
  /\ UNCHANGED <<pools, frozen, epoch, memo, ghosts>>

-----------------------------------------------------------------------------
(* delete_motif.  When the store fails, nothing is done.                   *)

\* A thread that has made or loaded a motif will put it in place.
AtWorkOn(id) ==
  \E u \in Threads :
    /\ mem[u].id = id
    /\ pc[u] \in {"upsert", "insert", "bump", "freeze", "loaded"}

DeleteRow(t, id) ==
  /\ Room
  /\ Store(store \ {id})
  /\ Begin(t, "evict", [NoMem EXCEPT !.id = id, !.at = Len(pools')])
  /\ deleted' = deleted \cup {id}
  /\ gone' = IF AtWorkOn(id) THEN gone ELSE gone \cup {id}
  /\ UNCHANGED <<motifs, frozen, epoch, memo, settled, served, unsaved,
                 restarts>>

Evict(t) ==
  /\ At(t, "evict")
  /\ motifs' = motifs \ {mem[t].id}
  /\ Goto(t, "flush")
  /\ UNCHANGED <<pools, frozen, epoch, memo, mem, ghosts>>

\* Fault: nothing is flushed.
NothingFlushed(keys) == frozen

\* _flush_motif_id_caches: the caches with the keys flushed.
Flushed(keys) == [k \in Keys |-> IF k \in keys THEN NoId ELSE frozen[k]]

Flush(t) ==
  /\ At(t, "flush")
  /\ frozen' = Flushed(SpecKeys)
  /\ Goto(t, "uncount")
  /\ UNCHANGED <<pools, motifs, epoch, memo, mem, ghosts>>

BumpDeleted(t) ==
  /\ At(t, "uncount")
  /\ Bumped(t)
  /\ End(t)
  /\ UNCHANGED <<pools, motifs, frozen, memo, served, unsaved, deleted, gone,
                 restarts>>

-----------------------------------------------------------------------------
(* registry_version_for.                                                   *)

ReadEpoch(t) ==
  /\ Begin(t, "check", [NoMem EXCEPT !.epoch = epoch, !.need = settled])
  /\ UNCHANGED <<pools, motifs, frozen, epoch, memo, ghosts>>

\* A fault: the memo is good for as long as the process lives.
MemoHitAnyEpoch(m) == memo.set

MemoHit(m) == memo.set /\ memo.epoch = m.epoch

CheckMemo(t) ==
  /\ At(t, "check")
  /\ IF MemoHit(mem[t])
       THEN /\ mem' = [mem EXCEPT ![t].version = memo.version, ![t].ok = TRUE]
            /\ Goto(t, "answered")
       ELSE Goto(t, "querying") /\ mem' = mem
  /\ UNCHANGED <<pools, motifs, frozen, epoch, memo, ghosts>>

QueryIds(t) ==
  /\ At(t, "querying")
  /\ mem' = [mem EXCEPT ![t].version = store, ![t].ok = TRUE]
  /\ Goto(t, "queried")
  /\ UNCHANGED <<pools, motifs, frozen, epoch, memo, ghosts>>

\* An outage: the baseline version, which is not memoized.
QueryFails(t) ==
  /\ At(t, "querying")
  /\ Goto(t, "answered")
  /\ UNCHANGED <<pools, motifs, frozen, epoch, memo, mem, ghosts>>

Memoize(t) ==
  /\ At(t, "queried")
  /\ memo' = [set |-> TRUE, epoch |-> mem[t].epoch, version |-> mem[t].version]
  /\ Goto(t, "answered")
  /\ UNCHANGED <<pools, motifs, frozen, epoch, mem, ghosts>>

Answer(t) ==
  /\ At(t, "answered")
  /\ End(t)
  /\ UNCHANGED <<pools, motifs, frozen, epoch, memo, ghosts>>

-----------------------------------------------------------------------------
\* The process stops and boots again; hydrate_from_store may fail.
Restart(hydrated) ==
  /\ restarts < MaxRestarts
  /\ motifs' = IF hydrated THEN store ELSE {}
  /\ frozen' = [k \in Keys |-> NoId]
  /\ epoch' = 0
  /\ memo' = NoMemo
  /\ pc' = [t \in Threads |-> "idle"]
  /\ mem' = [t \in Threads |-> NoMem]
  /\ served' = served \ (unsaved \ store)
  /\ restarts' = restarts + 1
  /\ UNCHANGED <<pools, settled, unsaved, deleted, gone>>

Register(t) ==
  \/ Upsert(t) \/ UpsertFails(t) \/ Insert(t) \/ Bump(t) \/ Freeze(t)

Next ==
  \/ \E t \in Threads :
       \/ \E k \in Keys : ServeFrozen(t, k) \/ Miss(t, k)
       \/ \E id \in Ids :
            \/ Generated(t, id) \/ TextKnown(t, id) \/ TextNew(t, id)
            \/ LoadMotif(t, id) \/ DeleteRow(t, id)
       \/ Regenerate(t) \/ GenerateRaises(t)
       \/ Register(t)
       \/ RowFound(t) \/ UnknownMotif(t) \/ KeepRow(t)
       \/ Evict(t) \/ Flush(t) \/ BumpDeleted(t)
       \/ ReadEpoch(t) \/ CheckMemo(t) \/ QueryIds(t) \/ QueryFails(t)
       \/ Memoize(t) \/ Answer(t)
  \/ \E hydrated \in BOOLEAN : Restart(hydrated)

Spec == Init /\ [][Next]_vars

-----------------------------------------------------------------------------
(* Correctness.                                                            *)

\* Every variable has its type.
TypeOK ==
  /\ pools \in Seq(SUBSET Ids) /\ Len(pools) >= 1
  /\ motifs \subseteq Ids
  /\ frozen \in [Keys -> Ids \cup {NoId}]
  /\ epoch \in Nat
  /\ memo \in Memo
  /\ pc \in [Threads -> Stages]
  /\ mem \in [Threads -> Memory]
  /\ settled \in 1..Len(pools)
  /\ served \subseteq Ids /\ unsaved \subseteq Ids
  /\ deleted \subseteq Ids /\ gone \subseteq Ids
  /\ restarts \in Nat

\* A version that was not degraded by an outage is the fingerprint of a pool
\* that had every registration and deletion in it that was complete when it was
\* asked for, whatever threads filled the memo in whatever order meanwhile
\* (registry_fingerprint.py: memoized "per (store, reusable-pool epoch)").
FingerprintFresh ==
  \A t \in Threads :
    pc[t] = "answered" /\ mem[t].ok =>
      \E i \in mem[t].need..Len(pools) : mem[t].version = pools[i]

\* A motif id that was handed out can be used for as long as nobody deletes it:
\* it is persisted, or its write-through failed and this process has it in
\* MOTIFS until it is restarted (registry.py, register_motif).
ServedUsable ==
  served \ deleted \subseteq store \cup (unsaved \cap motifs)

\* The thread that deletes id has still to evict it or flush it.
Deleting(id) ==
  \E t \in Threads : mem[t].id = id /\ pc[t] \in {"evict", "flush"}

\* A motif that was deleted while nobody was at work on it, and that nobody made
\* again, is neither in the store nor in MOTIFS nor under a spec, and no lazy load
\* brings it back (registry.py, delete_motif; test_motif_pool.py,
\* test_delete_removes_from_store_memory_and_caches).
DeletedStaysGone ==
  \A id \in gone :
    /\ id \notin store
    /\ ~Deleting(id) => /\ id \notin motifs
                        /\ \A k \in SpecKeys : frozen[k] # id

-----------------------------------------------------------------------------
(* What the documents say and the code does not do.                        *)

\* The caches that map a spec or a prompt to a motif id are flushed, so a deleted
\* motif can never be served again from a warm cache (registry.py, delete_motif).
DeletedNotServed ==
  \A id \in gone : ~Deleting(id) => \A k \in Keys : frozen[k] # id
==============================================================================
