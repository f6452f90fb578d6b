------------------------------- MODULE Generate -------------------------------
(***************************************************************************)
(* The stateless path of src/app/api/routes/generate.py: a request is      *)
(* stamped with the motif pool, looked up in the response cache, authored, *)
(* resolved, composed, rendered and stored.  The coroutine of a request    *)
(* runs on the event loop, so what it does between two awaits is one       *)
(* action; adapters run in worker threads, so embed_query                  *)
(* (src/app/adapters/embedding.py) is cut wherever a thread may switch.    *)
(*                                                                         *)
(* MotifRegistry models the pool and its fingerprint, Resolver how a spec  *)
(* becomes a motif, Candidates the set that is composed: here the          *)
(* fingerprint is the set of ids, a deletion is one step, a request needs  *)
(* one motif, and the response is what was made of it.  A store and        *)
(* previews are configured.                                                *)
(***************************************************************************)
EXTENDS Integers, FiniteSets, Sequences

CONSTANTS
  Handlers,    \* requests in service at once
  Prompts,     \* requests by prompt, or with images
  Intents,     \* requests with an intent of their own
  MotifOf,     \* the motif such an intent names
  Motifs, Texts,
  None,        \* no request, no text, no motif
  CacheSize,   \* Settings.generate_cache_size
  EmbedSize,   \* EMBEDDING_CACHE_MAX_SIZE
  MaxRequests, \* bound: requests in all
  MaxMoves     \* bound: changes of the pool by others

ASSUME HandlersAssumption == IsFiniteSet(Handlers)
ASSUME SizesAssumption ==
  CacheSize \in Nat /\ EmbedSize \in Nat /\ MaxRequests \in Nat /\ MaxMoves \in Nat
ASSUME MotifsAssumption == MotifOf \in [Intents -> Motifs] /\ None \notin Motifs

VARIABLES
  store,     \* ids of the motif store
  motifs,    \* MOTIFS
  gone,      \* motifs deleted and not registered since
  cache,     \* _RESPONSE_CACHE, oldest first: [key, response]
  embeds,    \* _embedding_cache, oldest first: [key]
  pc,        \* where each handler is
  mem,       \* what its coroutine holds
  requests, moves, \* number of requests and of changes by others
  answers,   \* the responses made: [key, response]
  replays,   \* those given from the cache: [key, response, gone]
  lost       \* number of lookups of an embedding that ended in a KeyError
pools == <<store, motifs, gone>>
given == <<answers, replays>>
vars  == <<pools, cache, embeds, pc, mem, requests, moves, given, lost>>

Requests == Prompts \cup Intents

\* The request and its number (request_id, part of every url), the stamp, replies of
\* the model, the text embedded for it, its motif, and what was gone when it came and
\* has not been registered again.
Blank == [request |-> None, n |-> 0, stamp |-> {}, asks |-> 0, text |-> None,
          motif |-> None, gone |-> {}]

\* Mutant: the fingerprint is left out.
KeyOfRequest(m) == [request |-> m.request, stamp |-> {}]

\* cache_key of the request and the registry version.
Key(m) == [request |-> m.request, stamp |-> m.stamp]

\* What the client gets, whether every preview has a url, and the ids it was stamped with.
Response(m, whole) == [n |-> m.n, motif |-> m.motif, found |-> m.stamp, whole |-> whole]

Answer(key, response) == [key |-> key, response |-> response]

-----------------------------------------------------------------------------
\* OrderedDict: a sequence of records with different keys

HasKey(s, key) == \E i \in DOMAIN s : s[i].key = key
Index(s, key)  == CHOOSE i \in DOMAIN s : s[i].key = key

Stored(s, e) == IF HasKey(s, e.key) THEN [s EXCEPT ![Index(s, e.key)] = e] ELSE Append(s, e)

ToEnd(s, i) ==
  [j \in DOMAIN s |-> IF j < i THEN s[j] ELSE IF j < Len(s) THEN s[j + 1] ELSE s[i]]

\* Mutant: one entry too many stays.
TrimmedLate(s, size) == IF Len(s) > size + 1 THEN Tail(s) ELSE s

\* popitem(last=False) when there are too many.
Trimmed(s, size) == IF Len(s) > size THEN Tail(s) ELSE s

-----------------------------------------------------------------------------
Init ==
  /\ store = {} /\ motifs = {} /\ gone = {} /\ cache = <<>> /\ embeds = <<>>
  /\ pc = [h \in Handlers |-> "idle"]
  /\ mem = [h \in Handlers |-> Blank]
  /\ requests = 0 /\ moves = 0 /\ answers = {} /\ replays = {} /\ lost = 0

Goto(h, to) == pc' = [pc EXCEPT ![h] = to]

\* The response goes out, or the error.
Leave(h) == Goto(h, "idle") /\ mem' = [mem EXCEPT ![h] = Blank]

Arrive(h) ==
  /\ pc[h] = "idle" /\ requests < MaxRequests
  /\ Goto(h, "stamp")
  /\ requests' = requests + 1
  /\ \E r \in Requests :
       mem' = [mem EXCEPT ![h] = [Blank EXCEPT !.request = r, !.n = requests', !.gone = gone]]
  /\ UNCHANGED <<pools, cache, embeds, moves, given, lost>>

\* registry_version_for, in a worker thread: the ids of the store, or, when the store
\* does not answer, the version an empty store has.
Stamp(h) ==
  /\ pc[h] = "stamp"
  /\ \E ids \in {store, {}} : mem' = [mem EXCEPT ![h].stamp = ids]
  /\ Goto(h, "lookup")
  /\ UNCHANGED <<pools, cache, embeds, requests, moves, given, lost>>

Hit(h) ==
  /\ pc[h] = "lookup" /\ HasKey(cache, Key(mem[h]))
  /\ LET i == Index(cache, Key(mem[h]))
     IN /\ cache' = ToEnd(cache, i)
        /\ replays' = replays \cup {[key |-> Key(mem[h]), response |-> cache[i].response,
                                    gone |-> mem[h].gone]}
  /\ Leave(h)
  /\ UNCHANGED <<pools, embeds, requests, moves, answers, lost>>

\* An intent of the caller's names its motifs itself.
MissIntent(h) ==
  /\ pc[h] = "lookup" /\ mem[h].request \in Intents /\ ~HasKey(cache, Key(mem[h]))
  /\ mem' = [mem EXCEPT ![h].motif = MotifOf[mem[h].request]]
  /\ Goto(h, "compose")
  /\ UNCHANGED <<pools, cache, embeds, requests, moves, given, lost>>

MissPrompt(h) ==
  /\ pc[h] = "lookup" /\ mem[h].request \in Prompts /\ ~HasKey(cache, Key(mem[h]))
  /\ Goto(h, "ask")
  /\ UNCHANGED <<pools, cache, embeds, mem, requests, moves, given, lost>>

\* build_intents without its cache: no design of the reply is valid, once.
AskAgain(h) ==
  /\ pc[h] = "ask" /\ mem[h].asks = 0
  /\ mem' = [mem EXCEPT ![h].asks = 1]
  /\ UNCHANGED <<pools, cache, embeds, pc, requests, moves, given, lost>>

\* A second invalid reply is a 422, a client that fails a 502 at any time.
AskFails(h) ==
  /\ pc[h] = "ask"
  /\ Leave(h)
  /\ UNCHANGED <<pools, cache, embeds, requests, moves, given, lost>>

\* A valid design, with a spec; its query text is what is embedded.
Author(h) ==
  /\ pc[h] = "ask"
  /\ \E t \in Texts : mem' = [mem EXCEPT ![h].text = t]
  /\ Goto(h, "embed")
  /\ UNCHANGED <<pools, cache, embeds, requests, moves, given, lost>>

\* embed_query: `key in _embedding_cache`
EmbedLookup(h) ==
  /\ pc[h] = "embed"
  /\ Goto(h, IF HasKey(embeds, mem[h].text) THEN "touch" ELSE "call")
  /\ UNCHANGED <<pools, cache, embeds, mem, requests, moves, given, lost>>

\* move_to_end: a KeyError, which nobody catches, if it is gone by now.
Touch(h, from, to) ==
  /\ pc[h] = from
  /\ IF HasKey(embeds, mem[h].text)
     THEN /\ embeds' = ToEnd(embeds, Index(embeds, mem[h].text))
          /\ Goto(h, to)
          /\ UNCHANGED <<mem, lost>>
     ELSE /\ lost' = lost + 1
          /\ Leave(h)
          /\ UNCHANGED embeds
  /\ UNCHANGED <<pools, cache, requests, moves, given>>

EmbedTouch(h) == Touch(h, "touch", "read")

\* The entry is looked up once more, and may be gone again.
EmbedRead(h) ==
  /\ pc[h] = "read"
  /\ IF HasKey(embeds, mem[h].text)
     THEN Goto(h, "pick") /\ UNCHANGED <<mem, lost>>
     ELSE lost' = lost + 1 /\ Leave(h)
  /\ UNCHANGED <<pools, cache, embeds, requests, moves, given>>

\* No client, or an EmbeddingError: the resolver goes on without a vector.
EmbedFails(h) ==
  /\ pc[h] = "call"
  /\ Goto(h, "pick")
  /\ UNCHANGED <<pools, cache, embeds, mem, requests, moves, given, lost>>

EmbedStore(h) ==
  /\ pc[h] = "call"
  /\ embeds' = Stored(embeds, [key |-> mem[h].text])
  /\ Goto(h, "stored")
  /\ UNCHANGED <<pools, cache, mem, requests, moves, given, lost>>

EmbedTouchStored(h) == Touch(h, "stored", "check")

EmbedCheck(h) ==
  /\ pc[h] = "check"
  /\ Goto(h, IF Len(embeds) > EmbedSize THEN "pop" ELSE "pick")
  /\ UNCHANGED <<pools, cache, embeds, mem, requests, moves, given, lost>>

\* popitem; of an empty dictionary it is a KeyError too.
EmbedPop(h) ==
  /\ pc[h] = "pop"
  /\ IF embeds = <<>>
     THEN lost' = lost + 1 /\ Leave(h) /\ UNCHANGED embeds
     ELSE embeds' = Tail(embeds) /\ Goto(h, "pick") /\ UNCHANGED <<mem, lost>>
  /\ UNCHANGED <<pools, cache, requests, moves, given>>

-----------------------------------------------------------------------------
\* register_motif: the row may fail to be written.
Registered(m) ==
  /\ store' \in {store, store \cup {m}} /\ motifs' = motifs \cup {m}
  /\ gone' = gone \ {m}

\* The motif is there again for every request in service.
Returned(m) == [h \in Handlers |-> [mem[h] EXCEPT !.gone = @ \ {m}]]

\* resolve_motifs: a motif of the store, or one that a cache of the resolver names,
\* gone or not.
Reuse(h) ==
  /\ pc[h] = "pick"
  /\ \E m \in Motifs : mem' = [mem EXCEPT ![h].motif = m]
  /\ Goto(h, "compose")
  /\ UNCHANGED <<pools, cache, embeds, requests, moves, given, lost>>

\* resolve_motifs: a motif that is made for the request.
Make(h) ==
  /\ pc[h] = "pick"
  /\ \E m \in Motifs : Registered(m) /\ mem' = [Returned(m) EXCEPT ![h].motif = m]
  /\ Goto(h, "compose")
  /\ UNCHANGED <<cache, embeds, requests, moves, given, lost>>

\* 422 or 502
PickFails(h) ==
  /\ pc[h] = "pick"
  /\ Leave(h)
  /\ UNCHANGED <<pools, cache, embeds, requests, moves, given, lost>>

\* generate_candidate_set, on the event loop; get_motif loads what MOTIFS lacks.
Compose(h) ==
  /\ pc[h] = "compose" /\ mem[h].motif \in motifs \cup store
  /\ motifs' = motifs \cup {mem[h].motif}
  /\ Goto(h, "render")
  /\ UNCHANGED <<store, gone, cache, embeds, mem, requests, moves, given, lost>>

\* A motif that cannot be found or loaded: 500; a refused intent: 422.
ComposeFails(h) ==
  /\ pc[h] = "compose"
  /\ Leave(h)
  /\ UNCHANGED <<pools, cache, embeds, requests, moves, given, lost>>

\* Mutant: a response without its previews is kept.
StorableAny(response) == CacheSize > 0

Storable(response) == CacheSize > 0 /\ response.whole

Kept(key, response) ==
  LET with == Stored(cache, [key |-> key, response |-> response])
  IN Trimmed(ToEnd(with, Index(with, key)), CacheSize)

\* render_previews, and what follows it on the event loop.
Render(h) ==
  /\ pc[h] = "render"
  /\ \E whole \in BOOLEAN :
       LET response == Response(mem[h], whole)
       IN /\ cache' = IF Storable(response) THEN Kept(Key(mem[h]), response) ELSE cache
          /\ answers' = answers \cup {Answer(Key(mem[h]), response)}
  /\ Leave(h)
  /\ UNCHANGED <<pools, embeds, requests, moves, replays, lost>>

-----------------------------------------------------------------------------
\* Sessions, uploads and deletions.
OthersAdd ==
  /\ moves < MaxMoves
  /\ moves' = moves + 1
  /\ \E m \in Motifs \ store : Registered(m) /\ mem' = Returned(m)
  /\ UNCHANGED <<cache, embeds, pc, requests, given, lost>>

OthersDelete ==
  /\ moves < MaxMoves
  /\ moves' = moves + 1
  /\ \E m \in store \cup motifs :
       /\ store' = store \ {m} /\ motifs' = motifs \ {m}
       /\ gone' = gone \cup {m}
  /\ UNCHANGED <<cache, embeds, pc, mem, requests, given, lost>>

Serve(h) ==
  \/ Arrive(h) \/ Stamp(h) \/ Hit(h) \/ MissIntent(h) \/ MissPrompt(h)
  \/ AskAgain(h) \/ AskFails(h) \/ Author(h)
  \/ EmbedLookup(h) \/ EmbedTouch(h) \/ EmbedRead(h) \/ EmbedFails(h) \/ EmbedStore(h)
  \/ EmbedTouchStored(h) \/ EmbedCheck(h) \/ EmbedPop(h)
  \/ Reuse(h) \/ Make(h) \/ PickFails(h) \/ Compose(h) \/ ComposeFails(h) \/ Render(h)

Next == OthersAdd \/ OthersDelete \/ \E h \in Handlers : Serve(h)

Spec == Init /\ [][Next]_vars

-----------------------------------------------------------------------------
(* What the cache serves was answered before to an equal request under an   *)
(* equal fingerprint, with a url for every candidate: entries moved,        *)
(* replaced by a concurrent miss or pushed out in between never mix up.     *)
HitIsReplay ==
  \A r \in replays : r.response.whole /\ Answer(r.key, r.response) \in answers

(* The key moves with the pool: a response that was drawn from a motif of   *)
(* its fingerprint is not given again to a request that came when the motif *)
(* had been deleted, unless the motif was registered in between.  A motif   *)
(* its own request made, or one drawn while the store did not answer, is    *)
(* not in the fingerprint, and nothing is said of it (generate_candidate    *)
(* reads the fingerprint before it resolves).                               *)
DeletedNotReplayed ==
  \A r \in replays : r.response.motif \in r.response.found => r.response.motif \notin r.gone

Trimming == {h \in Handlers : pc[h] \in {"stored", "check", "pop"}}

(* The response cache keeps to its size whatever misses come together; the  *)
(* embedding cache, filled by threads that store, look and pop in any       *)
(* order, exceeds its own by no more than the threads that still have to    *)
(* trim it and those a KeyError has kept from it.                           *)
CachesBounded ==
  /\ Len(cache) <= CacheSize
  /\ Len(embeds) <= EmbedSize + Cardinality(Trimming) + lost
=============================================================================
