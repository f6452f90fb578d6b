---------------------------- MODULE GenerateProofs ----------------------------
(***************************************************************************)
(* The caches of the stateless path, for any number of handlers, any sizes *)
(* and any bounds.                                                         *)
(***************************************************************************)
EXTENDS Generate, FiniteSetTheorems, TLAPS

Keys      == [request : Requests \cup {None}, stamp : SUBSET Motifs]
Responses == [n : Nat, motif : Motifs \cup {None}, found : SUBSET Motifs, whole : BOOLEAN]
Entries   == [key : Keys, response : Responses]
Vectors   == [key : Texts \cup {None}]
Memory    == [request : Requests \cup {None}, n : Nat, stamp : SUBSET Motifs, asks : {0, 1},
              text : Texts \cup {None}, motif : Motifs \cup {None}, gone : SUBSET Motifs]

Places == {"idle", "stamp", "lookup", "ask", "embed", "touch", "read", "call", "stored", "check",
           "pop", "pick", "compose", "render"}

TypeOK ==
  /\ store \in SUBSET Motifs /\ motifs \in SUBSET Motifs /\ gone \in SUBSET Motifs
  /\ cache \in Seq(Entries) /\ embeds \in Seq(Vectors)
  /\ pc \in [Handlers -> Places] /\ mem \in [Handlers -> Memory]
  /\ requests \in Nat /\ moves \in Nat /\ lost \in Nat

(* What a request knows to be gone is not in its fingerprint.               *)
GoneKnown ==
  /\ gone \cap store = {}
  /\ \A h \in Handlers : mem[h].gone \subseteq gone /\ mem[h].gone \cap mem[h].stamp = {}

(* Every entry is a whole response that was given under its key.            *)
CacheSound ==
  \A i \in DOMAIN cache :
    /\ cache[i].response.whole /\ cache[i].response.found = cache[i].key.stamp
    /\ Answer(cache[i].key, cache[i].response) \in answers

-----------------------------------------------------------------------------
(* An entry that is stored keeps the others, and adds at most one.          *)
LEMMA StoredKeeps ==
  ASSUME NEW S, NEW s \in Seq(S), NEW e \in S
  PROVE  /\ Stored(s, e) \in Seq(S) /\ Len(Stored(s, e)) <= Len(s) + 1
         /\ HasKey(Stored(s, e), e.key)
         /\ \A i \in DOMAIN Stored(s, e) : Stored(s, e)[i] = e \/ \E j \in DOMAIN s : Stored(s, e)[i] = s[j]
<1>1. CASE HasKey(s, e.key)
  <2> DEFINE at == Index(s, e.key)
  <2>1. at \in DOMAIN s  BY <1>1 DEF HasKey, Index
  <2>2. Stored(s, e) = [s EXCEPT ![at] = e]  BY <1>1 DEF Stored
  <2> HIDE DEF at
  <2>3. Stored(s, e)[at] = e /\ at \in DOMAIN Stored(s, e)  BY <2>1, <2>2
  <2>4. HasKey(Stored(s, e), e.key)  BY <2>3 DEF HasKey
  <2> QED  BY <2>1, <2>2, <2>4
<1>2. CASE ~HasKey(s, e.key)
  <2>1. Stored(s, e) = Append(s, e)  BY <1>2 DEF Stored
  <2>2. Stored(s, e)[Len(s) + 1] = e /\ Len(s) + 1 \in DOMAIN Stored(s, e)  BY <2>1
  <2>3. HasKey(Stored(s, e), e.key)  BY <2>2 DEF HasKey
  <2> QED  BY <2>1, <2>3
<1> QED  BY <1>1, <1>2

(* Moving an entry to the end changes only the order.                       *)
LEMMA ToEndKeeps ==
  ASSUME NEW S, NEW s \in Seq(S), NEW i \in DOMAIN s
  PROVE  /\ ToEnd(s, i) \in Seq(S) /\ Len(ToEnd(s, i)) = Len(s)
         /\ \A k \in DOMAIN ToEnd(s, i) : \E j \in DOMAIN s : ToEnd(s, i)[k] = s[j]
<1>1. DOMAIN ToEnd(s, i) = 1..Len(s)  BY DEF ToEnd
<1>2. ASSUME NEW k \in 1..Len(s)
      PROVE  ToEnd(s, i)[k] \in S /\ \E j \in DOMAIN s : ToEnd(s, i)[k] = s[j]
  <2>1. ToEnd(s, i)[k] = (IF k < i THEN s[k] ELSE IF k < Len(s) THEN s[k + 1] ELSE s[i])
    BY DEF ToEnd
  <2> QED  BY <2>1
<1>3. ToEnd(s, i) = [k \in 1..Len(s) |-> ToEnd(s, i)[k]]  BY DEF ToEnd
<1>4. ToEnd(s, i) \in Seq(S) /\ Len(ToEnd(s, i)) = Len(s)  BY <1>2, <1>3
<1> QED  BY <1>1, <1>2, <1>4

(* Trimming keeps to the size what exceeded it by one.                      *)
LEMMA TrimmedKeeps ==
  ASSUME NEW S, NEW s \in Seq(S), NEW size \in Nat
  PROVE  /\ Trimmed(s, size) \in Seq(S)
         /\ Len(s) <= size + 1 => Len(Trimmed(s, size)) <= size
         /\ \A k \in DOMAIN Trimmed(s, size) : \E j \in DOMAIN s : Trimmed(s, size)[k] = s[j]
<1>1. CASE Len(s) > size
  <2>1. Trimmed(s, size) = Tail(s) /\ s # <<>>  BY <1>1 DEF Trimmed
  <2> QED  BY <2>1, <1>1
<1>2. CASE ~(Len(s) > size)
  BY <1>2 DEF Trimmed
<1> QED  BY <1>1, <1>2

LEMMA IndexInDomain ==
  ASSUME NEW s, NEW key, HasKey(s, key)
  PROVE  Index(s, key) \in DOMAIN s /\ s[Index(s, key)].key = key
BY DEF HasKey, Index

(* What is in the cache after a response is kept.                           *)
LEMMA KeptKeeps ==
  ASSUME cache \in Seq(Entries), NEW key \in Keys, NEW response \in Responses
  PROVE  /\ Kept(key, response) \in Seq(Entries)
         /\ Len(cache) <= CacheSize => Len(Kept(key, response)) <= CacheSize
         /\ \A k \in DOMAIN Kept(key, response) :
              \/ Kept(key, response)[k] = [key |-> key, response |-> response]
              \/ \E j \in DOMAIN cache : Kept(key, response)[k] = cache[j]
<1> DEFINE e    == [key |-> key, response |-> response]
           with == Stored(cache, e)
           at   == Index(with, key)
           end  == ToEnd(with, at)
<1>1. e \in Entries /\ e.key = key  BY DEF Entries
<1> HIDE DEF e
<1>2. /\ with \in Seq(Entries) /\ Len(with) <= Len(cache) + 1 /\ HasKey(with, key)
      /\ \A i \in DOMAIN with : with[i] = e \/ \E j \in DOMAIN cache : with[i] = cache[j]
  <2>1. HasKey(with, e.key)  BY <1>1, StoredKeeps
  <2> QED  BY <2>1, <1>1, StoredKeeps
<1>3. Kept(key, response) = Trimmed(end, CacheSize)  BY DEF Kept, e
<1> HIDE DEF with
<1>4. at \in DOMAIN with  BY <1>2, IndexInDomain
<1> HIDE DEF at
<1>5. /\ end \in Seq(Entries) /\ Len(end) = Len(with)
      /\ \A k \in DOMAIN end : \E j \in DOMAIN with : end[k] = with[j]
  BY <1>2, <1>4, ToEndKeeps
<1> HIDE DEF end
<1>6. /\ Trimmed(end, CacheSize) \in Seq(Entries)
      /\ Len(end) <= CacheSize + 1 => Len(Trimmed(end, CacheSize)) <= CacheSize
      /\ \A k \in DOMAIN Trimmed(end, CacheSize) : \E j \in DOMAIN end : Trimmed(end, CacheSize)[k] = end[j]
  BY <1>5, TrimmedKeeps, SizesAssumption
<1>7. Len(cache) <= CacheSize => Len(end) <= CacheSize + 1  BY <1>2, <1>5, SizesAssumption
<1>8. \A k \in DOMAIN Trimmed(end, CacheSize) :
        Trimmed(end, CacheSize)[k] = e \/ \E j \in DOMAIN cache : Trimmed(end, CacheSize)[k] = cache[j]
  BY <1>2, <1>5, <1>6
<1> QED  BY <1>3, <1>6, <1>7, <1>8 DEF e

-----------------------------------------------------------------------------
(* Every state is of these types.                                           *)
LEMMA KeyType == ASSUME NEW m \in Memory PROVE Key(m) \in Keys
BY DEF Memory, Keys, Key

LEMMA ResponseType ==
  ASSUME NEW m \in Memory, NEW whole \in BOOLEAN PROVE Response(m, whole) \in Responses
BY DEF Memory, Responses, Response

LEMMA BlankType == Blank \in Memory
BY DEF Blank, Memory

LEMMA ReturnedType ==
  ASSUME mem \in [Handlers -> Memory], NEW m \in Motifs
  PROVE  Returned(m) \in [Handlers -> Memory]
BY DEF Returned, Memory

LEMMA RegisteredType ==
  ASSUME TypeOK, NEW m \in Motifs, Registered(m)
  PROVE  store' \in SUBSET Motifs /\ motifs' \in SUBSET Motifs /\ gone' \in SUBSET Motifs
BY DEF TypeOK, Registered

LEMMA LeaveType ==
  ASSUME TypeOK, NEW h \in Handlers, Leave(h)
  PROVE  pc' \in [Handlers -> Places] /\ mem' \in [Handlers -> Memory]
BY BlankType DEF TypeOK, Leave, Goto, Places

LEMMA TypeInit == Init => TypeOK
BY BlankType DEF Init, TypeOK, Places

LEMMA TypeTouch ==
  ASSUME TypeOK, NEW h \in Handlers, NEW from, NEW to \in Places, Touch(h, from, to)
  PROVE  TypeOK'
<1>1. CASE HasKey(embeds, mem[h].text)
  <2> DEFINE at == Index(embeds, mem[h].text)
  <2>1. at \in DOMAIN embeds  BY <1>1, IndexInDomain
  <2>2. embeds' = ToEnd(embeds, at) /\ Goto(h, to) /\ UNCHANGED <<mem, lost>>
    BY <1>1 DEF Touch
  <2> HIDE DEF at
  <2>3. embeds' \in Seq(Vectors)  BY <2>1, <2>2, ToEndKeeps DEF pools, TypeOK
  <2> QED  BY <2>2, <2>3 DEF pools, TypeOK, Touch, Goto
<1>2. CASE ~HasKey(embeds, mem[h].text)
  BY <1>2, LeaveType DEF Touch, pools, TypeOK
<1> QED  BY <1>1, <1>2

LEMMA TypeStep ==
  ASSUME TypeOK, [Next]_vars
  PROVE  TypeOK'
<1> USE DEF Places
<1>1. CASE OthersAdd
  <2>1. PICK m \in Motifs \ store : Registered(m) /\ mem' = Returned(m)  BY <1>1 DEF OthersAdd
  <2>2. store' \in SUBSET Motifs /\ motifs' \in SUBSET Motifs /\ gone' \in SUBSET Motifs
    BY <2>1, RegisteredType
  <2> QED  BY <1>1, <2>1, <2>2, ReturnedType DEF OthersAdd, TypeOK
<1>2. CASE OthersDelete  BY <1>2 DEF OthersDelete, TypeOK
<1>3. ASSUME NEW h \in Handlers, Serve(h) PROVE TypeOK'
  <2>1. CASE Arrive(h)
    <3> DEFINE new(r) == [Blank EXCEPT !.request = r, !.n = requests', !.gone = gone]
    <3>1. PICK r \in Requests : mem' = [mem EXCEPT ![h] = new(r)]
      BY <2>1 DEF Arrive
    <3>2. requests' \in Nat  BY <2>1 DEF Arrive, pools, TypeOK
    <3>3. new(r) \in Memory
      BY <3>2 DEF Blank, Memory, pools, TypeOK
    <3> HIDE DEF new
    <3> QED  BY <2>1, <3>1, <3>2, <3>3 DEF Arrive, pools, given, TypeOK, Goto
  <2>2. CASE Stamp(h)
    <3>0. mem[h] \in Memory  BY DEF pools, TypeOK
    <3>1. mem' \in [Handlers -> Memory]
      <4>1. PICK ids \in {store, {}} : mem' = [mem EXCEPT ![h].stamp = ids]  BY <2>2 DEF Stamp
      <4>2. [mem[h] EXCEPT !.stamp = ids] \in Memory  BY <3>0, <4>1 DEF pools, TypeOK, Memory
      <4> QED  BY <4>1, <4>2 DEF pools, TypeOK
    <3> QED  BY <2>2, <3>1 DEF Stamp, pools, TypeOK, Goto
  <2>3. CASE Hit(h)
    <3> DEFINE at == Index(cache, Key(mem[h]))
    <3>1. at \in DOMAIN cache  BY <2>3, IndexInDomain DEF Hit
    <3>2. cache' = ToEnd(cache, at)  BY <2>3 DEF Hit
    <3> HIDE DEF at
    <3>3. cache' \in Seq(Entries)  BY <3>1, <3>2, ToEndKeeps DEF pools, TypeOK
    <3>4. Leave(h) /\ UNCHANGED <<pools, embeds, requests, moves, lost>>  BY <2>3 DEF Hit
    <3>5. pc' \in [Handlers -> Places] /\ mem' \in [Handlers -> Memory]  BY <3>4, LeaveType
    <3> QED  BY <3>3, <3>4, <3>5 DEF pools, TypeOK
  <2>4. CASE MissIntent(h)
    <3>1. MotifOf[mem[h].request] \in Motifs  BY <2>4, MotifsAssumption DEF MissIntent
    <3> DEFINE m == MotifOf[mem[h].request]
    <3>2. mem' = [mem EXCEPT ![h].motif = m] /\ mem[h] \in Memory  BY <2>4 DEF MissIntent, pools, TypeOK
    <3> HIDE DEF m
    <3>3. [mem[h] EXCEPT !.motif = m] \in Memory  BY <3>1, <3>2 DEF Memory, m
    <3>4. mem' \in [Handlers -> Memory]  BY <3>2, <3>3 DEF pools, TypeOK
    <3> QED  BY <2>4, <3>4 DEF MissIntent, pools, TypeOK, Goto
  <2>5. CASE MissPrompt(h)  BY <2>5 DEF MissPrompt, pools, TypeOK, Goto
  <2>6. CASE AskAgain(h)
    <3>0. mem[h] \in Memory  BY DEF pools, TypeOK
    <3>1. mem' \in [Handlers -> Memory]
      <4>1. [mem[h] EXCEPT !.asks = 1] \in Memory  BY <3>0 DEF Memory
      <4> QED  BY <2>6, <4>1 DEF AskAgain, pools, TypeOK
    <3> QED  BY <2>6, <3>1 DEF AskAgain, pools, TypeOK
  <2>7. CASE AskFails(h)  BY <2>7, LeaveType DEF AskFails, pools, TypeOK
  <2>8. CASE Author(h)
    <3>0. mem[h] \in Memory  BY DEF pools, TypeOK
    <3>1. mem' \in [Handlers -> Memory]
      <4>1. PICK t \in Texts : mem' = [mem EXCEPT ![h].text = t]  BY <2>8 DEF Author
      <4>2. [mem[h] EXCEPT !.text = t] \in Memory  BY <3>0 DEF Memory
      <4> QED  BY <4>1, <4>2 DEF pools, TypeOK
    <3> QED  BY <2>8, <3>1 DEF Author, pools, TypeOK, Goto
  <2>9. CASE EmbedLookup(h)  BY <2>9 DEF EmbedLookup, pools, TypeOK, Goto
  <2>10. CASE EmbedTouch(h)  BY <2>10, TypeTouch DEF EmbedTouch
  <2>21. CASE EmbedRead(h)  BY <2>21, LeaveType DEF EmbedRead, pools, TypeOK, Goto
  <2>11. CASE EmbedFails(h)  BY <2>11 DEF EmbedFails, pools, TypeOK, Goto
  <2>12. CASE EmbedStore(h)
    <3>1. [key |-> mem[h].text] \in Vectors  BY DEF pools, TypeOK, Memory, Vectors
    <3>2. embeds' \in Seq(Vectors)  BY <2>12, <3>1, StoredKeeps DEF EmbedStore, pools, TypeOK
    <3> QED  BY <2>12, <3>2 DEF EmbedStore, pools, TypeOK, Goto
  <2>13. CASE EmbedTouchStored(h)  BY <2>13, TypeTouch DEF EmbedTouchStored
  <2>14. CASE EmbedCheck(h)  BY <2>14 DEF EmbedCheck, pools, TypeOK, Goto
  <2>15. CASE EmbedPop(h)
    <3>1. CASE embeds = <<>>
      BY <2>15, <3>1, LeaveType DEF EmbedPop, pools, TypeOK
    <3>2. CASE embeds # <<>>
      <4>1. embeds' = Tail(embeds) /\ Goto(h, "pick") /\ UNCHANGED <<mem, lost>>
        BY <2>15, <3>2 DEF EmbedPop
      <4>2. embeds' \in Seq(Vectors)  BY <4>1, <3>2 DEF pools, TypeOK
      <4> QED  BY <2>15, <4>1, <4>2 DEF EmbedPop, pools, TypeOK, Goto
    <3> QED  BY <3>1, <3>2
  <2>16. CASE Reuse(h)
    <3>0. mem[h] \in Memory  BY DEF pools, TypeOK
    <3>1. PICK m \in Motifs : mem' = [mem EXCEPT ![h].motif = m]  BY <2>16 DEF Reuse
    <3>2. [mem[h] EXCEPT !.motif = m] \in Memory  BY <3>0 DEF Memory
    <3>3. mem' \in [Handlers -> Memory]  BY <3>1, <3>2 DEF pools, TypeOK
    <3> QED  BY <2>16, <3>3 DEF Reuse, pools, TypeOK, Goto
  <2>22. CASE Make(h)
    <3>1. PICK m \in Motifs : Registered(m) /\ mem' = [Returned(m) EXCEPT ![h].motif = m]
      BY <2>22 DEF Make
    <3>2. Returned(m) \in [Handlers -> Memory]  BY ReturnedType DEF pools, TypeOK
    <3>3. mem' \in [Handlers -> Memory]  BY <3>1, <3>2 DEF Memory
    <3>4. store' \in SUBSET Motifs /\ motifs' \in SUBSET Motifs /\ gone' \in SUBSET Motifs
      BY <3>1, RegisteredType
    <3> QED  BY <2>22, <3>3, <3>4 DEF Make, pools, TypeOK, Goto
  <2>17. CASE PickFails(h)  BY <2>17, LeaveType DEF PickFails, pools, TypeOK
  <2>18. CASE Compose(h)  BY <2>18 DEF Compose, pools, TypeOK, Goto
  <2>19. CASE ComposeFails(h)  BY <2>19, LeaveType DEF ComposeFails, pools, TypeOK
  <2>20. CASE Render(h)
    <3>1. PICK whole \in BOOLEAN :
            cache' = IF Storable(Response(mem[h], whole)) THEN Kept(Key(mem[h]), Response(mem[h], whole)) ELSE cache
      BY <2>20 DEF Render
    <3>2. Key(mem[h]) \in Keys /\ Response(mem[h], whole) \in Responses
      BY KeyType, ResponseType DEF pools, TypeOK
    <3>3. Kept(Key(mem[h]), Response(mem[h], whole)) \in Seq(Entries)
      BY <3>2, KeptKeeps DEF pools, TypeOK
    <3>4. cache' \in Seq(Entries)  BY <3>1, <3>3 DEF pools, TypeOK
    <3> QED  BY <2>20, <3>4, LeaveType DEF Render, pools, TypeOK
  <2> QED
    BY <1>3, <2>1, <2>2, <2>3, <2>4, <2>5, <2>6, <2>7, <2>8, <2>9, <2>10, <2>11, <2>12,
       <2>13, <2>14, <2>15, <2>16, <2>17, <2>18, <2>19, <2>20, <2>21, <2>22 DEF Serve
<1>4. CASE UNCHANGED vars  BY <1>4 DEF vars, pools, TypeOK
<1> QED  BY <1>1, <1>2, <1>3, <1>4 DEF Next

(* Generate keeps to its types: every state is made of handlers at one of   *)
(* their places, entries of the caches and motifs.                          *)
THEOREM GenerateType == Spec => []TypeOK
<1>1. Init => TypeOK  BY TypeInit
<1>2. TypeOK /\ [Next]_vars => TypeOK'  BY TypeStep
<1> QED  BY <1>1, <1>2, PTL DEF Spec

-----------------------------------------------------------------------------
LEMMA LeaveEffect ==
  ASSUME TypeOK, NEW h \in Handlers, Leave(h), NEW k \in Handlers
  PROVE  IF k = h THEN pc'[k] = "idle" ELSE pc'[k] = pc[k] /\ mem'[k] = mem[k]
BY DEF TypeOK, Leave, Goto

(* A motif that is registered is gone for nobody any more.                  *)
LEMMA GoneRegistered ==
  ASSUME TypeOK, GoneKnown, NEW m \in Motifs, Registered(m),
         \A h \in Handlers : mem'[h].gone = mem[h].gone \ {m} /\ mem'[h].stamp = mem[h].stamp
  PROVE  GoneKnown'
BY DEF GoneKnown, Registered

LEMMA ReturnedEffect ==
  ASSUME TypeOK, NEW m \in Motifs, NEW k \in Handlers
  PROVE  /\ Returned(m)[k].gone = mem[k].gone \ {m} /\ Returned(m)[k].stamp = mem[k].stamp
         /\ Returned(m)[k].text = mem[k].text
<1>1. mem[k] \in Memory  BY DEF TypeOK
<1> QED  BY <1>1 DEF Returned, Memory

(* The steps that change neither the store nor what is gone.                *)
LEMMA GoneKept ==
  ASSUME GoneKnown, gone' = gone, store' = store, NEW h \in Handlers,
         \A k \in Handlers \ {h} : mem'[k] = mem[k],
         mem'[h].gone \subseteq gone, mem'[h].gone \cap mem'[h].stamp = {}
  PROVE  GoneKnown'
BY DEF GoneKnown

LEMMA GoneKnownStep ==
  ASSUME TypeOK, GoneKnown, [Next]_vars
  PROVE  GoneKnown'
<1>t. mem \in [Handlers -> Memory]  BY DEF TypeOK
<1>1. CASE OthersAdd
  <2>1. PICK m \in Motifs \ store : Registered(m) /\ mem' = Returned(m)  BY <1>1 DEF OthersAdd
  <2> QED  BY <2>1, ReturnedEffect, GoneRegistered
<1>2. CASE OthersDelete  BY <1>2 DEF OthersDelete, GoneKnown
<1>3. ASSUME NEW h \in Handlers, Serve(h) PROVE GoneKnown'
  <2>k. mem[h].gone \subseteq gone /\ mem[h].gone \cap mem[h].stamp = {} /\ mem[h] \in Memory
        /\ gone \cap store = {}
    BY <1>t DEF GoneKnown
  <2>s. ASSUME gone' = gone, store' = store, \A k \in Handlers \ {h} : mem'[k] = mem[k],
               mem'[h].gone = mem[h].gone, mem'[h].stamp = mem[h].stamp
        PROVE  GoneKnown'
    BY <2>s, <2>k, GoneKept
  <2>l. ASSUME gone' = gone, store' = store, Leave(h)
        PROVE  GoneKnown'
    <3>1. mem'[h].gone = {} /\ \A k \in Handlers \ {h} : mem'[k] = mem[k]
      BY <1>t, <2>l DEF Leave, Blank
    <3> QED  BY <2>l, <3>1, GoneKept
  <2>1. CASE Arrive(h)
    <3>1. PICK r \in Requests :
            mem' = [mem EXCEPT ![h] = [Blank EXCEPT !.request = r, !.n = requests', !.gone = gone]]
      BY <2>1 DEF Arrive
    <3>2. mem'[h].gone = gone /\ mem'[h].stamp = {} /\ \A k \in Handlers \ {h} : mem'[k] = mem[k]
      BY <1>t, <3>1 DEF Blank
    <3> QED  BY <2>1, <3>2, GoneKept DEF Arrive, pools
  <2>2. CASE Stamp(h)
    <3>1. PICK ids \in {store, {}} : mem' = [mem EXCEPT ![h].stamp = ids]  BY <2>2 DEF Stamp
    <3>2. mem'[h].gone = mem[h].gone /\ mem'[h].stamp = ids /\ \A k \in Handlers \ {h} : mem'[k] = mem[k]
      BY <1>t, <2>k, <3>1 DEF Memory
    <3>3. mem'[h].gone \cap mem'[h].stamp = {}  BY <2>k, <3>1, <3>2
    <3> QED  BY <2>2, <2>k, <3>2, <3>3, GoneKept DEF Stamp, pools
  <2>3. CASE Hit(h) \/ AskFails(h) \/ PickFails(h) \/ ComposeFails(h) \/ Render(h)
    BY <2>3, <2>l DEF Hit, AskFails, PickFails, ComposeFails, Render, pools
  <2>4. CASE MissIntent(h)  BY <1>t, <2>k, <2>4, <2>s DEF MissIntent, pools, Memory
  <2>5. CASE AskAgain(h)  BY <1>t, <2>k, <2>5, <2>s DEF AskAgain, pools, Memory
  <2>6. CASE Author(h)  BY <1>t, <2>k, <2>6, <2>s DEF Author, pools, Memory
  <2>7. CASE Reuse(h)  BY <1>t, <2>k, <2>7, <2>s DEF Reuse, pools, Memory
  <2>8. CASE MissPrompt(h) \/ EmbedLookup(h) \/ EmbedFails(h) \/ EmbedStore(h) \/ EmbedCheck(h)
    BY <2>8, <2>s DEF MissPrompt, EmbedLookup, EmbedFails, EmbedStore, EmbedCheck, pools
  <2>9. CASE EmbedTouch(h) \/ EmbedTouchStored(h)
    BY <2>9, <2>s, <2>l DEF EmbedTouch, EmbedTouchStored, Touch, pools
  <2>10. CASE EmbedRead(h)  BY <2>10, <2>s, <2>l DEF EmbedRead, pools
  <2>11. CASE EmbedPop(h)  BY <2>11, <2>s, <2>l DEF EmbedPop, pools
  <2>12. CASE Make(h)
    <3>1. PICK m \in Motifs : Registered(m) /\ mem' = [Returned(m) EXCEPT ![h].motif = m]
      BY <2>12 DEF Make
    <3>2. ASSUME NEW k \in Handlers
          PROVE  mem'[k].gone = mem[k].gone \ {m} /\ mem'[k].stamp = mem[k].stamp
      <4>1. Returned(m)[k] \in Memory  BY <1>t, ReturnedType
      <4>2. mem'[k].gone = Returned(m)[k].gone /\ mem'[k].stamp = Returned(m)[k].stamp
        BY <3>1, <4>1 DEF Memory, Returned
      <4> QED  BY <4>2, ReturnedEffect
    <3> QED  BY <3>1, <3>2, GoneRegistered
  <2>13. CASE Compose(h)  BY <2>13, <2>s DEF Compose
  <2> QED
    BY <1>3, <2>1, <2>2, <2>3, <2>4, <2>5, <2>6, <2>7, <2>8, <2>9, <2>10, <2>11, <2>12, <2>13
    DEF Serve
<1>4. CASE UNCHANGED vars  BY <1>4 DEF vars, pools, GoneKnown
<1> QED  BY <1>1, <1>2, <1>3, <1>4 DEF Next

-----------------------------------------------------------------------------
(* Only a hit and a rendering touch the cache and what is given.            *)
LEMMA Untouched ==
  ASSUME [Next]_vars
  PROVE  (\E h \in Handlers : Hit(h) \/ Render(h)) \/ (cache' = cache /\ UNCHANGED given)
<1>1. CASE OthersAdd \/ OthersDelete  BY <1>1 DEF OthersAdd, OthersDelete
<1>2. ASSUME NEW h \in Handlers, Serve(h)
      PROVE  Hit(h) \/ Render(h) \/ (cache' = cache /\ UNCHANGED given)
  <2>1. CASE Arrive(h) \/ Stamp(h) \/ MissIntent(h) \/ MissPrompt(h) \/ AskAgain(h) \/ AskFails(h)
    BY <2>1 DEF Arrive, Stamp, MissIntent, MissPrompt, AskAgain, AskFails
  <2>2. CASE \/ Author(h) \/ EmbedLookup(h) \/ EmbedTouch(h) \/ EmbedRead(h) \/ EmbedFails(h)
             \/ EmbedStore(h) \/ EmbedTouchStored(h) \/ EmbedCheck(h) \/ EmbedPop(h)
    BY <2>2 DEF Author, EmbedLookup, EmbedTouch, EmbedRead, EmbedFails, EmbedStore,
                EmbedTouchStored, EmbedCheck, EmbedPop, Touch
  <2>3. CASE Reuse(h) \/ Make(h) \/ PickFails(h) \/ Compose(h) \/ ComposeFails(h)
    BY <2>3 DEF Reuse, Make, PickFails, Compose, ComposeFails
  <2> QED  BY <1>2, <2>1, <2>2, <2>3 DEF Serve
<1>3. CASE UNCHANGED vars  BY <1>3 DEF vars
<1> QED  BY <1>1, <1>2, <1>3 DEF Next

LEMMA HitEffect ==
  ASSUME TypeOK, NEW h \in Handlers, Hit(h)
  PROVE  /\ Len(cache') = Len(cache)
         /\ \A k \in DOMAIN cache' : \E j \in DOMAIN cache : cache'[k] = cache[j]
         /\ answers' = answers
         /\ \E i \in DOMAIN cache :
              /\ cache[i].key = Key(mem[h])
              /\ replays' = replays \cup {[key |-> cache[i].key, response |-> cache[i].response,
                                           gone |-> mem[h].gone]}
<1> DEFINE at == Index(cache, Key(mem[h]))
<1>1. at \in DOMAIN cache /\ cache[at].key = Key(mem[h])  BY IndexInDomain DEF Hit
<1>2. /\ cache' = ToEnd(cache, at) /\ answers' = answers
      /\ replays' = replays \cup {[key |-> Key(mem[h]), response |-> cache[at].response,
                                   gone |-> mem[h].gone]}
  BY DEF Hit
<1> HIDE DEF at
<1>4. Len(cache') = Len(cache) /\ \A k \in DOMAIN cache' : \E j \in DOMAIN cache : cache'[k] = cache[j]
  BY <1>1, <1>2, ToEndKeeps DEF TypeOK
<1> QED  BY <1>1, <1>2, <1>4

LEMMA RenderEffect ==
  ASSUME TypeOK, NEW h \in Handlers, Render(h)
  PROVE  \E whole \in BOOLEAN :
           LET response == Response(mem[h], whole)
           IN /\ answers' = answers \cup {Answer(Key(mem[h]), response)} /\ replays' = replays
              /\ Len(cache) <= CacheSize => Len(cache') <= CacheSize
              /\ \A k \in DOMAIN cache' :
                   \/ cache'[k] = [key |-> Key(mem[h]), response |-> response] /\ response.whole
                   \/ \E j \in DOMAIN cache : cache'[k] = cache[j]
<1>1. PICK whole \in BOOLEAN :
        /\ cache' = IF Storable(Response(mem[h], whole)) THEN Kept(Key(mem[h]), Response(mem[h], whole)) ELSE cache
        /\ answers' = answers \cup {Answer(Key(mem[h]), Response(mem[h], whole))} /\ replays' = replays
  BY DEF Render
<1> DEFINE response == Response(mem[h], whole)
<1>2. Key(mem[h]) \in Keys /\ response \in Responses
  BY KeyType, ResponseType DEF TypeOK
<1> HIDE DEF response
<1>3. CASE Storable(response)
  <2>1. cache' = Kept(Key(mem[h]), response) /\ response.whole
    BY <1>1, <1>3 DEF response, Storable
  <2>2. /\ Len(cache) <= CacheSize => Len(cache') <= CacheSize
        /\ \A k \in DOMAIN cache' :
             \/ cache'[k] = [key |-> Key(mem[h]), response |-> response]
             \/ \E j \in DOMAIN cache : cache'[k] = cache[j]
    BY <2>1, <1>2, KeptKeeps DEF TypeOK
  <2> QED  BY <1>1, <2>1, <2>2 DEF response
<1>4. CASE ~Storable(response)
  <2>1. cache' = cache  BY <1>1, <1>4 DEF response
  <2> QED  BY <1>1, <2>1 DEF response
<1> QED  BY <1>3, <1>4

LEMMA CacheSoundStep ==
  ASSUME TypeOK, CacheSound, [Next]_vars
  PROVE  CacheSound'
<1>1. ASSUME NEW h \in Handlers, Hit(h) PROVE CacheSound'
  BY <1>1, HitEffect DEF CacheSound
<1>2. ASSUME NEW h \in Handlers, Render(h) PROVE CacheSound'
  <2>1. PICK whole \in BOOLEAN :
           /\ answers' = answers \cup {Answer(Key(mem[h]), Response(mem[h], whole))}
           /\ \A k \in DOMAIN cache' :
                \/ /\ cache'[k] = [key |-> Key(mem[h]), response |-> Response(mem[h], whole)]
                   /\ Response(mem[h], whole).whole
                \/ \E j \in DOMAIN cache : cache'[k] = cache[j]
    BY <1>2, RenderEffect
  <2> SUFFICES ASSUME NEW k \in DOMAIN cache'
               PROVE  /\ cache'[k].response.whole /\ cache'[k].response.found = cache'[k].key.stamp
                      /\ Answer(cache'[k].key, cache'[k].response) \in answers'
    BY DEF CacheSound
  <2>2. CASE \E j \in DOMAIN cache : cache'[k] = cache[j]
    BY <2>1, <2>2 DEF CacheSound
  <2>3. CASE /\ cache'[k] = [key |-> Key(mem[h]), response |-> Response(mem[h], whole)]
             /\ Response(mem[h], whole).whole
    <3>1. Response(mem[h], whole).found = Key(mem[h]).stamp  BY DEF Response, Key
    <3> QED  BY <2>1, <2>3, <3>1
  <2> QED  BY <2>1, <2>2, <2>3
<1>3. CASE cache' = cache /\ UNCHANGED given  BY <1>3 DEF CacheSound, given
<1> QED  BY <1>1, <1>2, <1>3, Untouched

LEMMA HitIsReplayStep ==
  ASSUME TypeOK, CacheSound, HitIsReplay, [Next]_vars
  PROVE  HitIsReplay'
<1>1. ASSUME NEW h \in Handlers, Hit(h) PROVE HitIsReplay'
  <2>1. PICK i \in DOMAIN cache :
          replays' = replays \cup {[key |-> cache[i].key, response |-> cache[i].response,
                                   gone |-> mem[h].gone]}
    BY <1>1, HitEffect
  <2>2. cache[i].response.whole /\ Answer(cache[i].key, cache[i].response) \in answers
    BY DEF CacheSound
  <2>3. answers' = answers  BY <1>1, HitEffect
  <2> QED  BY <2>1, <2>2, <2>3 DEF HitIsReplay
<1>2. ASSUME NEW h \in Handlers, Render(h) PROVE HitIsReplay'
  <2>1. PICK whole \in BOOLEAN :
          answers' = answers \cup {Answer(Key(mem[h]), Response(mem[h], whole))} /\ replays' = replays
    BY <1>2, RenderEffect
  <2> QED  BY <2>1 DEF HitIsReplay
<1>3. CASE cache' = cache /\ UNCHANGED given  BY <1>3 DEF HitIsReplay, given
<1> QED  BY <1>1, <1>2, <1>3, Untouched

LEMMA DeletedNotReplayedStep ==
  ASSUME TypeOK, CacheSound, GoneKnown, DeletedNotReplayed, [Next]_vars
  PROVE  DeletedNotReplayed'
<1>1. ASSUME NEW h \in Handlers, Hit(h) PROVE DeletedNotReplayed'
  <2>1. PICK i \in DOMAIN cache :
          /\ cache[i].key = Key(mem[h])
          /\ replays' = replays \cup {[key |-> cache[i].key, response |-> cache[i].response,
                                       gone |-> mem[h].gone]}
    BY <1>1, HitEffect
  <2>2. cache[i].response.found = mem[h].stamp  BY <2>1 DEF CacheSound, Key
  <2>3. mem[h].gone \cap mem[h].stamp = {}  BY DEF GoneKnown
  <2> QED  BY <2>1, <2>2, <2>3 DEF DeletedNotReplayed
<1>2. ASSUME NEW h \in Handlers, Render(h) PROVE DeletedNotReplayed'
  BY <1>2 DEF Render, DeletedNotReplayed
<1>3. CASE cache' = cache /\ UNCHANGED given  BY <1>3 DEF DeletedNotReplayed, given
<1> QED  BY <1>1, <1>2, <1>3, Untouched

CacheInv == TypeOK /\ GoneKnown /\ CacheSound /\ HitIsReplay /\ DeletedNotReplayed

(* What makes the properties of the response cache inductive.               *)
LEMMA CacheInvariant == Spec => []CacheInv
<1>1. Init => CacheInv
  BY TypeInit DEF Init, CacheInv, GoneKnown, CacheSound, HitIsReplay, DeletedNotReplayed, Blank
<1>2. CacheInv /\ [Next]_vars => CacheInv'
  BY TypeStep, GoneKnownStep, CacheSoundStep, HitIsReplayStep, DeletedNotReplayedStep
  DEF CacheInv
<1> QED  BY <1>1, <1>2, PTL DEF Spec

(* A hit replays a whole response given before to an equal request under an *)
(* equal fingerprint.                                                       *)
THEOREM GenerateHitIsReplay == Spec => []HitIsReplay
<1>1. CacheInv => HitIsReplay  BY DEF CacheInv
<1> QED  BY <1>1, CacheInvariant, PTL

(* A response drawn from a motif of its fingerprint is not given again to a *)
(* request that came after the motif was deleted: what was gone then and is *)
(* so still cannot be in the fingerprint that the request is looked up by.  *)
THEOREM GenerateDeletedNotReplayed == Spec => []DeletedNotReplayed
<1>1. CacheInv => DeletedNotReplayed  BY DEF CacheInv
<1> QED  BY <1>1, CacheInvariant, PTL

-----------------------------------------------------------------------------
LEMMA TrimmingCount == Cardinality(Trimming) \in Nat /\ IsFiniteSet(Trimming)
<1>1. Trimming \in SUBSET Handlers  BY DEF Trimming
<1>2. IsFiniteSet(Trimming)  BY <1>1, HandlersAssumption, FS_Subset
<1> QED  BY <1>2, FS_CardinalityType

\* The half of CachesBounded that is about the embeddings.
EmbedsBounded == Len(embeds) <= EmbedSize + Cardinality(Trimming) + lost

(* A handler that stores adds an entry and is one more to trim.             *)
LEMMA BoundedStore ==
  ASSUME TypeOK, EmbedsBounded, NEW h \in Handlers, EmbedStore(h)
  PROVE  EmbedsBounded'
<1>1. [key |-> mem[h].text] \in Vectors  BY DEF TypeOK, Memory, Vectors
<1>2. Len(embeds') <= Len(embeds) + 1 /\ Len(embeds') \in Nat
  BY <1>1, StoredKeeps DEF EmbedStore, TypeOK
<1>3. h \notin Trimming /\ Trimming' = Trimming \cup {h} /\ lost' = lost
  BY DEF EmbedStore, Trimming, Goto, TypeOK
<1>4. Cardinality(Trimming') = Cardinality(Trimming) + 1
  BY <1>3, TrimmingCount, FS_AddElement
<1> QED  BY <1>2, <1>3, <1>4, TrimmingCount, SizesAssumption DEF EmbedsBounded, TypeOK

(* One that leaves without trimming is counted as lost.                     *)
LEMMA BoundedTouch ==
  ASSUME TypeOK, EmbedsBounded, NEW h \in Handlers, EmbedTouch(h) \/ EmbedTouchStored(h)
  PROVE  EmbedsBounded'
<1>1. CASE HasKey(embeds, mem[h].text)
  <2> DEFINE at == Index(embeds, mem[h].text)
  <2>1. at \in DOMAIN embeds  BY <1>1, IndexInDomain
  <2>2. embeds' = ToEnd(embeds, at) /\ lost' = lost
    BY <1>1 DEF EmbedTouch, EmbedTouchStored, Touch
  <2> HIDE DEF at
  <2>3. Len(embeds') = Len(embeds)  BY <2>1, <2>2, ToEndKeeps DEF TypeOK
  <2>4. Trimming' = Trimming
    BY <1>1 DEF EmbedTouch, EmbedTouchStored, Touch, Trimming, Goto, TypeOK
  <2> QED  BY <2>2, <2>3, <2>4 DEF EmbedsBounded
<1>2. CASE ~HasKey(embeds, mem[h].text)
  <2>1. embeds' = embeds /\ lost' = lost + 1
    BY <1>2 DEF EmbedTouch, EmbedTouchStored, Touch
  <2>2. Trimming' = Trimming \ {h}
    BY <1>2 DEF EmbedTouch, EmbedTouchStored, Touch, Trimming, Leave, Goto, TypeOK
  <2>3. Cardinality(Trimming') \in Nat /\ Cardinality(Trimming) <= Cardinality(Trimming') + 1
    <3>1. /\ IsFiniteSet(Trimming \ {h})
          /\ Cardinality(Trimming \ {h}) = IF h \in Trimming THEN Cardinality(Trimming) - 1
                                            ELSE Cardinality(Trimming)
      BY TrimmingCount, FS_RemoveElement
    <3>2. Cardinality(Trimming \ {h}) \in Nat  BY <3>1, FS_CardinalityType
    <3> QED  BY <2>2, <3>1, <3>2, TrimmingCount
  <2> QED  BY <2>1, <2>3, TrimmingCount, SizesAssumption DEF EmbedsBounded, TypeOK
<1> QED  BY <1>1, <1>2

LEMMA BoundedRead ==
  ASSUME TypeOK, EmbedsBounded, NEW h \in Handlers, EmbedRead(h)
  PROVE  EmbedsBounded'
<1>1. embeds' = embeds /\ lost' \in {lost, lost + 1}  BY DEF EmbedRead
<1>2. Trimming' = Trimming  BY DEF EmbedRead, Trimming, Leave, Goto, TypeOK
<1> QED  BY <1>1, <1>2, TrimmingCount, SizesAssumption DEF EmbedsBounded, TypeOK

LEMMA BoundedCheck ==
  ASSUME TypeOK, EmbedsBounded, NEW h \in Handlers, EmbedCheck(h)
  PROVE  EmbedsBounded'
<1>1. embeds' = embeds /\ lost' = lost  BY DEF EmbedCheck
<1>2. CASE Len(embeds) > EmbedSize
  <2>1. Trimming' = Trimming  BY <1>2 DEF EmbedCheck, Trimming, Goto, TypeOK
  <2> QED  BY <1>1, <2>1 DEF EmbedsBounded
<1>3. CASE ~(Len(embeds) > EmbedSize)
  <2>1. Trimming' = Trimming \ {h}  BY <1>3 DEF EmbedCheck, Trimming, Goto, TypeOK
  <2>2. Cardinality(Trimming') \in Nat  BY <2>1, TrimmingCount, FS_RemoveElement, FS_CardinalityType
  <2>3. Len(embeds) \in Nat  BY DEF TypeOK
  <2> QED  BY <1>1, <1>3, <2>2, <2>3, SizesAssumption DEF EmbedsBounded, TypeOK
<1> QED  BY <1>2, <1>3

LEMMA BoundedPop ==
  ASSUME TypeOK, EmbedsBounded, NEW h \in Handlers, EmbedPop(h)
  PROVE  EmbedsBounded'
<1>1. h \in Trimming /\ Trimming' = Trimming \ {h}
  BY DEF EmbedPop, Trimming, Leave, Goto, TypeOK
<1>2. Cardinality(Trimming') \in Nat /\ Cardinality(Trimming') = Cardinality(Trimming) - 1
  BY <1>1, TrimmingCount, FS_RemoveElement, FS_CardinalityType
<1>3. CASE embeds = <<>>
  <2>1. Len(embeds') = 0 /\ lost' = lost + 1  BY <1>3 DEF EmbedPop
  <2> QED  BY <2>1, <1>2, SizesAssumption DEF EmbedsBounded, TypeOK
<1>4. CASE embeds # <<>>
  <2>1. embeds' = Tail(embeds) /\ lost' = lost  BY <1>4 DEF EmbedPop
  <2>2. Len(embeds') = Len(embeds) - 1 /\ Len(embeds) \in Nat  BY <1>4, <2>1 DEF TypeOK
  <2> QED  BY <2>1, <2>2, <1>2, TrimmingCount, SizesAssumption DEF EmbedsBounded, TypeOK
<1> QED  BY <1>3, <1>4

LEMMA BoundedStep ==
  ASSUME TypeOK, EmbedsBounded, [Next]_vars
  PROVE  EmbedsBounded'
<1>1. CASE embeds' = embeds /\ lost' = lost /\ Trimming' = Trimming
  BY <1>1 DEF EmbedsBounded
<1>2. CASE OthersAdd  BY <1>1, <1>2 DEF OthersAdd, Trimming
<1>3. CASE OthersDelete  BY <1>1, <1>3 DEF OthersDelete, Trimming
<1>4. ASSUME NEW h \in Handlers, Serve(h) PROVE EmbedsBounded'
  <2> USE DEF Trimming, Goto, TypeOK, Leave
  <2>1. CASE Arrive(h)  BY <1>1, <2>1 DEF Arrive
  <2>2. CASE Stamp(h)  BY <1>1, <2>2 DEF Stamp
  <2>3. CASE Hit(h)  BY <1>1, <2>3 DEF Hit
  <2>4. CASE MissIntent(h)  BY <1>1, <2>4 DEF MissIntent
  <2>5. CASE MissPrompt(h)  BY <1>1, <2>5 DEF MissPrompt
  <2>6. CASE AskAgain(h)  BY <1>1, <2>6 DEF AskAgain
  <2>7. CASE AskFails(h)  BY <1>1, <2>7 DEF AskFails
  <2>8. CASE Author(h)  BY <1>1, <2>8 DEF Author
  <2>9. CASE EmbedLookup(h)  BY <1>1, <2>9 DEF EmbedLookup
  <2>10. CASE EmbedTouch(h) \/ EmbedTouchStored(h)  BY <2>10, BoundedTouch
  <2>11. CASE EmbedFails(h)  BY <1>1, <2>11 DEF EmbedFails
  <2>12. CASE EmbedStore(h)  BY <2>12, BoundedStore
  <2>13. CASE EmbedCheck(h)  BY <2>13, BoundedCheck
  <2>14. CASE EmbedPop(h)  BY <2>14, BoundedPop
  <2>15. CASE Reuse(h) \/ Make(h)  BY <1>1, <2>15 DEF Reuse, Make
  <2>20. CASE EmbedRead(h)  BY <2>20, BoundedRead
  <2>16. CASE PickFails(h)  BY <1>1, <2>16 DEF PickFails
  <2>17. CASE Compose(h)  BY <1>1, <2>17 DEF Compose
  <2>18. CASE ComposeFails(h)  BY <1>1, <2>18 DEF ComposeFails
  <2>19. CASE Render(h)  BY <1>1, <2>19 DEF Render
  <2> QED
    BY <1>4, <2>1, <2>2, <2>3, <2>4, <2>5, <2>6, <2>7, <2>8, <2>9, <2>10, <2>11, <2>12,
       <2>13, <2>14, <2>15, <2>16, <2>17, <2>18, <2>19, <2>20 DEF Serve
<1>5. CASE UNCHANGED vars  BY <1>1, <1>5 DEF vars, Trimming
<1> QED  BY <1>2, <1>3, <1>4, <1>5 DEF Next

LEMMA CacheBoundedStep ==
  ASSUME TypeOK, Len(cache) <= CacheSize, [Next]_vars
  PROVE  Len(cache') <= CacheSize
<1>1. ASSUME NEW h \in Handlers, Hit(h) PROVE Len(cache') <= CacheSize
  BY <1>1, HitEffect
<1>2. ASSUME NEW h \in Handlers, Render(h) PROVE Len(cache') <= CacheSize
  BY <1>2, RenderEffect
<1> QED  BY <1>1, <1>2, Untouched

(* Neither cache grows past its size, but for the entries of the threads    *)
(* that still trim or never got to it.                                      *)
THEOREM GenerateCachesBounded == Spec => []CachesBounded
<1> DEFINE Inv == TypeOK /\ EmbedsBounded /\ Len(cache) <= CacheSize
<1>1. Init => Inv
  <2> SUFFICES ASSUME Init PROVE Inv  OBVIOUS
  <2>1. TypeOK  BY TypeInit
  <2>2. Len(embeds) = 0 /\ Len(cache) = 0 /\ lost = 0  BY DEF Init
  <2> QED  BY <2>1, <2>2, TrimmingCount, SizesAssumption DEF EmbedsBounded
<1>2. Inv /\ [Next]_vars => Inv'
  BY TypeStep, BoundedStep, CacheBoundedStep
<1>3. Inv => CachesBounded  BY DEF CachesBounded, EmbedsBounded
<1> QED  BY <1>1, <1>2, <1>3, PTL DEF Spec

-----------------------------------------------------------------------------
(* Where the KeyErrors come from.                                           *)

(* The threads between the lookup of an embedding and the trim after it.    *)
Embedding   == {h \in Handlers : pc[h] \in {"touch", "read", "call", "stored", "check", "pop"}}
EmbedsAlone == \A g, h \in Embedding : g = h

(* No lookup has failed, and the cache holds one vector too many at most.   *)
NothingLost == lost = 0 /\ Len(embeds) <= EmbedSize + 1

(* A thread finds what it looked up or stored where it left it.             *)
OwnEntry ==
  /\ lost = 0
  /\ \A h \in Handlers :
       /\ pc[h] \in {"touch", "read", "stored"} => HasKey(embeds, mem[h].text)
       /\ pc[h] = "pop" => embeds # <<>>

LEMMA OwnEntryKept ==
  ASSUME OwnEntry, embeds' = embeds, lost' = lost,
         \A h \in Handlers : pc'[h] \in {"touch", "read", "stored", "pop"} =>
           pc'[h] = pc[h] /\ mem'[h].text = mem[h].text
  PROVE  OwnEntry'
BY DEF OwnEntry

(* What is moved is still there.                                            *)
LEMMA ToEndHasKey ==
  ASSUME NEW s \in Seq(Vectors), NEW key, HasKey(s, key)
  PROVE  HasKey(ToEnd(s, Index(s, key)), key)
<1> DEFINE at == Index(s, key)
<1>1. at \in DOMAIN s /\ s[at].key = key  BY IndexInDomain
<1> HIDE DEF at
<1>2. Len(s) \in DOMAIN ToEnd(s, at) /\ ToEnd(s, at)[Len(s)] = s[at]
  BY <1>1 DEF ToEnd
<1> QED  BY <1>1, <1>2 DEF HasKey, at

(* The thread that works on the cache.                                      *)
LEMMA OwnEntryWork ==
  ASSUME TypeOK, TypeOK', OwnEntry, EmbedsAlone, NEW h \in Handlers,
         \/ EmbedLookup(h) \/ EmbedTouch(h) \/ EmbedRead(h) \/ EmbedStore(h)
         \/ EmbedTouchStored(h) \/ EmbedCheck(h) \/ EmbedPop(h)
  PROVE  OwnEntry'
<1>t. pc \in [Handlers -> Places] /\ mem \in [Handlers -> Memory] /\ embeds \in Seq(Vectors)
  BY DEF TypeOK
<1>o. ASSUME h \in Embedding
      PROVE  \A g \in Handlers \ {h} : pc[g] \notin {"touch", "read", "stored", "pop"}
  BY <1>o DEF EmbedsAlone, Embedding
<1>n. ASSUME NEW to, pc' = [pc EXCEPT ![h] = to], lost' = lost, h \in Embedding,
             to \in {"touch", "read", "stored"} => HasKey(embeds', mem'[h].text),
             to = "pop" => embeds' # <<>>
      PROVE  OwnEntry'
  <2>1. \A g \in Handlers \ {h} : pc'[g] \notin {"touch", "read", "stored", "pop"}
    BY <1>n, <1>o, <1>t
  <2>2. pc'[h] = to  BY <1>n, <1>t
  <2> QED  BY <1>n, <2>1, <2>2 DEF OwnEntry
<1>1. CASE EmbedLookup(h)
  BY <1>1, <1>t DEF EmbedLookup, Goto, OwnEntry
<1>2. ASSUME NEW from \in {"touch", "stored"}, NEW to \in {"read", "check"}, Touch(h, from, to)
      PROVE  OwnEntry'
  <2>1. HasKey(embeds, mem[h].text)  BY <1>2 DEF Touch, OwnEntry
  <2>2. /\ pc' = [pc EXCEPT ![h] = to] /\ lost' = lost /\ mem' = mem /\ h \in Embedding
        /\ embeds' = ToEnd(embeds, Index(embeds, mem[h].text))
    BY <1>2, <2>1 DEF Touch, Goto, Embedding
  <2>3. HasKey(embeds', mem'[h].text)  BY <1>t, <2>1, <2>2, ToEndHasKey
  <2> QED  BY <1>n, <2>2, <2>3
<1>6. CASE EmbedRead(h)
  <2>1. HasKey(embeds, mem[h].text)  BY <1>6 DEF EmbedRead, OwnEntry
  <2>2. pc' = [pc EXCEPT ![h] = "pick"] /\ lost' = lost /\ h \in Embedding
    BY <1>6, <2>1 DEF EmbedRead, Goto, Embedding
  <2> QED  BY <1>n, <2>2
<1>3. CASE EmbedStore(h)
  <2>1. /\ pc' = [pc EXCEPT ![h] = "stored"] /\ lost' = lost /\ mem' = mem /\ h \in Embedding
        /\ embeds' = Stored(embeds, [key |-> mem[h].text])
    BY <1>3 DEF EmbedStore, Goto, Embedding
  <2>2. [key |-> mem[h].text] \in Vectors  BY <1>t DEF Memory, Vectors
  <2>3. HasKey(embeds', mem'[h].text)  BY <1>t, <2>1, <2>2, StoredKeeps
  <2> QED  BY <1>n, <2>1, <2>3
<1>4. CASE EmbedCheck(h)
  <2> DEFINE to == IF Len(embeds) > EmbedSize THEN "pop" ELSE "pick"
  <2>1. pc' = [pc EXCEPT ![h] = to] /\ lost' = lost /\ embeds' = embeds /\ h \in Embedding
    BY <1>4 DEF EmbedCheck, Goto, Embedding
  <2>2. to = "pop" => embeds' # <<>>
    <3>1. ASSUME embeds = <<>> PROVE ~(Len(embeds) > EmbedSize)
      BY <3>1, SizesAssumption
    <3> QED  BY <2>1, <3>1
  <2>3. to \notin {"touch", "read", "stored"}  OBVIOUS
  <2> HIDE DEF to
  <2> QED  BY <1>n, <2>1, <2>2, <2>3
<1>5. CASE EmbedPop(h)
  <2>1. embeds # <<>>  BY <1>5 DEF EmbedPop, OwnEntry
  <2>2. pc' = [pc EXCEPT ![h] = "pick"] /\ lost' = lost /\ h \in Embedding
    BY <1>5, <2>1 DEF EmbedPop, Goto, Embedding
  <2> QED  BY <1>n, <2>2
<1> QED  BY <1>1, <1>2, <1>3, <1>4, <1>5, <1>6 DEF EmbedTouch, EmbedTouchStored

LEMMA OwnEntryStep ==
  ASSUME TypeOK, TypeOK', OwnEntry, EmbedsAlone, [Next]_vars
  PROVE  OwnEntry'
<1>t. pc \in [Handlers -> Places] /\ mem \in [Handlers -> Memory]
  BY DEF TypeOK
<1>1. CASE OthersAdd
  <2>1. \A h \in Handlers : mem'[h].text = mem[h].text
    BY <1>1, ReturnedEffect DEF OthersAdd
  <2> QED  BY <1>1, <2>1, OwnEntryKept DEF OthersAdd
<1>2. CASE OthersDelete  BY <1>2, OwnEntryKept DEF OthersDelete
<1>3. ASSUME NEW h \in Handlers, Serve(h)
      PROVE  OwnEntry'
  <2>k. ASSUME embeds' = embeds, lost' = lost,
               NEW to \in Places \ {"touch", "read", "stored", "pop"},
               pc' = [pc EXCEPT ![h] = to],
               \A g \in Handlers \ {h} : mem'[g].text = mem[g].text
        PROVE  OwnEntry'
    BY <1>t, <2>k, OwnEntryKept
  <2>l. ASSUME embeds' = embeds, lost' = lost, Leave(h)
        PROVE  OwnEntry'
    BY <1>t, <2>k, <2>l DEF Leave, Goto, Places
  <2>1. CASE Arrive(h) \/ Stamp(h) \/ MissIntent(h) \/ MissPrompt(h)
    BY <1>t, <2>1, <2>k DEF Arrive, Stamp, MissIntent, MissPrompt, Goto, Places
  <2>2. CASE Hit(h) \/ AskFails(h) \/ PickFails(h) \/ ComposeFails(h) \/ Render(h)
    BY <2>2, <2>l DEF Hit, AskFails, PickFails, ComposeFails, Render
  <2>3. CASE AskAgain(h)
    <3>1. pc' = [pc EXCEPT ![h] = "ask"]
      BY <1>t, <2>3 DEF AskAgain
    <3>2. \A g \in Handlers \ {h} : mem'[g].text = mem[g].text
      BY <1>t, <2>3 DEF AskAgain
    <3> QED  BY <2>3, <2>k, <3>1, <3>2 DEF AskAgain, Places
  <2>4. CASE Author(h) \/ EmbedFails(h) \/ Reuse(h) \/ Compose(h)
    BY <1>t, <2>4, <2>k DEF Author, EmbedFails, Reuse, Compose, Goto, Places
  <2>5. CASE Make(h)
    <3>1. PICK m \in Motifs : mem' = [Returned(m) EXCEPT ![h].motif = m]
      BY <2>5 DEF Make
    <3>2. \A g \in Handlers \ {h} : mem'[g].text = mem[g].text
      BY <3>1, ReturnedEffect DEF Returned
    <3> QED  BY <2>5, <2>k, <3>2 DEF Make, Goto, Places
  <2>6. CASE \/ EmbedLookup(h) \/ EmbedTouch(h) \/ EmbedRead(h) \/ EmbedStore(h)
             \/ EmbedTouchStored(h) \/ EmbedCheck(h) \/ EmbedPop(h)
    BY <2>6, OwnEntryWork
  <2> QED  BY <1>3, <2>1, <2>2, <2>3, <2>4, <2>5, <2>6 DEF Serve
<1>4. CASE UNCHANGED vars  BY <1>4, OwnEntryKept DEF vars
<1> QED  BY <1>1, <1>2, <1>3, <1>4 DEF Next

(* Of the threads in embed_query at most one trims when they are alone.     *)
LEMMA OneTrims == EmbedsAlone => Cardinality(Trimming) <= 1
<1> SUFFICES ASSUME EmbedsAlone PROVE Cardinality(Trimming) <= 1  OBVIOUS
<1>1. CASE Trimming = {}  BY <1>1, FS_EmptySet
<1>2. CASE Trimming # {}
  <2>1. PICK h \in Trimming : TRUE  BY <1>2
  <2>2. Trimming = {h}  BY <2>1 DEF EmbedsAlone, Embedding, Trimming
  <2> QED  BY <2>2, FS_Singleton
<1> QED  BY <1>1, <1>2

(* The KeyErrors of embed_query, and the vectors its cache keeps over its   *)
(* size, are races and nothing else: in a run in which no two threads are   *)
(* ever between the lookup and the trim at once, no lookup fails, whatever  *)
(* is embedded, evicted or refused in whatever order.                       *)
THEOREM KeyErrorsAreRaces == Spec /\ []EmbedsAlone => []NothingLost
<1> DEFINE Inv == TypeOK /\ OwnEntry
<1>1. Init => Inv
  <2> SUFFICES ASSUME Init PROVE Inv  OBVIOUS
  <2>1. TypeOK  BY TypeInit
  <2>2. OwnEntry  BY DEF Init, OwnEntry
  <2> QED  BY <2>1, <2>2
<1>2. Inv /\ EmbedsAlone /\ [Next]_vars => Inv'
  BY TypeStep, OwnEntryStep
<1>3. Inv /\ EmbedsAlone /\ CachesBounded => NothingLost
  <2> SUFFICES ASSUME Inv, EmbedsAlone, CachesBounded PROVE NothingLost  OBVIOUS
  <2>1. Cardinality(Trimming) \in Nat /\ Cardinality(Trimming) <= 1
    BY OneTrims, TrimmingCount
  <2>2. lost = 0 /\ Len(embeds) \in Nat  BY DEF OwnEntry, TypeOK
  <2> QED  BY <2>1, <2>2, SizesAssumption DEF CachesBounded, NothingLost
<1> QED  BY GenerateCachesBounded, <1>1, <1>2, <1>3, PTL DEF Spec
=============================================================================
