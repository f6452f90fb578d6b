------------------------ MODULE MotifRegistryProofs ------------------------
(***************************************************************************)
(* MotifRegistry, for every set of threads, motif ids and keys, any number *)
(* of pool changes and restarts: its types, the freshness of the           *)
(* fingerprint, and what becomes of motifs that are handed out or deleted. *)
(***************************************************************************)
EXTENDS MotifRegistry, SequenceTheorems, TLAPS

-----------------------------------------------------------------------------
(* The inductive invariants.                                               *)

\* What a store access saw is a content the store has had.
AccessSeen == \A t \in Threads : mem[t].at <= Len(pools)

Reading(t) == pc[t] \in {"check", "querying", "queried"}

\* A version is the fingerprint of a content the store had since the change
\* number n.
Since(version, n) == \E i \in n..Len(pools) : version = pools[i]

\* A reader needs the changes that were complete when it read the epoch.
NeedOK ==
  \A t \in Threads :
    pc[t] \in {"check", "querying", "queried", "answered"} =>
      mem[t].need \in 1..settled

\* The epoch tells how far the pool had settled when it was read: within one
\* epoch nothing is completed.
EpochTells ==
  /\ \A t \in Threads : Reading(t) =>
       /\ mem[t].epoch <= epoch
       /\ mem[t].epoch = epoch => mem[t].need = settled
  /\ \A t, u \in Threads :
       Reading(t) /\ Reading(u) /\ mem[t].epoch = mem[u].epoch =>
         mem[t].need = mem[u].need

\* The memo is good for whoever has read, or now reads, the epoch it is for.
MemoGood ==
  memo.set =>
    /\ memo.epoch <= epoch
    /\ memo.epoch = epoch => Since(memo.version, settled)
    /\ \A t \in Threads :
         Reading(t) /\ memo.epoch = mem[t].epoch =>
           Since(memo.version, mem[t].need)

\* A thread has an answer when it has queried, and a good one.
QueryGood ==
  \A t \in Threads :
    /\ pc[t] \in {"check", "querying"} => ~mem[t].ok
    /\ pc[t] = "queried" => Since(mem[t].version, mem[t].need)

FreshInv == NeedOK /\ EpochTells /\ MemoGood /\ QueryGood
            /\ FingerprintFresh

\* An id that can be used, unless it has been deleted.
Usable(id) == id \in deleted \cup store \cup (unsaved \cap motifs)

\* What is in MOTIFS is persisted or its write-through failed; what is frozen,
\* or about to be, can be used.
UsableInv ==
  /\ motifs \subseteq deleted \cup store \cup unsaved
  /\ \A id \in served : Usable(id)
  /\ \A k \in Keys : frozen[k] # NoId => Usable(frozen[k])
  /\ \A t \in Threads :
       /\ pc[t] = "insert" => mem[t].id \in deleted \cup store \cup unsaved
       /\ pc[t] \in {"bump", "freeze"} => Usable(mem[t].id)
       /\ pc[t] = "loaded" => mem[t].id \in deleted \cup store
       /\ pc[t] \in {"evict", "flush"} => mem[t].id \in deleted

\* What is gone has lost its row first; MOTIFS loses it when it is evicted, the
\* specs when they are flushed, and nobody holds it.
GoneInv ==
  \A id \in gone :
    /\ id \notin store
    /\ ~AtWorkOn(id)
    /\ id \in motifs => \E t \in Threads : mem[t].id = id /\ pc[t] = "evict"
    /\ (\E k \in SpecKeys : frozen[k] = id) => Deleting(id)

\* A thread at a stage that works on an id or a key holds one.
HeldOK(stage, m) ==
  /\ stage \in {"upsert", "insert", "bump", "freeze", "loading", "loaded",
                "evict", "flush"} => m.id \in Ids
  /\ stage = "generating" => m.key \in Keys

HeldIds == \A t \in Threads : HeldOK(pc[t], mem[t])

-----------------------------------------------------------------------------
(* Types.                                                                  *)

\* What the table has had stays, and it has its new content.
LEMMA StoreStep ==
  ASSUME pools \in Seq(SUBSET Ids), Len(pools) >= 1,
         NEW content \in SUBSET Ids, Store(content)
  PROVE  /\ pools' \in Seq(SUBSET Ids)
         /\ Len(pools') \in Nat /\ Len(pools') >= Len(pools)
         /\ \A i \in 1..Len(pools) : pools'[i] = pools[i]
         /\ store' = content
<1>1. CASE content = store
  BY <1>1 DEF Store, store
<1>2. CASE content # store
  <2>1. pools' = Append(pools, content)
    BY <1>2 DEF Store
  <2>2. /\ pools' \in Seq(SUBSET Ids)
        /\ Len(pools') = Len(pools) + 1
        /\ \A i \in 1..Len(pools) : pools'[i] = pools[i]
        /\ pools'[Len(pools) + 1] = content
    BY <2>1, AppendProperties
  <2> QED
    BY <2>2 DEF store
<1> QED
  BY <1>1, <1>2

LEMMA StoreType ==
  ASSUME pools \in Seq(SUBSET Ids), Len(pools) >= 1
  PROVE  store \subseteq Ids
BY ElementOfSeq DEF store

\* The records a thread holds, as the steps make them.
LEMMA DeleterMemory ==
  ASSUME NEW id \in Ids, NEW n \in Nat
  PROVE  /\ [NoMem EXCEPT !.id = id, !.at = n] \in Memory
         /\ [NoMem EXCEPT !.id = id, !.at = n].id = id
         /\ [NoMem EXCEPT !.id = id, !.at = n].at = n
BY DEF Memory, NoMem

LEMMA ReaderMemory ==
  ASSUME NEW e \in Nat, NEW n \in Nat
  PROVE  /\ [NoMem EXCEPT !.epoch = e, !.need = n] \in Memory
         /\ [NoMem EXCEPT !.epoch = e, !.need = n].epoch = e
         /\ [NoMem EXCEPT !.epoch = e, !.need = n].need = n
         /\ [NoMem EXCEPT !.epoch = e, !.need = n].at = 0
         /\ ~[NoMem EXCEPT !.epoch = e, !.need = n].ok
BY DEF Memory, NoMem

LEMMA MemoryType ==
  /\ NoMem \in Memory
  /\ \A id \in Ids : /\ [NoMem EXCEPT !.id = id] \in Memory
                     /\ [NoMem EXCEPT !.id = id].id = id
                     /\ [NoMem EXCEPT !.id = id].at = 0
  /\ \A k \in Keys : /\ [NoMem EXCEPT !.key = k] \in Memory
                     /\ [NoMem EXCEPT !.key = k].key = k
                     /\ [NoMem EXCEPT !.key = k].at = 0
BY DEF Memory, NoMem

\* What a thread is doing, and what it holds.
ThreadsOK ==
  /\ pc \in [Threads -> Stages] /\ mem \in [Threads -> Memory]
  /\ HeldIds /\ AccessSeen

TypeInv == TypeOK /\ HeldIds /\ AccessSeen

\* What a step of a thread does to pc and mem.
Moved(t, stage, m) ==
  /\ pc' = [pc EXCEPT ![t] = stage]
  /\ mem' = [mem EXCEPT ![t] = m]

LEMMA MovedOnly ==
  ASSUME TypeOK, NEW t \in Threads, NEW stage, NEW m, Moved(t, stage, m)
  PROVE  /\ pc'[t] = stage /\ mem'[t] = m
         /\ \A u \in Threads \ {t} : pc'[u] = pc[u] /\ mem'[u] = mem[u]
BY DEF TypeOK, Moved

LEMMA MovedType ==
  ASSUME TypeInv, NEW t \in Threads, NEW stage \in Stages, NEW m \in Memory,
         Moved(t, stage, m), HeldOK(stage, m),
         pools' \in Seq(SUBSET Ids), Len(pools') >= Len(pools),
         m.at <= Len(pools')
  PROVE  ThreadsOK'
<1>1. pc' \in [Threads -> Stages] /\ mem' \in [Threads -> Memory]
  BY DEF TypeInv, TypeOK, Moved
<1>2. /\ pc'[t] = stage /\ mem'[t] = m
      /\ \A u \in Threads \ {t} : pc'[u] = pc[u] /\ mem'[u] = mem[u]
  BY MovedOnly DEF TypeInv
<1>3. HeldIds'
  BY <1>2 DEF TypeInv, HeldIds, HeldOK
<1>4. Len(pools) \in Nat /\ Len(pools') \in Nat /\ \A u \in Threads : mem[u].at \in Nat
  BY DEF TypeInv, TypeOK, Memory
<1>5. \A u \in Threads : mem'[u].at <= Len(pools')
  BY <1>2, <1>4 DEF TypeInv, AccessSeen
<1> QED
  BY <1>1, <1>3, <1>5 DEF AccessSeen, ThreadsOK

LEMMA MovedTypeSame ==
  ASSUME TypeInv, NEW t \in Threads, NEW stage \in Stages, NEW m \in Memory,
         Moved(t, stage, m), HeldOK(stage, m), UNCHANGED pools,
         m.at <= Len(pools)
  PROVE  ThreadsOK'
<1>1. pools' \in Seq(SUBSET Ids) /\ Len(pools') >= Len(pools)
  BY DEF TypeInv, TypeOK
<1> QED
  BY <1>1, MovedType

\* A step that leaves mem alone, and one after which the thread is done.
LEMMA GotoType ==
  ASSUME TypeInv, NEW t \in Threads, NEW stage \in Stages, Goto(t, stage),
         UNCHANGED <<mem, pools>>, HeldOK(stage, mem[t])
  PROVE  Moved(t, stage, mem[t]) /\ ThreadsOK'
<1>1. Moved(t, stage, mem[t]) /\ mem[t] \in Memory /\ mem[t].at <= Len(pools)
  BY DEF TypeInv, TypeOK, AccessSeen, Goto, Moved
<1> QED
  BY <1>1, MovedTypeSame

LEMMA EndType ==
  ASSUME TypeInv, NEW t \in Threads, End(t), UNCHANGED pools
  PROVE  Moved(t, "idle", NoMem) /\ ThreadsOK'
<1>1. Moved(t, "idle", NoMem) /\ NoMem \in Memory /\ "idle" \in Stages
  BY MemoryType DEF End, Moved, Stages
<1>2. HeldOK("idle", NoMem) /\ NoMem.at <= Len(pools)
  BY DEF HeldOK, NoMem, TypeInv, TypeOK
<1> QED
  BY <1>1, <1>2, MovedTypeSame

LEMMA TypeInit == Init => TypeInv
<1> SUFFICES ASSUME Init PROVE TypeInv
  OBVIOUS
<1>1. pools \in Seq(SUBSET Ids) /\ Len(pools) = 1
  BY DEF Init
<1>2. memo \in Memo
  BY DEF Init, Memo, NoMemo
<1>3. mem \in [Threads -> Memory] /\ \A t \in Threads : mem[t].at = 0
  BY MemoryType DEF Init, NoMem
<1>4. HeldIds
  BY DEF Init, HeldIds, HeldOK
<1> QED
  BY <1>1, <1>2, <1>3, <1>4 DEF Init, TypeInv, TypeOK, AccessSeen, Stages

\* A completed change settles at a content the store has had.
LEMMA BumpedType ==
  ASSUME TypeInv, NEW t \in Threads, Bumped(t)
  PROVE  /\ settled' \in 1..Len(pools) /\ settled' >= settled
         /\ epoch' = epoch + 1 /\ epoch' \in Nat
<1>1. mem[t].at \in Nat /\ mem[t].at <= Len(pools) /\ Len(pools) \in Nat
  BY DEF TypeInv, TypeOK, Memory, AccessSeen
<1> QED
  BY <1>1 DEF TypeInv, TypeOK, Bumped, Later

\* A step that changes nothing but what a thread holds.
LEMMA OnlyThreadsType ==
  ASSUME TypeInv, ThreadsOK', UNCHANGED <<pools, motifs, frozen, epoch, memo, ghosts>>
  PROVE  TypeInv'
<1>1. TypeOK /\ UNCHANGED <<settled, served, unsaved, deleted, gone, restarts>>
  BY DEF TypeInv, ghosts
<1>2. TypeOK'
  BY <1>1 DEF TypeOK, ThreadsOK
<1> QED
  BY <1>2 DEF TypeInv, ThreadsOK

LEMMA TypeStep == TypeInv /\ [Next]_vars => TypeInv'
<1> SUFFICES ASSUME TypeInv, [Next]_vars PROVE TypeInv'
  OBVIOUS
<1>0. /\ store \subseteq Ids
      /\ TypeOK
      /\ Len(pools) \in Nat
      /\ \A t \in Threads : /\ mem[t] \in Memory
                            /\ HeldOK(pc[t], mem[t])
                            /\ mem[t].at \in Nat
                            /\ mem[t].at <= Len(pools)
                            /\ 0 <= Len(pools)
  BY StoreType DEF TypeInv, TypeOK, HeldIds, AccessSeen, Memory
<1>a. ASSUME NEW t \in Threads, NEW k \in Keys, ServeFrozen(t, k) PROVE TypeInv'
  BY <1>a, <1>0 DEF ServeFrozen, process, TypeInv, TypeOK, HeldIds, HeldOK, AccessSeen
<1>b. ASSUME NEW t \in Threads, NEW k \in Keys, Miss(t, k) PROVE TypeInv'
  <2> DEFINE m == [NoMem EXCEPT !.key = k]
  <2>a. /\ "generating" \in Stages /\ m \in Memory /\ m.at <= Len(pools)
        /\ HeldOK("generating", m)
    BY <1>b, <1>0, MemoryType DEF Miss, At, Stages, HeldOK
  <2>b. Moved(t, "generating", m) /\ UNCHANGED pools
    BY <1>b DEF Miss, Begin, Moved, ghosts
  <2> HIDE DEF m
  <2>1. ThreadsOK'
    BY <2>a, <2>b, MovedTypeSame
  <2>2. UNCHANGED <<pools, motifs, frozen, epoch, memo, ghosts>>
    BY <1>b DEF Miss
  <2> QED
    BY <2>1, <2>2, <1>0, OnlyThreadsType
<1>c. ASSUME NEW t \in Threads, NEW id \in Ids, Generated(t, id) PROVE TypeInv'
  <2> DEFINE m == [mem[t] EXCEPT !.id = id]
  <2>0. mem[t] \in Memory
    BY <1>0 DEF TypeOK
  <2>c. m \in Memory /\ m.id = id /\ m.key = mem[t].key /\ m.at = mem[t].at
    BY <2>0 DEF Memory
  <2>d. pc[t] = "generating"
    BY <1>c DEF Generated, At
  <2> HIDE DEF m
  <2>a. /\ "upsert" \in Stages /\ m \in Memory /\ m.at <= Len(pools)
        /\ HeldOK("upsert", m)
    BY <1>0, <2>c, <2>d DEF Stages, HeldOK
  <2>b. Moved(t, "upsert", m) /\ UNCHANGED pools
    BY <1>c DEF Generated, Goto, Moved, ghosts, m
  <2>1. ThreadsOK'
    BY <2>a, <2>b, MovedTypeSame
  <2> QED
    BY <1>c, <1>0, <2>1 DEF Generated, ghosts, ThreadsOK, TypeInv, TypeOK
<1>d. ASSUME NEW t \in Threads, NEW id \in Ids, TextKnown(t, id) PROVE TypeInv'
  BY <1>d, <1>0 DEF TextKnown, process, TypeInv, TypeOK, HeldIds, HeldOK, AccessSeen
<1>e. ASSUME NEW t \in Threads, NEW id \in Ids, TextNew(t, id) PROVE TypeInv'
  <2> DEFINE m == [NoMem EXCEPT !.id = id]
  <2>a. /\ "upsert" \in Stages /\ m \in Memory /\ m.at <= Len(pools)
        /\ HeldOK("upsert", m)
    BY <1>e, <1>0, MemoryType DEF TextNew, At, Stages, HeldOK
  <2>b. Moved(t, "upsert", m) /\ UNCHANGED pools
    BY <1>e DEF TextNew, Begin, Moved, ghosts
  <2> HIDE DEF m
  <2>1. ThreadsOK'
    BY <2>a, <2>b, MovedTypeSame
  <2> QED
    BY <1>e, <1>0, <2>1 DEF TextNew, ghosts, ThreadsOK, TypeInv, TypeOK
<1>f. ASSUME NEW t \in Threads, NEW id \in Ids, LoadMotif(t, id) PROVE TypeInv'
  <2> DEFINE m == [NoMem EXCEPT !.id = id]
  <2>a. /\ "loading" \in Stages /\ m \in Memory /\ m.at <= Len(pools)
        /\ HeldOK("loading", m)
    BY <1>f, <1>0, MemoryType DEF LoadMotif, At, Stages, HeldOK
  <2>b. Moved(t, "loading", m) /\ UNCHANGED pools
    BY <1>f DEF LoadMotif, Begin, Moved, ghosts
  <2> HIDE DEF m
  <2>1. ThreadsOK'
    BY <2>a, <2>b, MovedTypeSame
  <2>2. UNCHANGED <<pools, motifs, frozen, epoch, memo, ghosts>>
    BY <1>f DEF LoadMotif
  <2> QED
    BY <2>1, <2>2, <1>0, OnlyThreadsType
<1>g. ASSUME NEW t \in Threads, NEW id \in Ids, DeleteRow(t, id) PROVE TypeInv'
  <2>0. id \in Ids
    BY <1>g, <1>0 DEF DeleteRow, At, HeldOK
  <2>1. /\ pools' \in Seq(SUBSET Ids)
        /\ Len(pools') \in Nat /\ Len(pools') >= Len(pools)
    BY <1>g, <1>0, <2>0, StoreStep DEF DeleteRow, TypeOK
  <2> DEFINE m == [NoMem EXCEPT !.id = id, !.at = Len(pools')]
  <2>2. Moved(t, "evict", m)
    BY <1>g DEF DeleteRow, Begin, Moved
  <2>3. m \in Memory /\ m.id = id /\ m.at = Len(pools')
    <3> DEFINE n == Len(pools')
    <3>1. n \in Nat
      BY <2>1
    <3> HIDE DEF n
    <3>2. /\ [NoMem EXCEPT !.id = id, !.at = n] \in Memory
          /\ [NoMem EXCEPT !.id = id, !.at = n].id = id
          /\ [NoMem EXCEPT !.id = id, !.at = n].at = n
      BY <2>0, <3>1, DeleterMemory
    <3> QED
      BY <3>2 DEF n
  <2>4. "evict" \in Stages /\ m.at <= Len(pools')
    BY <2>1, <2>3 DEF Stages
  <2>5. HeldOK("evict", m)
    BY <2>0, <2>3 DEF HeldOK
  <2> HIDE DEF m
  <2>6. ThreadsOK'
    BY <2>1, <2>2, <2>3, <2>4, <2>5, MovedType
  <2>7. settled \in 1..Len(pools')
    BY <1>0, <2>1 DEF TypeOK
  <2> QED
    BY <1>g, <1>0, <2>0, <2>1, <2>6, <2>7 DEF DeleteRow, ThreadsOK, TypeInv, TypeOK
<1>h. ASSUME NEW t \in Threads, Regenerate(t) PROVE TypeInv'
  <2> DEFINE m == [mem[t] EXCEPT !.again = TRUE]
  <2>1. m \in Memory /\ m.id = mem[t].id /\ m.key = mem[t].key /\ m.at = mem[t].at
    BY <1>0 DEF Memory
  <2>2. Moved(t, pc[t], m) /\ UNCHANGED pools
    BY <1>h, <1>0 DEF Regenerate, Moved, TypeOK, ghosts
  <2> HIDE DEF m
  <2>3. HeldOK(pc[t], m) /\ pc[t] \in Stages
    BY <1>0, <2>1 DEF HeldOK, TypeOK
  <2>4. ThreadsOK'
    BY <1>0, <2>1, <2>2, <2>3, MovedTypeSame
  <2> QED
    BY <1>h, <1>0, <2>4 DEF Regenerate, ghosts, ThreadsOK, TypeInv, TypeOK
<1>i. ASSUME NEW t \in Threads, GenerateRaises(t) PROVE TypeInv'
  <2>1. ThreadsOK'
    BY <1>i, EndType DEF GenerateRaises, ghosts
  <2> QED
    BY <1>i, <1>0, <2>1 DEF GenerateRaises, ghosts, ThreadsOK, TypeInv, TypeOK
<1>j. ASSUME NEW t \in Threads, Upsert(t) PROVE TypeInv'
  <2>0. mem[t].id \in Ids
    BY <1>j, <1>0 DEF Upsert, At, HeldOK
  <2>1. /\ pools' \in Seq(SUBSET Ids)
        /\ Len(pools') \in Nat /\ Len(pools') >= Len(pools)
    BY <1>j, <1>0, <2>0, StoreStep DEF Upsert, TypeOK
  <2> DEFINE m == [mem[t] EXCEPT !.at = Len(pools')]
  <2>2. Moved(t, "insert", m)
    BY <1>j DEF Upsert, Goto, Moved
  <2>3. m \in Memory /\ m.id = mem[t].id /\ m.at = Len(pools')
    BY <1>0, <2>0, <2>1 DEF Memory
  <2>4. "insert" \in Stages /\ m.at <= Len(pools')
    BY <2>1, <2>3 DEF Stages
  <2>5. HeldOK("insert", m)
    BY <2>0, <2>3 DEF HeldOK
  <2> HIDE DEF m
  <2>6. ThreadsOK'
    BY <2>1, <2>2, <2>3, <2>4, <2>5, MovedType
  <2>7. settled \in 1..Len(pools')
    BY <1>0, <2>1 DEF TypeOK
  <2> QED
    BY <1>j, <1>0, <2>0, <2>1, <2>6, <2>7 DEF Upsert, ThreadsOK, TypeInv, TypeOK
<1>k. ASSUME NEW t \in Threads, UpsertFails(t) PROVE TypeInv'
  <2>1. ThreadsOK'
    BY <1>k, <1>0, GotoType DEF UpsertFails, At, Stages, HeldOK, ghosts
  <2> QED
    BY <1>k, <1>0, <2>1 DEF UpsertFails, ghosts, ThreadsOK, TypeInv, TypeOK, At, HeldOK
<1>l. ASSUME NEW t \in Threads, Insert(t) PROVE TypeInv'
  <2>1. ThreadsOK'
    BY <1>l, <1>0, GotoType DEF Insert, At, Stages, HeldOK, ghosts
  <2> QED
    BY <1>l, <1>0, <2>1 DEF Insert, ghosts, ThreadsOK, TypeInv, TypeOK, At, HeldOK
<1>m. ASSUME NEW t \in Threads, Bump(t) PROVE TypeInv'
  <2>1. ThreadsOK'
    BY <1>m, <1>0, GotoType DEF Bump, At, Stages, HeldOK, ghosts
  <2> QED
    BY <1>m, <1>0, <2>1, BumpedType DEF Bump, ghosts, ThreadsOK, TypeInv, TypeOK
<1>n. ASSUME NEW t \in Threads, Freeze(t) PROVE TypeInv'
  <2>1. ThreadsOK'
    BY <1>n, EndType DEF Freeze, ghosts
  <2> QED
    BY <1>n, <1>0, <2>1 DEF Freeze, ghosts, ThreadsOK, TypeInv, TypeOK, At, HeldOK
<1>o. ASSUME NEW t \in Threads, RowFound(t) PROVE TypeInv'
  <2>1. ThreadsOK'
    BY <1>o, <1>0, GotoType DEF RowFound, At, Stages, HeldOK, ghosts
  <2> QED
    BY <1>o, <1>0, <2>1 DEF RowFound, ghosts, ThreadsOK, TypeInv, TypeOK
<1>p. ASSUME NEW t \in Threads, UnknownMotif(t) PROVE TypeInv'
  <2>1. ThreadsOK'
    BY <1>p, EndType DEF UnknownMotif, ghosts
  <2> QED
    BY <1>p, <1>0, <2>1 DEF UnknownMotif, ghosts, ThreadsOK, TypeInv, TypeOK
<1>q. ASSUME NEW t \in Threads, KeepRow(t) PROVE TypeInv'
  <2>1. ThreadsOK'
    BY <1>q, EndType DEF KeepRow, ghosts
  <2> QED
    BY <1>q, <1>0, <2>1 DEF KeepRow, ghosts, ThreadsOK, TypeInv, TypeOK, At, HeldOK
<1>r. ASSUME NEW t \in Threads, Evict(t) PROVE TypeInv'
  <2>1. ThreadsOK'
    BY <1>r, <1>0, GotoType DEF Evict, At, Stages, HeldOK, ghosts
  <2> QED
    BY <1>r, <1>0, <2>1 DEF Evict, ghosts, ThreadsOK, TypeInv, TypeOK
<1>s. ASSUME NEW t \in Threads, Flush(t) PROVE TypeInv'
  <2>1. ThreadsOK'
    BY <1>s, <1>0, GotoType DEF Flush, At, Stages, HeldOK, ghosts
  <2> QED
    BY <1>s, <1>0, <2>1 DEF Flush, ghosts, ThreadsOK, TypeInv, TypeOK, Flushed
<1>t. ASSUME NEW t \in Threads, BumpDeleted(t) PROVE TypeInv'
  <2>1. ThreadsOK'
    BY <1>t, EndType DEF BumpDeleted, ghosts
  <2> QED
    BY <1>t, <1>0, <2>1, BumpedType DEF BumpDeleted, ghosts, ThreadsOK, TypeInv, TypeOK
<1>u. ASSUME NEW t \in Threads, ReadEpoch(t) PROVE TypeInv'
  <2>0. epoch \in Nat /\ settled \in Nat
    BY <1>0 DEF TypeOK
  <2>c. LET m == [NoMem EXCEPT !.epoch = epoch, !.need = settled]
        IN  m \in Memory /\ m.at = 0
    BY <2>0, ReaderMemory
  <2> DEFINE m == [NoMem EXCEPT !.epoch = epoch, !.need = settled]
  <2>a. /\ "check" \in Stages /\ m \in Memory /\ m.at <= Len(pools)
        /\ HeldOK("check", m)
    BY <1>u, <1>0, <2>c DEF ReadEpoch, At, Stages, HeldOK
  <2>b. Moved(t, "check", m) /\ UNCHANGED pools
    BY <1>u DEF ReadEpoch, Begin, Moved, ghosts
  <2> HIDE DEF m
  <2>1. ThreadsOK'
    BY <2>a, <2>b, MovedTypeSame
  <2>2. UNCHANGED <<pools, motifs, frozen, epoch, memo, ghosts>>
    BY <1>u DEF ReadEpoch
  <2> QED
    BY <2>1, <2>2, <1>0, OnlyThreadsType
<1>v. ASSUME NEW t \in Threads, QueryIds(t) PROVE TypeInv'
  <2> DEFINE m == [mem[t] EXCEPT !.version = store, !.ok = TRUE]
  <2>0. mem[t] \in Memory /\ store \subseteq Ids
    BY <1>0 DEF TypeOK
  <2>c. m \in Memory /\ m.at = mem[t].at
    BY <2>0 DEF Memory
  <2> HIDE DEF m
  <2>a. /\ "queried" \in Stages /\ m \in Memory /\ m.at <= Len(pools)
        /\ HeldOK("queried", m)
    BY <1>0, <2>c DEF Stages, HeldOK
  <2>b. Moved(t, "queried", m) /\ UNCHANGED pools
    BY <1>v DEF QueryIds, Goto, Moved, ghosts, m
  <2>1. ThreadsOK'
    BY <2>a, <2>b, MovedTypeSame
  <2> QED
    BY <1>v, <1>0, <2>1 DEF QueryIds, ghosts, ThreadsOK, TypeInv, TypeOK
<1>w. ASSUME NEW t \in Threads, QueryFails(t) PROVE TypeInv'
  <2>1. ThreadsOK'
    BY <1>w, <1>0, GotoType DEF QueryFails, At, Stages, HeldOK, ghosts
  <2> QED
    BY <1>w, <1>0, <2>1 DEF QueryFails, ghosts, ThreadsOK, TypeInv, TypeOK
<1>x. ASSUME NEW t \in Threads, Memoize(t) PROVE TypeInv'
  <2>1. ThreadsOK'
    BY <1>x, <1>0, GotoType DEF Memoize, At, Stages, HeldOK, ghosts
  <2> QED
    BY <1>x, <1>0, <2>1 DEF Memoize, ghosts, ThreadsOK, TypeInv, TypeOK, Memo, Memory
<1>y. ASSUME NEW t \in Threads, Answer(t) PROVE TypeInv'
  <2>1. ThreadsOK'
    BY <1>y, EndType DEF Answer, ghosts
  <2> QED
    BY <1>y, <1>0, <2>1 DEF Answer, ghosts, ThreadsOK, TypeInv, TypeOK
<1>2. ASSUME NEW t \in Threads, CheckMemo(t) PROVE TypeInv'
  <2> DEFINE m == [mem[t] EXCEPT !.version = memo.version, !.ok = TRUE]
  <2>1. m \in Memory /\ m.at = mem[t].at
    BY <1>0 DEF Memory, Memo, TypeOK
  <2>2. pools' = pools
    BY <1>2 DEF CheckMemo, ghosts
  <2>3. \/ Moved(t, "answered", m)
        \/ Moved(t, "querying", mem[t])
    BY <1>2, <1>0 DEF CheckMemo, Goto, Moved, TypeOK
  <2> HIDE DEF m
  <2>4. ThreadsOK'
    <3>1. CASE Moved(t, "answered", m)
      BY <1>0, <2>1, <2>2, <3>1, MovedType DEF TypeOK, Stages, HeldOK
    <3>2. CASE Moved(t, "querying", mem[t])
      BY <1>0, <2>2, <3>2, MovedType DEF TypeOK, Stages, HeldOK
    <3> QED
      BY <2>3, <3>1, <3>2
  <2> QED
    BY <1>2, <1>0, <2>4 DEF CheckMemo, ghosts, ThreadsOK, TypeInv, TypeOK
<1>3. ASSUME NEW h \in BOOLEAN, Restart(h) PROVE TypeInv'
  <2>1. mem' \in [Threads -> Memory] /\ \A t \in Threads : mem'[t].at = 0
    BY <1>3, MemoryType DEF Restart, NoMem
  <2>2. memo' \in Memo
    BY <1>3 DEF Restart, Memo, NoMemo
  <2>3. HeldIds'
    BY <1>3 DEF Restart, HeldIds, HeldOK
  <2> QED
    BY <1>3, <1>0, <2>1, <2>2, <2>3 DEF Restart, TypeInv, TypeOK, AccessSeen, Stages
<1>4. ASSUME UNCHANGED vars PROVE TypeInv'
  BY <1>4, <1>0 DEF vars, process, ghosts, TypeInv, TypeOK, HeldIds, HeldOK,
     AccessSeen
<1> QED
  BY <1>a, <1>b, <1>c, <1>d, <1>e, <1>f, <1>g, <1>h, <1>i, <1>j, <1>k, <1>l, <1>m, <1>n, <1>o, <1>p, <1>q, <1>r, <1>s, <1>t, <1>u, <1>v, <1>w, <1>x, <1>y,
     <1>2, <1>3, <1>4 DEF Next, Register

\* Every variable has its type.
THEOREM TypeCorrect == Spec => []TypeOK
<1>1. TypeInv => TypeOK
  BY DEF TypeInv
<1> QED
  BY <1>1, TypeInit, TypeStep, PTL DEF Spec

-----------------------------------------------------------------------------
(* The fingerprint.                                                        *)

\* The table keeps what it has had.
Grows ==
  /\ Len(pools') >= Len(pools)
  /\ \A i \in 1..Len(pools) : pools'[i] = pools[i]

LEMMA SinceKept ==
  ASSUME TypeOK, TypeOK', Grows,
         NEW version, NEW n \in Nat, n >= 1, Since(version, n)
  PROVE  \E i \in n..Len(pools') : version = pools'[i]
<1>1. PICK i \in n..Len(pools) : version = pools[i]
  BY DEF Since
<1>2. Len(pools) \in Nat /\ Len(pools') \in Nat
  BY DEF TypeOK
<1>3. i \in 1..Len(pools) /\ i \in n..Len(pools')
  BY <1>1, <1>2 DEF Grows
<1> QED
  BY <1>1, <1>3 DEF Grows

\* A step after which its thread is not reading and has no good answer, and that
\* leaves the epoch and the memo alone.
LEMMA QuietStep ==
  ASSUME TypeInv, TypeInv', FreshInv, Grows,
         UNCHANGED <<epoch, settled, memo>>,
         NEW t \in Threads, ~Reading(t)',
         pc'[t] = "answered" => ~mem'[t].ok /\ mem'[t].need \in 1..settled,
         \A u \in Threads \ {t} : pc'[u] = pc[u] /\ mem'[u] = mem[u]
  PROVE  FreshInv'
<1> USE DEF FreshInv
<1>1. TypeOK /\ TypeOK' /\ 1 \in Nat /\ settled \in Nat /\ settled >= 1
  BY DEF TypeInv, TypeOK
<1>2. NeedOK'
  BY DEF NeedOK, Reading
<1>3. EpochTells'
  BY DEF EpochTells, Reading
<1>4. \A u \in Threads \ {t} :
        pc[u] \in {"check", "querying", "queried", "answered"} =>
          mem[u].need \in Nat /\ mem[u].need >= 1
  BY <1>1 DEF NeedOK
<1>5. MemoGood'
  <2>1. memo.set /\ memo.epoch = epoch =>
          \E i \in settled..Len(pools') : memo.version = pools'[i]
    BY <1>1, SinceKept DEF MemoGood
  <2>2. ASSUME memo.set, NEW u \in Threads \ {t}, Reading(u), memo.epoch = mem[u].epoch
        PROVE  \E i \in mem[u].need..Len(pools') : memo.version = pools'[i]
    BY <1>1, <1>4, <2>2, SinceKept DEF MemoGood, Reading
  <2> QED
    BY <2>1, <2>2 DEF MemoGood, Since, Reading
<1>6. QueryGood'
  <2>1. ASSUME NEW u \in Threads \ {t}, pc[u] = "queried"
        PROVE  \E i \in mem[u].need..Len(pools') : mem[u].version = pools'[i]
    BY <1>1, <1>4, <2>1, SinceKept DEF QueryGood
  <2> QED
    BY <2>1 DEF QueryGood, Since, Reading
<1>7. FingerprintFresh'
  <2>1. ASSUME NEW u \in Threads \ {t}, pc[u] = "answered", mem[u].ok
        PROVE  \E i \in mem[u].need..Len(pools') : mem[u].version = pools'[i]
    BY <1>1, <1>4, <2>1, SinceKept DEF FingerprintFresh, Since
  <2> QED
    BY <2>1 DEF FingerprintFresh
<1> QED
  BY <1>2, <1>3, <1>5, <1>6, <1>7

\* A step that completes a change: it moves the epoch, for which nobody has read
\* anything yet.
LEMMA SettleStep ==
  ASSUME TypeInv, TypeInv', FreshInv, NEW t \in Threads, Bumped(t),
         UNCHANGED <<pools, memo>>, ~Reading(t)', pc'[t] # "answered",
         \A u \in Threads \ {t} : pc'[u] = pc[u] /\ mem'[u] = mem[u]
  PROVE  FreshInv'
<1> USE DEF FreshInv
<1>1. /\ epoch \in Nat /\ epoch' = epoch + 1
      /\ settled \in Nat /\ settled' \in Nat /\ settled' >= settled
      /\ \A u \in Threads : mem[u].epoch \in Nat /\ mem[u].need \in Nat
      /\ memo.epoch \in Nat
  <2>1. TypeOK /\ TypeOK'
    BY DEF TypeInv
  <2>2. \A u \in Threads : mem[u].epoch \in Nat /\ mem[u].need \in Nat
    BY <2>1 DEF TypeOK, Memory
  <2>3. epoch \in Nat /\ settled \in Nat /\ settled' \in Nat
    BY <2>1 DEF TypeOK
  <2>4. memo.epoch \in Nat
    BY <2>1 DEF TypeOK, Memo
  <2>5. epoch' = epoch + 1 /\ settled' >= settled
    BY BumpedType
  <2> QED
    BY <2>2, <2>3, <2>4, <2>5
<1>2. NeedOK'
  BY <1>1 DEF NeedOK, Reading
<1>3. EpochTells'
  BY <1>1 DEF EpochTells, Reading
<1>4. MemoGood'
  BY <1>1 DEF MemoGood, Reading, Since
<1>5. QueryGood' /\ FingerprintFresh'
  BY DEF QueryGood, FingerprintFresh, Reading, Since
<1> QED
  BY <1>2, <1>3, <1>4, <1>5

LEMMA FreshInit == Init => FreshInv
<1> SUFFICES ASSUME Init PROVE FreshInv
  OBVIOUS
<1>1. \A t \in Threads : pc[t] = "idle"
  BY DEF Init
<1>2. ~memo.set
  BY DEF Init, NoMemo
<1>3. NeedOK /\ QueryGood /\ FingerprintFresh
  BY <1>1 DEF NeedOK, QueryGood, FingerprintFresh
<1>4. EpochTells /\ MemoGood
  BY <1>1, <1>2 DEF EpochTells, MemoGood, Reading
<1> QED
  BY <1>3, <1>4 DEF FreshInv

LEMMA ReadEpochFresh ==
  ASSUME TypeInv, FreshInv, NEW t \in Threads, ReadEpoch(t)
  PROVE  FreshInv'
<1> USE DEF FreshInv
<1>1. /\ epoch \in Nat /\ settled \in Nat /\ settled >= 1
      /\ UNCHANGED <<pools, epoch, memo, settled>>
  BY DEF ReadEpoch, ghosts, TypeInv, TypeOK
<1> DEFINE m == [NoMem EXCEPT !.epoch = epoch, !.need = settled]
<1>2. m.epoch = epoch /\ m.need = settled /\ ~m.ok
  BY <1>1, ReaderMemory
<1>3. /\ pc'[t] = "check" /\ mem'[t] = m
      /\ \A u \in Threads \ {t} : pc'[u] = pc[u] /\ mem'[u] = mem[u]
  BY DEF ReadEpoch, Begin, TypeInv, TypeOK
<1> HIDE DEF m
<1>4. NeedOK'
  BY <1>1, <1>2, <1>3 DEF NeedOK
<1>5. EpochTells'
  BY <1>1, <1>2, <1>3 DEF EpochTells, Reading
<1>6. MemoGood'
  BY <1>1, <1>2, <1>3 DEF MemoGood, Reading, Since
<1>7. QueryGood' /\ FingerprintFresh'
  BY <1>1, <1>2, <1>3 DEF QueryGood, FingerprintFresh, Since
<1> QED
  BY <1>4, <1>5, <1>6, <1>7

LEMMA CheckMemoFresh ==
  ASSUME TypeInv, FreshInv, NEW t \in Threads, CheckMemo(t)
  PROVE  FreshInv'
<1> USE DEF FreshInv
<1>1. UNCHANGED <<pools, epoch, memo, settled>> /\ pc[t] = "check"
  BY DEF CheckMemo, ghosts, At
<1> DEFINE m == [mem[t] EXCEPT !.version = memo.version, !.ok = TRUE]
<1>2. m.epoch = mem[t].epoch /\ m.need = mem[t].need /\ m.version = memo.version
  BY DEF TypeInv, TypeOK, Memory, Memo
<1>3. \A u \in Threads \ {t} : pc'[u] = pc[u] /\ mem'[u] = mem[u]
  BY DEF CheckMemo, Goto, TypeInv, TypeOK
<1>4. \/ MemoHit(mem[t]) /\ pc'[t] = "answered" /\ mem'[t] = m
      \/ pc'[t] = "querying" /\ mem'[t] = mem[t]
  BY DEF CheckMemo, Goto, TypeInv, TypeOK
<1> HIDE DEF m
<1>5. mem'[t].epoch = mem[t].epoch /\ mem'[t].need = mem[t].need
  BY <1>2, <1>4
<1>6. NeedOK'
  BY <1>1, <1>3, <1>4, <1>5 DEF NeedOK
<1>7. EpochTells'
  BY <1>1, <1>3, <1>4, <1>5 DEF EpochTells, Reading
<1>8. MemoGood'
  BY <1>1, <1>3, <1>4, <1>5 DEF MemoGood, Reading, Since
<1>9. MemoHit(mem[t]) => Since(memo.version, mem[t].need)
  BY <1>1 DEF MemoHit, MemoGood, Reading
<1>10. QueryGood' /\ FingerprintFresh'
  BY <1>1, <1>2, <1>3, <1>4, <1>5, <1>9 DEF QueryGood, FingerprintFresh, Since
<1> QED
  BY <1>6, <1>7, <1>8, <1>10

LEMMA QueryIdsFresh ==
  ASSUME TypeInv, FreshInv, NEW t \in Threads, QueryIds(t)
  PROVE  FreshInv'
<1> USE DEF FreshInv
<1>1. UNCHANGED <<pools, epoch, memo, settled>> /\ pc[t] = "querying"
  BY DEF QueryIds, ghosts, At
<1> DEFINE m == [mem[t] EXCEPT !.version = store, !.ok = TRUE]
<1>2. m.epoch = mem[t].epoch /\ m.need = mem[t].need /\ m.version = store
  BY DEF TypeInv, TypeOK, Memory
<1>3. /\ pc'[t] = "queried" /\ mem'[t] = m
      /\ \A u \in Threads \ {t} : pc'[u] = pc[u] /\ mem'[u] = mem[u]
  BY DEF QueryIds, Goto, TypeInv, TypeOK
<1> HIDE DEF m
<1>4. NeedOK'
  BY <1>1, <1>2, <1>3 DEF NeedOK
<1>5. EpochTells'
  BY <1>1, <1>2, <1>3 DEF EpochTells, Reading
<1>6. MemoGood'
  BY <1>1, <1>2, <1>3 DEF MemoGood, Reading, Since
<1>7. Since(store, mem[t].need)
  <2>1. Len(pools) \in mem[t].need..Len(pools)
    BY <1>1 DEF NeedOK, TypeInv, TypeOK
  <2> QED
    BY <2>1 DEF Since, store
<1>8. QueryGood' /\ FingerprintFresh'
  BY <1>1, <1>2, <1>3, <1>7 DEF QueryGood, FingerprintFresh, Since
<1> QED
  BY <1>4, <1>5, <1>6, <1>8

LEMMA MemoizeFresh ==
  ASSUME TypeInv, FreshInv, NEW t \in Threads, Memoize(t)
  PROVE  FreshInv'
<1> USE DEF FreshInv
<1>1. UNCHANGED <<pools, epoch, mem, settled>> /\ pc[t] = "queried"
  BY DEF Memoize, ghosts, At
<1>2. memo'.set /\ memo'.epoch = mem[t].epoch /\ memo'.version = mem[t].version
  BY DEF Memoize
<1>3. /\ pc'[t] = "answered"
      /\ \A u \in Threads \ {t} : pc'[u] = pc[u]
  BY DEF Memoize, Goto, TypeInv, TypeOK
<1>4. Since(mem[t].version, mem[t].need)
  BY <1>1 DEF QueryGood
<1>5. NeedOK'
  BY <1>1, <1>3 DEF NeedOK
<1>6. EpochTells'
  BY <1>1, <1>3 DEF EpochTells, Reading
<1>7. MemoGood'
  BY <1>1, <1>2, <1>3, <1>4 DEF MemoGood, EpochTells, Reading, Since
<1>8. QueryGood' /\ FingerprintFresh'
  BY <1>1, <1>3, <1>4 DEF QueryGood, FingerprintFresh, Since
<1> QED
  BY <1>5, <1>6, <1>7, <1>8

LEMMA FreshStep == TypeInv /\ TypeInv' /\ FreshInv /\ [Next]_vars => FreshInv'
<1> SUFFICES ASSUME TypeInv, TypeInv', FreshInv, [Next]_vars PROVE FreshInv'
  OBVIOUS
<1>0. TypeOK /\ UNCHANGED vars => FreshInv'
  BY DEF FreshInv, vars, process, ghosts, NeedOK, EpochTells, MemoGood,
     QueryGood, FingerprintFresh, Reading, Since
<1>1. ASSUME NEW t \in Threads, NEW k \in Keys, ServeFrozen(t, k) PROVE FreshInv'
  BY <1>1 DEF ServeFrozen, process, FreshInv, NeedOK, EpochTells, MemoGood,
     QueryGood, FingerprintFresh, Reading, Since
<1>2. ASSUME NEW t \in Threads, NEW id \in Ids, TextKnown(t, id) PROVE FreshInv'
  BY <1>2 DEF TextKnown, process, FreshInv, NeedOK, EpochTells, MemoGood,
     QueryGood, FingerprintFresh, Reading, Since
<1>3. ASSUME NEW t \in Threads, Bump(t) \/ BumpDeleted(t) PROVE FreshInv'
  <2>1. /\ Bumped(t) /\ UNCHANGED <<pools, memo>>
        /\ pc'[t] \in {"freeze", "idle"}
        /\ \A u \in Threads \ {t} : pc'[u] = pc[u] /\ mem'[u] = mem[u]
    BY <1>3 DEF Bump, BumpDeleted, Goto, End, TypeInv, TypeOK
  <2> QED
    BY <2>1, SettleStep DEF Reading
<1>4. ASSUME NEW t \in Threads, Upsert(t) \/ \E id \in Ids : DeleteRow(t, id)
      PROVE  FreshInv'
  <2>1. Grows
    <3>1. PICK content \in SUBSET Ids : Store(content)
      <4>1. store \subseteq Ids
        BY StoreType DEF TypeInv, TypeOK
      <4>2. Upsert(t) => mem[t].id \in Ids
        BY DEF Upsert, At, TypeInv, HeldIds, HeldOK
      <4> QED
        BY <1>4, <4>1, <4>2 DEF Upsert, DeleteRow
    <3> QED
      BY <3>1, StoreStep DEF Grows, TypeInv, TypeOK
  <2>2. /\ UNCHANGED <<epoch, settled, memo>>
        /\ pc'[t] \in {"insert", "evict"}
        /\ \A u \in Threads \ {t} : pc'[u] = pc[u] /\ mem'[u] = mem[u]
    BY <1>4 DEF Upsert, DeleteRow, Begin, Goto, TypeInv, TypeOK
  <2> QED
    BY <2>1, <2>2, QuietStep DEF Reading
<1>5. ASSUME NEW t \in Threads,
             \/ \E k \in Keys : Miss(t, k)
             \/ \E id \in Ids : TextNew(t, id) \/ LoadMotif(t, id)
      PROVE  FreshInv'
  <2>1. /\ UNCHANGED <<pools, epoch, settled, memo>>
        /\ pc'[t] \in {"generating", "upsert", "loading"}
        /\ \A u \in Threads \ {t} : pc'[u] = pc[u] /\ mem'[u] = mem[u]
    BY <1>5 DEF Miss, TextNew, LoadMotif, Begin, ghosts, TypeInv, TypeOK
  <2> QED
    BY <2>1, QuietStep DEF Reading, Grows, TypeInv, TypeOK
<1>6. ASSUME NEW t \in Threads,
             \/ \E id \in Ids : Generated(t, id)
             \/ Regenerate(t) \/ UpsertFails(t) \/ Insert(t) \/ RowFound(t)
             \/ Evict(t) \/ Flush(t)
      PROVE  FreshInv'
  <2>1. /\ UNCHANGED <<pools, epoch, settled, memo>>
        /\ pc'[t] \in {"generating", "upsert", "insert", "bump", "loaded", "flush",
                       "uncount"}
        /\ \A u \in Threads \ {t} : pc'[u] = pc[u] /\ mem'[u] = mem[u]
    BY <1>6 DEF Generated, Regenerate, UpsertFails, Insert, RowFound, Evict,
       Flush, At, Goto, ghosts, TypeInv, TypeOK
  <2> QED
    BY <2>1, QuietStep DEF Reading, Grows, TypeInv, TypeOK
<1>7. ASSUME NEW t \in Threads,
             \/ GenerateRaises(t) \/ Freeze(t) \/ UnknownMotif(t) \/ KeepRow(t)
             \/ Answer(t)
      PROVE  FreshInv'
  <2>1. /\ UNCHANGED <<pools, epoch, settled, memo>>
        /\ pc'[t] = "idle"
        /\ \A u \in Threads \ {t} : pc'[u] = pc[u] /\ mem'[u] = mem[u]
    BY <1>7 DEF GenerateRaises, Freeze, UnknownMotif, KeepRow, Answer, End,
       ghosts, TypeInv, TypeOK
  <2> QED
    BY <2>1, QuietStep DEF Reading, Grows, TypeInv, TypeOK
<1>8. ASSUME NEW t \in Threads, QueryFails(t) PROVE FreshInv'
  <2>1. /\ UNCHANGED <<pools, epoch, settled, memo, mem>>
        /\ pc[t] = "querying" /\ pc'[t] = "answered"
        /\ \A u \in Threads \ {t} : pc'[u] = pc[u] /\ mem'[u] = mem[u]
    BY <1>8 DEF QueryFails, At, Goto, ghosts, TypeInv, TypeOK
  <2>2. ~mem'[t].ok /\ mem'[t].need \in 1..settled
    BY <2>1 DEF FreshInv, QueryGood, NeedOK
  <2> QED
    BY <2>1, <2>2, QuietStep DEF Reading, Grows, TypeInv, TypeOK
<1>9. ASSUME NEW h \in BOOLEAN, Restart(h) PROVE FreshInv'
  <2>1. ~memo'.set /\ \A t \in Threads : pc'[t] = "idle"
    BY <1>9 DEF Restart, NoMemo
  <2> QED
    BY <2>1 DEF FreshInv, NeedOK, EpochTells, MemoGood, QueryGood,
       FingerprintFresh, Reading
<1> QED
  BY <1>0, <1>1, <1>2, <1>3, <1>4, <1>5, <1>6, <1>7, <1>8, <1>9, ReadEpochFresh,
     CheckMemoFresh, QueryIdsFresh, MemoizeFresh
     DEF Next, Register, TypeInv

\* A version that was not degraded is that of a pool with every change in it that
\* was complete when it was asked for (registry_fingerprint.py,
\* registry_version_for), for any number of threads.
THEOREM FingerprintFreshAlways == Spec => []FingerprintFresh
<1>1. FreshInv => FingerprintFresh
  BY DEF FreshInv
<1> QED
  BY <1>1, TypeInit, TypeStep, FreshInit, FreshStep, PTL DEF Spec

-----------------------------------------------------------------------------
(* What is handed out.                                                     *)

LEMMA DeleteRowHolds ==
  ASSUME TypeInv, TypeInv', NEW t \in Threads, NEW id \in Ids, DeleteRow(t, id)
  PROVE  mem'[t].id = id /\ pc'[t] = "evict"
<1> DEFINE m == [NoMem EXCEPT !.id = id, !.at = Len(pools')]
<1>1. Len(pools') \in Nat
  BY DEF TypeInv, TypeOK
<1>2. m.id = id
  BY <1>1, DeleterMemory
<1>3. mem'[t] = m /\ pc'[t] = "evict"
  BY DEF DeleteRow, Begin, TypeInv, TypeOK
<1> QED
  BY <1>2, <1>3

LEMMA UsableInit == Init => UsableInv
BY DEF Init, UsableInv

LEMMA UsableStep ==
  TypeInv /\ TypeInv' /\ UsableInv /\ [Next]_vars => UsableInv'
<1> SUFFICES ASSUME TypeInv, TypeInv', UsableInv, [Next]_vars PROVE UsableInv'
  OBVIOUS
<1> USE DEF UsableInv, Usable
<1>0. /\ pc \in [Threads -> Stages] /\ mem \in [Threads -> Memory]
      /\ frozen \in [Keys -> Ids \cup {NoId}]
  BY DEF TypeInv, TypeOK
<1>p. UNCHANGED pools => UNCHANGED store
  BY DEF store
<1>1. ASSUME NEW t \in Threads, NEW k \in Keys, ServeFrozen(t, k) \/ Miss(t, k)
      PROVE  UsableInv'
  BY <1>0, <1>p, <1>1 DEF ServeFrozen, Miss, Begin, process, ghosts
<1>2. ASSUME NEW t \in Threads, NEW id \in Ids,
             Generated(t, id) \/ TextKnown(t, id) \/ TextNew(t, id) \/ LoadMotif(t, id)
      PROVE  UsableInv'
  BY <1>0, <1>p, <1>2 DEF Generated, TextKnown, TextNew, LoadMotif, Begin, Goto,
     process, ghosts
<1>3. ASSUME NEW t \in Threads, NEW id \in Ids, DeleteRow(t, id) PROVE UsableInv'
  <2>1. store' = store \ {id}
    BY <1>3, StoreType, StoreStep DEF DeleteRow, TypeInv, TypeOK
  <2>2. mem'[t].id = id /\ pc'[t] = "evict"
    BY <1>3, DeleteRowHolds
  <2>3. \A u \in Threads \ {t} : pc'[u] = pc[u] /\ mem'[u] = mem[u]
    BY <1>3, <1>0 DEF DeleteRow, Begin
  <2> QED
    BY <1>3, <2>1, <2>2, <2>3 DEF DeleteRow
<1>4. ASSUME NEW t \in Threads, Regenerate(t) \/ GenerateRaises(t) PROVE UsableInv'
  BY <1>0, <1>p, <1>4 DEF Regenerate, GenerateRaises, End, At, ghosts
<1>5. ASSUME NEW t \in Threads, Upsert(t) PROVE UsableInv'
  <2>1. mem[t].id \in Ids
    BY <1>5 DEF Upsert, At, TypeInv, HeldIds, HeldOK
  <2>2. store' = store \cup {mem[t].id}
    BY <1>5, <2>1, StoreType, StoreStep DEF Upsert, TypeInv, TypeOK
  <2>3. mem'[t].id = mem[t].id /\ pc'[t] = "insert"
    BY <1>5, <1>0 DEF Upsert, Goto, Memory
  <2>4. \A u \in Threads \ {t} : pc'[u] = pc[u] /\ mem'[u] = mem[u]
    BY <1>5, <1>0 DEF Upsert, Goto
  <2> QED
    BY <1>5, <2>2, <2>3, <2>4 DEF Upsert
<1>6. ASSUME NEW t \in Threads, UpsertFails(t) PROVE UsableInv'
  BY <1>0, <1>p, <1>6 DEF UpsertFails, Goto
<1>7. ASSUME NEW t \in Threads, Insert(t) PROVE UsableInv'
  BY <1>0, <1>p, <1>7 DEF Insert, At, Goto, ghosts
<1>8. ASSUME NEW t \in Threads, Bump(t) \/ BumpDeleted(t) PROVE UsableInv'
  BY <1>0, <1>p, <1>8 DEF Bump, BumpDeleted, At, Goto, End
<1>9. ASSUME NEW t \in Threads, Freeze(t) PROVE UsableInv'
  BY <1>0, <1>p, <1>9 DEF Freeze, At, End
<1>10. ASSUME NEW t \in Threads, RowFound(t) \/ UnknownMotif(t) \/ KeepRow(t)
       PROVE  UsableInv'
  BY <1>0, <1>p, <1>10 DEF RowFound, UnknownMotif, KeepRow, At, Goto, End, ghosts
<1>11. ASSUME NEW t \in Threads, Evict(t) \/ Flush(t) PROVE UsableInv'
  BY <1>0, <1>p, <1>11 DEF Evict, Flush, Flushed, At, Goto, ghosts
<1>12. ASSUME NEW t \in Threads,
              \/ ReadEpoch(t) \/ CheckMemo(t) \/ QueryIds(t) \/ QueryFails(t)
              \/ Memoize(t) \/ Answer(t)
       PROVE  UsableInv'
  <2>1. /\ UNCHANGED <<pools, motifs, frozen, served, unsaved, deleted>>
        /\ pc'[t] \in {"check", "querying", "queried", "answered", "idle"}
        /\ \A u \in Threads \ {t} : pc'[u] = pc[u] /\ mem'[u] = mem[u]
    BY <1>0, <1>12 DEF ReadEpoch, CheckMemo, QueryIds, QueryFails, Memoize, Answer,
       Begin, Goto, End, ghosts
  <2> QED
    BY <2>1, <1>p
<1>13. ASSUME NEW h \in BOOLEAN, Restart(h) PROVE UsableInv'
  BY <1>p, <1>13 DEF Restart
<1>14. ASSUME UNCHANGED vars PROVE UsableInv'
  BY <1>p, <1>14 DEF vars, process, ghosts
<1> QED
  BY <1>1, <1>2, <1>3, <1>4, <1>5, <1>6, <1>7, <1>8, <1>9, <1>10, <1>11, <1>12,
     <1>13, <1>14 DEF Next, Register

\* A motif id that was handed out stays usable until it is deleted or, when it was
\* never persisted, the process restarts (registry.py, register_motif).
THEOREM ServedUsableAlways == Spec => []ServedUsable
<1>1. UsableInv => ServedUsable
  BY DEF UsableInv, Usable, ServedUsable
<1> QED
  BY <1>1, TypeInit, TypeStep, UsableInit, UsableStep, PTL DEF Spec

-----------------------------------------------------------------------------
(* What is deleted.                                                        *)

LEMMA GoneInit == Init => GoneInv
BY DEF Init, GoneInv

\* A step of a thread that neither deletes an id nor takes one up.
LEMMA OtherWork ==
  ASSUME GoneInv, UNCHANGED store, gone' \subseteq gone, NEW t \in Threads,
         pc[t] \notin {"evict", "flush"},
         pc'[t] \in Stages \ {"evict", "flush"},
         pc'[t] \in {"upsert", "insert", "bump", "freeze", "loaded"} =>
           mem'[t].id \notin gone',
         \A u \in Threads \ {t} : pc'[u] = pc[u] /\ mem'[u] = mem[u],
         \A id \in gone : id \in motifs' => id \in motifs,
         \A id \in gone, k \in SpecKeys : frozen'[k] = id => frozen[k] = id
  PROVE  GoneInv'
<1> SUFFICES ASSUME NEW id \in gone'
             PROVE  /\ ~AtWorkOn(id)'
                    /\ id \in motifs' =>
                         \E u \in Threads : mem'[u].id = id /\ pc'[u] = "evict"
                    /\ (\E k \in SpecKeys : frozen'[k] = id) => Deleting(id)'
  BY DEF GoneInv
<1>1. ~AtWorkOn(id)'
  BY DEF GoneInv, AtWorkOn
<1>2. ASSUME id \in motifs'
      PROVE  \E u \in Threads : mem'[u].id = id /\ pc'[u] = "evict"
  <2>1. PICK u \in Threads : mem[u].id = id /\ pc[u] = "evict"
    BY <1>2 DEF GoneInv
  <2> QED
    BY <2>1
<1>3. ASSUME NEW k \in SpecKeys, frozen'[k] = id PROVE Deleting(id)'
  <2>1. PICK u \in Threads : mem[u].id = id /\ pc[u] \in {"evict", "flush"}
    BY <1>3 DEF GoneInv, Deleting
  <2> QED
    BY <2>1 DEF Deleting
<1> QED
  BY <1>1, <1>2, <1>3

LEMMA GoneStep == TypeInv /\ TypeInv' /\ GoneInv /\ [Next]_vars => GoneInv'
<1> SUFFICES ASSUME TypeInv, TypeInv', GoneInv, [Next]_vars PROVE GoneInv'
  OBVIOUS
<1>0. /\ pc \in [Threads -> Stages] /\ mem \in [Threads -> Memory]
      /\ pc' \in [Threads -> Stages] /\ NoId \notin Ids /\ gone \subseteq Ids
  BY IdsAssumption DEF TypeInv, TypeOK
<1>p. UNCHANGED pools => UNCHANGED store
  BY DEF store
<1>w. ASSUME NEW t \in Threads,
             pc[t] \in {"upsert", "insert", "bump", "freeze", "loaded"}
      PROVE  mem[t].id \notin gone
  BY <1>w DEF GoneInv, AtWorkOn
<1>1. ASSUME NEW t \in Threads, NEW k \in Keys, ServeFrozen(t, k) PROVE GoneInv'
  BY <1>p, <1>1 DEF ServeFrozen, process, GoneInv, AtWorkOn, Deleting
<1>2. ASSUME NEW t \in Threads, NEW id \in Ids, TextKnown(t, id) PROVE GoneInv'
  BY <1>p, <1>2 DEF TextKnown, process, GoneInv, AtWorkOn, Deleting
<1>3. ASSUME NEW t \in Threads,
             \/ \E k \in Keys : Miss(t, k)
             \/ \E id \in Ids : LoadMotif(t, id)
             \/ Regenerate(t) \/ GenerateRaises(t) \/ UnknownMotif(t)
             \/ BumpDeleted(t) \/ ReadEpoch(t) \/ CheckMemo(t) \/ QueryIds(t)
             \/ QueryFails(t) \/ Memoize(t) \/ Answer(t)
      PROVE  GoneInv'
  <2>1. /\ UNCHANGED <<pools, motifs, frozen, gone>>
        /\ pc[t] \notin {"evict", "flush"}
        /\ pc'[t] \in {"generating", "loading", "idle", "check", "querying",
                       "queried", "answered"}
        /\ \A u \in Threads \ {t} : pc'[u] = pc[u] /\ mem'[u] = mem[u]
    BY <1>0, <1>3 DEF Miss, LoadMotif, Regenerate, GenerateRaises, UnknownMotif,
       BumpDeleted, ReadEpoch, CheckMemo, QueryIds, QueryFails, Memoize, Answer,
       Begin, At, Goto, End, ghosts
  <2> QED
    BY <2>1, <1>p, OtherWork DEF Stages
<1>4. ASSUME NEW t \in Threads, NEW id \in Ids, Generated(t, id) \/ TextNew(t, id)
      PROVE  GoneInv'
  <2>1. /\ UNCHANGED <<pools, motifs, frozen>> /\ gone' = gone \ {id}
        /\ pc[t] \in {"generating", "idle"} /\ pc'[t] = "upsert"
        /\ \A u \in Threads \ {t} : pc'[u] = pc[u] /\ mem'[u] = mem[u]
    BY <1>0, <1>4 DEF Generated, TextNew, Begin, At, Goto
  <2>2. mem'[t].id = id
    <3>1. CASE Generated(t, id)
      BY <1>0, <3>1 DEF Generated, Memory
    <3>2. CASE TextNew(t, id)
      <4>1. mem' = [mem EXCEPT ![t] = [NoMem EXCEPT !.id = id]]
        BY <3>2 DEF TextNew, Begin
      <4> QED
        BY <4>1, <1>0, MemoryType
    <3> QED
      BY <1>4, <3>1, <3>2
  <2> QED
    BY <2>1, <2>2, <1>p, OtherWork DEF Stages
<1>5. ASSUME NEW t \in Threads, Upsert(t) PROVE GoneInv'
  <2>1. mem[t].id \in Ids /\ mem[t].id \notin gone /\ pc[t] = "upsert"
    BY <1>5, <1>w DEF Upsert, At, TypeInv, HeldIds, HeldOK
  <2>2. store' = store \cup {mem[t].id}
    BY <1>5, <2>1, StoreType, StoreStep DEF Upsert, TypeInv, TypeOK
  <2>3. mem'[t].id = mem[t].id /\ pc'[t] = "insert"
    BY <1>5, <1>0 DEF Upsert, Goto, Memory
  <2>4. \A u \in Threads \ {t} : pc'[u] = pc[u] /\ mem'[u] = mem[u]
    BY <1>5, <1>0 DEF Upsert, Goto
  <2>5. UNCHANGED <<motifs, frozen, gone>>
    BY <1>5 DEF Upsert
  <2> QED
    BY <2>1, <2>2, <2>3, <2>4, <2>5 DEF GoneInv, AtWorkOn, Deleting
<1>6. ASSUME NEW t \in Threads,
             UpsertFails(t) \/ Insert(t) \/ Bump(t) \/ Freeze(t) \/ KeepRow(t)
      PROVE  GoneInv'
  <2>1. /\ UNCHANGED <<pools, gone>> /\ mem[t].id \notin gone
        /\ pc[t] \in {"upsert", "insert", "bump", "freeze", "loaded"}
        /\ pc'[t] \in {"insert", "bump", "freeze", "idle"}
        /\ pc'[t] # "idle" => mem'[t].id = mem[t].id
        /\ \A u \in Threads \ {t} : pc'[u] = pc[u] /\ mem'[u] = mem[u]
    BY <1>0, <1>6, <1>w DEF UpsertFails, Insert, Bump, Freeze, KeepRow, At, Goto,
       End, ghosts
  <2>2. motifs' \subseteq motifs \cup {mem[t].id}
    BY <1>6 DEF UpsertFails, Insert, Bump, Freeze, KeepRow
  <2>3. \A k \in SpecKeys : frozen'[k] \in {frozen[k], mem[t].id}
    BY <1>6 DEF UpsertFails, Insert, Bump, Freeze, KeepRow, Keys
  <2> QED
    BY <2>1, <2>2, <2>3, <1>p, OtherWork DEF Stages
<1>7. ASSUME NEW t \in Threads, RowFound(t) PROVE GoneInv'
  <2>1. /\ UNCHANGED <<pools, motifs, frozen, gone, mem>>
        /\ pc[t] = "loading" /\ pc'[t] = "loaded"
        /\ \A u \in Threads \ {t} : pc'[u] = pc[u] /\ mem'[u] = mem[u]
    BY <1>0, <1>7 DEF RowFound, At, Goto, ghosts
  <2>2. mem[t].id \notin gone
    BY <1>7 DEF RowFound, GoneInv
  <2> QED
    BY <2>1, <2>2, <1>p, OtherWork DEF Stages
<1>8. ASSUME NEW t \in Threads, NEW id \in Ids, DeleteRow(t, id) PROVE GoneInv'
  <2>1. store' = store \ {id}
    BY <1>8, StoreType, StoreStep DEF DeleteRow, TypeInv, TypeOK
  <2>2. mem'[t].id = id /\ pc'[t] = "evict" /\ pc[t] = "idle"
    BY <1>8, DeleteRowHolds DEF DeleteRow, Begin
  <2>3. \A u \in Threads \ {t} : pc'[u] = pc[u] /\ mem'[u] = mem[u]
    BY <1>8, <1>0 DEF DeleteRow, Begin
  <2>4. /\ UNCHANGED <<motifs, frozen>>
        /\ gone' \subseteq gone \cup {id} /\ (id \in gone' => ~AtWorkOn(id))
    BY <1>8 DEF DeleteRow, GoneInv
  <2> SUFFICES ASSUME NEW d \in gone'
               PROVE  /\ d \notin store' /\ ~AtWorkOn(d)'
                      /\ d \in motifs' =>
                           \E u \in Threads : mem'[u].id = d /\ pc'[u] = "evict"
                      /\ (\E k \in SpecKeys : frozen'[k] = d) => Deleting(d)'
    BY DEF GoneInv
  <2>5. CASE d = id
    BY <2>1, <2>2, <2>3, <2>4, <2>5 DEF AtWorkOn, Deleting
  <2>6. CASE d # id
    <3>1. d \in gone
      BY <2>4, <2>6
    <3> QED
      BY <2>1, <2>2, <2>3, <2>4, <3>1 DEF GoneInv, AtWorkOn, Deleting
  <2> QED
    BY <2>5, <2>6
<1>9. ASSUME NEW t \in Threads, Evict(t) PROVE GoneInv'
  <2>1. /\ UNCHANGED <<pools, frozen, gone, mem>>
        /\ pc[t] = "evict" /\ pc'[t] = "flush" /\ motifs' = motifs \ {mem[t].id}
        /\ \A u \in Threads \ {t} : pc'[u] = pc[u]
    BY <1>0, <1>9 DEF Evict, At, Goto, ghosts
  <2> QED
    BY <2>1, <1>p DEF GoneInv, AtWorkOn, Deleting
<1>10. ASSUME NEW t \in Threads, Flush(t) PROVE GoneInv'
  <2>1. /\ UNCHANGED <<pools, motifs, gone, mem>>
        /\ pc[t] = "flush" /\ pc'[t] = "uncount"
        /\ \A u \in Threads \ {t} : pc'[u] = pc[u]
    BY <1>0, <1>10 DEF Flush, At, Goto, ghosts
  <2>2. \A k \in SpecKeys : frozen'[k] = NoId
    BY <1>10 DEF Flush, Flushed, Keys
  <2> QED
    BY <2>1, <2>2, <1>0, <1>p DEF GoneInv, AtWorkOn, Deleting
<1>11. ASSUME NEW h \in BOOLEAN, Restart(h) PROVE GoneInv'
  <2>1. /\ UNCHANGED <<pools, gone>> /\ motifs' \subseteq store
        /\ \A t \in Threads : pc'[t] = "idle"
        /\ \A k \in SpecKeys : frozen'[k] = NoId
    BY <1>11 DEF Restart, Keys
  <2> QED
    BY <2>1, <1>0, <1>p DEF GoneInv, AtWorkOn, Deleting
<1>12. ASSUME UNCHANGED vars PROVE GoneInv'
  BY <1>p, <1>12 DEF vars, process, ghosts, GoneInv, AtWorkOn, Deleting
<1> QED
  BY <1>1, <1>2, <1>3, <1>4, <1>5, <1>6, <1>7, <1>8, <1>9, <1>10, <1>11, <1>12
     DEF Next, Register

\* A motif that was deleted while nobody was at work on it stays out of the store,
\* MOTIFS and the spec cache until somebody makes it again (registry.py,
\* delete_motif).
THEOREM DeletedStaysGoneAlways == Spec => []DeletedStaysGone
<1>1. GoneInv => DeletedStaysGone
  BY DEF GoneInv, DeletedStaysGone, Deleting
<1> QED
  BY <1>1, TypeInit, TypeStep, GoneInit, GoneStep, PTL DEF Spec

\* A step that hands out id otherwise than from the cache of the images: a text
\* motif that is known, a registration, a spec that hits.
HandsOut(t, id) ==
  \/ TextKnown(t, id)
  \/ Freeze(t) /\ mem[t].id = id
  \/ \E k \in SpecKeys : ServeFrozen(t, k) /\ frozen[k] = id

\* What delete_motif's docstring says ("can never be served again from a warm
\* cache"), as far as the code keeps it: once the deletion has flushed, only an
\* image that was vectorized into the motif can still bring it back.
OnlyImagesBringBack ==
  [][\A t \in Threads, id \in gone : ~Deleting(id) => ~HandsOut(t, id)]_vars

\* A deleted motif is handed out by the image cache or not at all, for any number
\* of threads, keys and ids.
THEOREM OnlyImagesBringBackAlways == Spec => OnlyImagesBringBack
<1>1. GoneInv /\ [Next]_vars
        => [\A t \in Threads, id \in gone : ~Deleting(id) => ~HandsOut(t, id)]_vars
  <2> SUFFICES ASSUME GoneInv, NEW t \in Threads, NEW id \in gone, ~Deleting(id),
                      HandsOut(t, id)
               PROVE  FALSE
    OBVIOUS
  <2>1. id \notin motifs /\ ~AtWorkOn(id) /\ \A k \in SpecKeys : frozen[k] # id
    BY DEF GoneInv, Deleting
  <2>2. ~TextKnown(t, id)
    BY <2>1 DEF TextKnown
  <2>3. ~(Freeze(t) /\ mem[t].id = id)
    BY <2>1 DEF Freeze, At, AtWorkOn
  <2> QED
    BY <2>1, <2>2, <2>3 DEF HandsOut
<1> QED
  BY <1>1, TypeInit, TypeStep, GoneInit, GoneStep, PTL DEF Spec, OnlyImagesBringBack
==============================================================================
