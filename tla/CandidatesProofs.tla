--------------------------- MODULE CandidatesProofs ---------------------------
(***************************************************************************)
(* The candidate search for any number of designs, drawings and candidates *)
(* asked for: what the two thinnings and the merge leave is counted.       *)
(*                                                                         *)
(* A thinning takes the first n of a finite set in a strict total order.   *)
(* The order is a set R of pairs here, and a candidate's place in it the   *)
(* number of those before it.                                              *)
(***************************************************************************)
EXTENDS Candidates, FiniteSetTheorems, TLAPS

IsOrder(R, S) ==
  /\ \A x \in S : <<x, x>> \notin R
  /\ \A x, y \in S : x = y \/ <<x, y>> \in R \/ <<y, x>> \in R
  /\ \A x, y, z \in S : <<x, y>> \in R /\ <<y, z>> \in R => <<x, z>> \in R

Before(c, S, R) == {d \in S : <<d, c>> \in R}
Place(c, S, R)  == Cardinality(Before(c, S, R))
FirstOf(n, S, R) == {c \in S : Place(c, S, R) < n}

(* A set of naturals has a least member.                                    *)
LEMMA LeastNatural ==
  ASSUME NEW S, S \subseteq Nat, S # {}
  PROVE  \E x \in S : \A y \in S : x <= y
<1> DEFINE R == OpToRel(<, Nat)
<1>1. \A x, y \in Nat : <<x, y>> \in R <=> x < y  BY DEF OpToRel
<1>2. IsWellFoundedOn(R, Nat)  BY NatLessThanWellFounded
<1> HIDE DEF R
<1>3. PICK x \in S : \A y \in S : <<y, x>> \notin R  BY <1>2, WFMin
<1>4. ASSUME NEW y \in S PROVE x <= y
  <2>1. x \in Nat /\ y \in Nat /\ ~(y < x)  BY <1>1, <1>3
  <2> QED  BY <2>1
<1> QED  BY <1>4

(* Two sets that a function pairs off have as many members.                 *)
LEMMA PairedOff ==
  ASSUME NEW S, NEW T, IsFiniteSet(T), NEW f \in [S -> T],
         \A x, y \in S : f[x] = f[y] => x = y,
         \A t \in T : \E x \in S : f[x] = t
  PROVE  IsFiniteSet(S) /\ Cardinality(S) = Cardinality(T)
<1>1. f \in Injection(S, T)  BY DEF Injection, IsInjective
<1>2. f \in Surjection(S, T)  BY DEF Surjection
<1> QED  BY <1>1, <1>2, FS_Injection

-----------------------------------------------------------------------------
\* Places in a finite ordered set

LEMMA BeforeFinite ==
  ASSUME NEW S, IsFiniteSet(S), NEW R, NEW c
  PROVE  IsFiniteSet(Before(c, S, R)) /\ Place(c, S, R) \in Nat
<1>1. Before(c, S, R) \in SUBSET S  BY DEF Before
<1>2. IsFiniteSet(Before(c, S, R))  BY <1>1, FS_Subset
<1> QED  BY <1>2, FS_CardinalityType DEF Place

LEMMA PlaceGrows ==
  ASSUME NEW S, IsFiniteSet(S), NEW R, IsOrder(R, S),
         NEW c \in S, NEW d \in S, <<c, d>> \in R
  PROVE  Place(c, S, R) < Place(d, S, R)
<1>1. c \notin Before(c, S, R)  BY DEF Before, IsOrder
<1>2. Before(c, S, R) \cup {c} \in SUBSET Before(d, S, R)  BY DEF Before, IsOrder
<1>3. Cardinality(Before(c, S, R) \cup {c}) = Place(c, S, R) + 1
  BY <1>1, BeforeFinite, FS_AddElement DEF Place
<1>4. Cardinality(Before(c, S, R) \cup {c}) <= Place(d, S, R)
  BY <1>2, BeforeFinite, FS_Subset DEF Place
<1> QED  BY <1>3, <1>4, BeforeFinite

LEMMA PlaceTells ==
  ASSUME NEW S, IsFiniteSet(S), NEW R, IsOrder(R, S), NEW c \in S, NEW d \in S
  PROVE  /\ Place(c, S, R) < Place(d, S, R) => <<c, d>> \in R
         /\ Place(c, S, R) = Place(d, S, R) => c = d
<1>1. c = d \/ <<c, d>> \in R \/ <<d, c>> \in R  BY DEF IsOrder
<1>2. <<c, d>> \in R => Place(c, S, R) < Place(d, S, R)  BY PlaceGrows
<1>3. <<d, c>> \in R => Place(d, S, R) < Place(c, S, R)  BY PlaceGrows
<1>4. Place(c, S, R) \in Nat /\ Place(d, S, R) \in Nat  BY BeforeFinite
<1> QED  BY <1>1, <1>2, <1>3, <1>4

(* The places are the numbers below the size of the set, each once.         *)
LEMMA PlacesAreAll ==
  ASSUME NEW S, IsFiniteSet(S), NEW R, IsOrder(R, S)
  PROVE  /\ \A c \in S : Place(c, S, R) \in 0..Cardinality(S) - 1
         /\ \A k \in 0..Cardinality(S) - 1 : \E c \in S : Place(c, S, R) = k
<1> DEFINE N == Cardinality(S)
           f == [c \in S |-> Place(c, S, R)]
<1>1. N \in Nat  BY FS_CardinalityType
<1>2. ASSUME NEW c \in S PROVE Place(c, S, R) \in 0..N - 1
  <2>1. Before(c, S, R) \in SUBSET S /\ c \notin Before(c, S, R)  BY DEF Before, IsOrder
  <2>2. Place(c, S, R) <= N /\ Place(c, S, R) # N
    BY <2>1, FS_Subset DEF Place
  <2>3. Place(c, S, R) \in Nat  BY BeforeFinite
  <2> QED  BY <1>1, <2>2, <2>3
<1>3. IsFiniteSet(0..N - 1) /\ Cardinality(0..N - 1) = N
  <2> HIDE DEF N
  <2> DEFINE b == N - 1
  <2>1. b \in Int /\ 0 \in Int /\ b + 1 = N /\ (0 > b => N = 0)  BY <1>1
  <2> HIDE DEF b
  <2>2. IsFiniteSet(0..b)  BY <2>1, FS_Interval
  <2>3. Cardinality(0..b) = IF 0 > b THEN 0 ELSE b - 0 + 1  BY <2>1, FS_Interval
  <2>4. Cardinality(0..b) = N  BY <2>1, <2>3
  <2> QED  BY <2>2, <2>4 DEF b
<1>4. f \in [S -> 0..N - 1]  BY <1>2
<1>5. \A x, y \in S : f[x] = f[y] => x = y  BY PlaceTells
<1>6. f \in Injection(S, 0..N - 1)  BY <1>4, <1>5 DEF Injection, IsInjective
<1> HIDE DEF f
<1>7. f \in Surjection(S, 0..N - 1)  BY <1>3, <1>6, FS_Injection
<1>8. \A k \in 0..N - 1 : \E c \in S : f[c] = k  BY <1>7 DEF Surjection
<1> QED  BY <1>2, <1>8 DEF f

(* The first n are n, or all.                                               *)
LEMMA FirstCounts ==
  ASSUME NEW S, IsFiniteSet(S), NEW R, IsOrder(R, S), NEW n \in Nat
  PROVE  /\ FirstOf(n, S, R) \subseteq S
         /\ IsFiniteSet(FirstOf(n, S, R))
         /\ Cardinality(FirstOf(n, S, R)) = Min2(n, Cardinality(S))
<1> DEFINE N == Cardinality(S)
           m == Min2(n, N)
           F == FirstOf(n, S, R)
           f == [c \in F |-> Place(c, S, R)]
<1>1. N \in Nat /\ m \in Nat /\ m <= n /\ m <= N /\ (m = n \/ m = N)
  BY FS_CardinalityType DEF Min2
<1>2. F \subseteq S  BY DEF FirstOf
<1>3. ASSUME NEW c \in F PROVE Place(c, S, R) \in 0..m - 1
  <2>1. c \in S /\ Place(c, S, R) < n  BY DEF FirstOf
  <2>2. Place(c, S, R) \in 0..N - 1  BY <2>1, PlacesAreAll
  <2> QED  BY <1>1, <2>1, <2>2
<1>4. ASSUME NEW k \in 0..m - 1 PROVE \E c \in F : f[c] = k
  <2>1. k \in 0..N - 1 /\ k < n  BY <1>1
  <2>2. PICK c \in S : Place(c, S, R) = k  BY <2>1, PlacesAreAll
  <2>3. c \in F  BY <2>1, <2>2 DEF FirstOf
  <2> QED  BY <2>2, <2>3
<1>5. f \in [F -> 0..m - 1]  BY <1>3
<1>6. \A x, y \in F : f[x] = f[y] => x = y  BY <1>2, PlaceTells
<1> HIDE DEF f, F, m, N
<1>7. IsFiniteSet(0..m - 1) /\ Cardinality(0..m - 1) = m  BY <1>1, FS_Interval
<1>8. IsFiniteSet(F) /\ Cardinality(F) = m  BY <1>4, <1>5, <1>6, <1>7, PairedOff
<1> QED  BY <1>2, <1>8 DEF F, m, N

(* None of the first comes after one that is left out.                      *)
LEMMA FirstComeFirst ==
  ASSUME NEW S, IsFiniteSet(S), NEW R, IsOrder(R, S), NEW n \in Nat,
         NEW c \in FirstOf(n, S, R), NEW d \in S \ FirstOf(n, S, R)
  PROVE  <<c, d>> \in R
<1>1. c \in S /\ Place(c, S, R) < n /\ ~(Place(d, S, R) < n)  BY DEF FirstOf
<1>2. Place(c, S, R) \in Nat /\ Place(d, S, R) \in Nat  BY BeforeFinite
<1> QED  BY <1>1, <1>2, PlaceTells

(* The best of each kind: f gives the kind.                                 *)
Leaders(S, R, f) == {c \in S : \A d \in S : f[d] = f[c] => d = c \/ <<c, d>> \in R}

LEMMA LeadersLead ==
  ASSUME NEW S, IsFiniteSet(S), NEW R, IsOrder(R, S), NEW f, DOMAIN f = S
  PROVE  LET L == Leaders(S, R, f)
         IN /\ L \subseteq S
            /\ IsFiniteSet(L)
            /\ \A c, d \in L : f[c] = f[d] => c = d
            /\ \A c \in S : \E l \in L : f[l] = f[c]
            /\ IsFiniteSet({f[c] : c \in S})
            /\ Cardinality(L) = Cardinality({f[c] : c \in S})
<1> DEFINE L == Leaders(S, R, f)
           kinds == {f[c] : c \in S}
<1>1. L \subseteq S  BY DEF Leaders
<1>2. IsFiniteSet(L)  BY <1>1, FS_Subset
<1>3. ASSUME NEW c \in L, NEW d \in L, f[c] = f[d] PROVE c = d
  <2>1. c \in S /\ d \in S /\ (d = c \/ <<c, d>> \in R) /\ (c = d \/ <<d, c>> \in R)
    BY <1>3 DEF Leaders
  <2> QED  BY <2>1 DEF IsOrder
<1>4. ASSUME NEW c \in S PROVE \E l \in L : f[l] = f[c]
  <2> DEFINE same == {d \in S : f[d] = f[c]}
             places == {Place(d, S, R) : d \in same}
  <2>1. places \subseteq Nat /\ places # {}  BY BeforeFinite
  <2>2. PICK k \in places : \A j \in places : k <= j
    <3> HIDE DEF places
    <3> QED  BY <2>1, LeastNatural
  <2>3. PICK l \in same : k = Place(l, S, R)  OBVIOUS
  <2>4. ASSUME NEW d \in S, f[d] = f[l] PROVE d = l \/ <<l, d>> \in R
    <3>1. Place(l, S, R) <= Place(d, S, R)  BY <2>2, <2>3, <2>4
    <3>2. Place(l, S, R) \in Nat /\ Place(d, S, R) \in Nat  BY BeforeFinite
    <3> QED  BY <2>3, <3>1, <3>2, PlaceTells
  <2>5. l \in L  BY <2>3, <2>4 DEF Leaders
  <2> QED  BY <2>3, <2>5
<1> DEFINE g == [c \in L |-> f[c]]
<1> HIDE DEF L
<1>5. g \in [L -> kinds]  BY <1>1
<1>6. \A t \in kinds : \E l \in L : g[l] = t  BY <1>4
<1>7. g \in Surjection(L, kinds)  BY <1>5, <1>6 DEF Surjection
<1>8. g \in Injection(L, kinds)  BY <1>5, <1>3 DEF Injection, IsInjective
<1> HIDE DEF g, kinds
<1>9. IsFiniteSet(kinds) /\ Cardinality(L) = Cardinality(kinds)
  BY <1>2, <1>7, <1>8, FS_Surjection
<1> QED  BY <1>1, <1>2, <1>3, <1>4, <1>9 DEF L, kinds

-----------------------------------------------------------------------------
\* The order of Better, and what the thinnings of a design leave

(* Candidates that a rank and a design tell apart.                          *)
Keyed(S) ==
  \A c, d \in S : /\ c.rank \in Nat /\ c.design \in Nat
                  /\ c.rank = d.rank /\ c.design = d.design => c = d

BetterOn(S) == {p \in S \X S : Better(p[1], p[2])}

LEMMA BetterOrders ==
  ASSUME NEW S, Keyed(S)
  PROVE  IsOrder(BetterOn(S), S)
<1>1. \A c, d \in S : <<c, d>> \in BetterOn(S) <=> Better(c, d)  BY DEF BetterOn
<1>2. \A c \in S : c.rank \in Nat /\ c.design \in Nat  BY DEF Keyed
<1>3. \A c \in S : ~Better(c, c)  BY <1>2 DEF Better
<1>4. \A c, d \in S : c = d \/ Better(c, d) \/ Better(d, c)  BY <1>2 DEF Better, Keyed
<1>5. \A c, d, e \in S : Better(c, d) /\ Better(d, e) => Better(c, e)
  BY <1>2 DEF Better
<1> QED  BY <1>1, <1>3, <1>4, <1>5 DEF IsOrder

LEMMA FirstBetter ==
  ASSUME NEW n, NEW S
  PROVE  {c \in S : Cardinality({d \in S : Better(d, c)}) < n} = FirstOf(n, S, BetterOn(S))
<1>1. ASSUME NEW c \in S PROVE {d \in S : Better(d, c)} = Before(c, S, BetterOn(S))
  BY DEF Before, BetterOn
<1> QED  BY <1>1 DEF FirstOf, Place

(* Thinned by drawing, a set keeps each drawing once.                       *)
LEMMA DedupedIs ==
  ASSUME NEW S, IsFiniteSet(S), Keyed(S)
  PROVE  /\ Deduped(S) \subseteq S
         /\ IsFiniteSet(Deduped(S))
         /\ Keyed(Deduped(S))
         /\ \A c, d \in Deduped(S) : c.svg = d.svg => c = d
         /\ DrawingsOf(Deduped(S)) = DrawingsOf(S)
         /\ IsFiniteSet(DrawingsOf(S))
         /\ Cardinality(Deduped(S)) = Cardinality(DrawingsOf(S))
<1> DEFINE f == [c \in S |-> c.svg]
           R == BetterOn(S)
<1>1. Deduped(S) = Leaders(S, R, f)
  BY DEF Deduped, Leaders, BetterOn
<1>2. {f[c] : c \in S} = DrawingsOf(S)  BY DEF DrawingsOf
<1>3. IsOrder(R, S) /\ DOMAIN f = S  BY BetterOrders
<1>4. \A c \in S : f[c] = c.svg  OBVIOUS
<1> HIDE DEF f, R
<1>5. /\ Deduped(S) \subseteq S
      /\ IsFiniteSet(Deduped(S))
      /\ \A c, d \in Deduped(S) : f[c] = f[d] => c = d
      /\ \A c \in S : \E l \in Deduped(S) : f[l] = f[c]
      /\ IsFiniteSet(DrawingsOf(S))
      /\ Cardinality(Deduped(S)) = Cardinality(DrawingsOf(S))
  BY <1>1, <1>2, <1>3, LeadersLead
<1>6. DrawingsOf(Deduped(S)) = DrawingsOf(S)  BY <1>4, <1>5 DEF DrawingsOf
<1> QED  BY <1>4, <1>5, <1>6 DEF Keyed

Leads(S) == Leaders(S, BetterOn(S), [c \in S |-> c.layout])

LEMMA LeadsIs ==
  ASSUME NEW S, IsFiniteSet(S), Keyed(S)
  PROVE  /\ Leads(S) \subseteq S
         /\ IsFiniteSet(Leads(S))
         /\ \A c, d \in Leads(S) : c.layout = d.layout => c = d
         /\ LayoutsOf(Leads(S)) = LayoutsOf(S)
         /\ Cardinality(Leads(S)) = Cardinality(LayoutsOf(S))
<1> DEFINE f == [c \in S |-> c.layout]
           R == BetterOn(S)
<1>2. {f[c] : c \in S} = LayoutsOf(S)  BY DEF LayoutsOf
<1>3. IsOrder(R, S) /\ DOMAIN f = S  BY BetterOrders
<1>4. \A c \in S : f[c] = c.layout  OBVIOUS
<1>0. Leads(S) = Leaders(S, R, f)  BY DEF Leads
<1> HIDE DEF f, R
<1>5. /\ Leads(S) \subseteq S
      /\ IsFiniteSet(Leads(S))
      /\ \A c, d \in Leads(S) : f[c] = f[d] => c = d
      /\ \A c \in S : \E l \in Leads(S) : f[l] = f[c]
      /\ Cardinality(Leads(S)) = Cardinality(LayoutsOf(S))
  BY <1>0, <1>2, <1>3, LeadersLead
<1>6. LayoutsOf(Leads(S)) = LayoutsOf(S)  BY <1>4, <1>5 DEF LayoutsOf
<1> QED  BY <1>4, <1>5, <1>6

PassOne(S, n) == FirstOf(n, Leads(Deduped(S)), BetterOn(Leads(Deduped(S))))
LeftOver(S, n) == Deduped(S) \ PassOne(S, n)
PassTwo(S, n) ==
  FirstOf(n - Cardinality(PassOne(S, n)), LeftOver(S, n), BetterOn(LeftOver(S, n)))

LEMMA SelectIs ==
  ASSUME NEW S, NEW n
  PROVE  Select(S, n) = PassOne(S, n) \cup PassTwo(S, n)
<1>1. {c \in Deduped(S) : \A d \in Deduped(S) : d.layout = c.layout => d = c \/ Better(c, d)}
        = Leads(Deduped(S))
  BY DEF Leads, Leaders, BetterOn
<1> DEFINE P(T, k) == {c \in T : Cardinality({d \in T : Better(d, c)}) < k}
<1>2. Select(S, n) =
        P(Leads(Deduped(S)), n)
          \cup P(Deduped(S) \ P(Leads(Deduped(S)), n), n - Cardinality(P(Leads(Deduped(S)), n)))
  BY <1>1 DEF Select, First
<1>3. \A T, k : P(T, k) = FirstOf(k, T, BetterOn(T))  BY FirstBetter
<1> HIDE DEF P
<1> QED  BY <1>2, <1>3 DEF PassOne, PassTwo, LeftOver

(* A selection has as many candidates as asked for, or one of each drawing, *)
(* and shows as many layouts, or all of them.                               *)
LEMMA SelectCounts ==
  ASSUME NEW S, IsFiniteSet(S), Keyed(S), NEW n \in Nat
  PROVE  /\ Select(S, n) \subseteq Deduped(S)
         /\ IsFiniteSet(Select(S, n))
         /\ Cardinality(Select(S, n)) = Min2(n, Cardinality(Deduped(S)))
         /\ Cardinality(LayoutsOf(Select(S, n)))
              = Min2(n, Cardinality(LayoutsOf(Deduped(S))))
<1> DEFINE D == Deduped(S)
           L == Leads(D)
           A == PassOne(S, n)
           B == LeftOver(S, n)
           C == PassTwo(S, n)
           k == n - Cardinality(A)
<1>1. D \subseteq S /\ IsFiniteSet(D) /\ Keyed(D)  BY DedupedIs
<1>2. /\ L \subseteq D /\ IsFiniteSet(L)
      /\ \A c, d \in L : c.layout = d.layout => c = d
      /\ LayoutsOf(L) = LayoutsOf(D)
      /\ Cardinality(L) = Cardinality(LayoutsOf(D))
  BY <1>1, LeadsIs
<1>3. Keyed(L)  BY <1>1, <1>2 DEF Keyed
<1>4. A \subseteq L /\ IsFiniteSet(A) /\ Cardinality(A) = Min2(n, Cardinality(L))
  BY <1>2, <1>3, BetterOrders, FirstCounts DEF PassOne
<1>5. /\ Cardinality(A) \in Nat /\ Cardinality(L) \in Nat /\ Cardinality(D) \in Nat
      /\ Cardinality(L) <= Cardinality(D)
      /\ Cardinality(A) <= n /\ k \in Nat
  BY <1>1, <1>2, <1>4, FS_CardinalityType, FS_Subset DEF Min2
<1>6. B \subseteq D /\ IsFiniteSet(B) /\ Keyed(B)
  BY <1>1, FS_Subset DEF LeftOver, Keyed
<1>7. C \subseteq B /\ IsFiniteSet(C) /\ Cardinality(C) = Min2(k, Cardinality(B))
  BY <1>5, <1>6, BetterOrders, FirstCounts DEF PassTwo
<1>8. Cardinality(B) = Cardinality(D) - Cardinality(A)
  <2>1. D \cap A = A  BY <1>2, <1>4
  <2>2. Cardinality(D \ A) = Cardinality(D) - Cardinality(D \cap A)
    BY <1>1, FS_Difference
  <2> QED  BY <2>1, <2>2 DEF LeftOver
<1>9. Select(S, n) = A \cup C  BY SelectIs
<1>10. Cardinality(A \cup C) = Cardinality(A) + Cardinality(C)
  <2>1. A \cap C = {}  BY <1>7 DEF LeftOver
  <2>2. Cardinality(A \cup C) = Cardinality(A) + Cardinality(C) - Cardinality(A \cap C)
    BY <1>4, <1>7, FS_Union
  <2>3. Cardinality(A \cap C) = 0  BY <2>1, FS_EmptySet
  <2>4. Cardinality(C) \in Nat  BY <1>7, FS_CardinalityType
  <2> HIDE DEF A, C
  <2> QED  BY <1>5, <2>2, <2>3, <2>4
<1>11. Cardinality(A \cup C) = Min2(n, Cardinality(D))
  <2> HIDE DEF A, B, C, D, L
  <2> QED  BY <1>5, <1>7, <1>8, <1>10 DEF Min2
<1>12. A \cup C \subseteq D  BY <1>2, <1>4, <1>6, <1>7
<1>13. IsFiniteSet(A \cup C)  BY <1>4, <1>7, FS_Union
<1>14. Cardinality(LayoutsOf(A \cup C)) = Min2(n, Cardinality(L))
  <2>1. CASE Cardinality(L) < n
    <3>1. A = L
      <4> HIDE DEF A, L
      <4> QED  BY <1>2, <1>4, <1>5, <2>1, FS_Subset DEF Min2
    <3>2. LayoutsOf(A \cup C) = LayoutsOf(L)  BY <1>2, <1>12, <3>1 DEF LayoutsOf
    <3>3. Cardinality(LayoutsOf(A \cup C)) = Cardinality(L)  BY <1>2, <3>2
    <3> HIDE DEF A, C, L
    <3> QED  BY <1>5, <2>1, <3>3 DEF Min2
  <2>2. CASE ~(Cardinality(L) < n)
    <3>1. Cardinality(A) = n  BY <1>4, <1>5, <2>2 DEF Min2
    <3>2. k = 0  BY <1>5, <3>1
    <3>3. Cardinality(C) = 0
      <4>1. Cardinality(B) \in Nat  BY <1>6, FS_CardinalityType
      <4> QED  BY <1>7, <3>2, <4>1 DEF Min2
    <3>4. C = {}  BY <1>7, <3>3, FS_EmptySet
    <3>5. LayoutsOf(A \cup C) = LayoutsOf(A)  BY <3>4
    <3>6. Cardinality(LayoutsOf(A)) = Cardinality(A)
      <4> DEFINE T == LayoutsOf(A)
                 f == [c \in A |-> c.layout]
      <4>1. f \in Surjection(A, T)  BY DEF Surjection, LayoutsOf
      <4>2. f \in Injection(A, T)
        BY <1>2, <1>4 DEF Injection, IsInjective, LayoutsOf
      <4> HIDE DEF f, T, A
      <4>3. Cardinality(A) = Cardinality(T)  BY <1>4, <4>1, <4>2, FS_Surjection
      <4> QED  BY <4>3 DEF T
    <3> QED  BY <1>5, <2>2, <3>1, <3>5, <3>6 DEF Min2
  <2> QED  BY <2>1, <2>2
<1> QED  BY <1>2, <1>9, <1>11, <1>12, <1>13, <1>14

-----------------------------------------------------------------------------
\* The order of the merge: by turn, then by design

TurnOn(S) ==
  {p \in S \X S : \/ Turn(p[1], S) < Turn(p[2], S)
                  \/ Turn(p[1], S) = Turn(p[2], S) /\ p[1].design < p[2].design}

LEMMA TurnIsPlace ==
  ASSUME NEW S, NEW c \in S
  PROVE  Turn(c, S) = Place(c, Of(S, c.design), BetterOn(Of(S, c.design)))
<1>1. {d \in S : d.design = c.design /\ Better(d, c)}
        = Before(c, Of(S, c.design), BetterOn(Of(S, c.design)))
  BY DEF Of, Before, BetterOn
<1> QED  BY <1>1 DEF Turn, Place

LEMMA OfKeyed ==
  ASSUME NEW S, IsFiniteSet(S), Keyed(S), NEW d
  PROVE  Of(S, d) \subseteq S /\ IsFiniteSet(Of(S, d)) /\ Keyed(Of(S, d))
<1>1. Of(S, d) \subseteq S  BY DEF Of
<1> QED  BY <1>1, FS_Subset DEF Keyed

(* A design has one candidate at each of its turns, counted from 0.         *)
LEMMA Turns ==
  ASSUME NEW S, IsFiniteSet(S), Keyed(S)
  PROVE  /\ \A c \in S : Turn(c, S) \in Nat
         /\ \A c, d \in S : c.design = d.design /\ Turn(c, S) = Turn(d, S) => c = d
         /\ \A e : \A c \in Of(S, e) : Turn(c, S) \in 0..Cardinality(Of(S, e)) - 1
         /\ \A e : \A k \in 0..Cardinality(Of(S, e)) - 1 : \E c \in Of(S, e) : Turn(c, S) = k
<1>1. ASSUME NEW e
      PROVE  /\ \A c \in Of(S, e) : /\ Turn(c, S) \in Nat
                                    /\ Turn(c, S) \in 0..Cardinality(Of(S, e)) - 1
             /\ \A c, d \in Of(S, e) : Turn(c, S) = Turn(d, S) => c = d
             /\ \A k \in 0..Cardinality(Of(S, e)) - 1 : \E c \in Of(S, e) : Turn(c, S) = k
  <2> DEFINE T == Of(S, e)
             R == BetterOn(T)
  <2>1. IsFiniteSet(T) /\ IsOrder(R, T)  BY OfKeyed, BetterOrders
  <2>2. \A c \in T : Turn(c, S) = Place(c, T, R)  BY TurnIsPlace DEF Of
  <2> HIDE DEF T, R
  <2>3. \A c \in T : Place(c, T, R) \in Nat  BY <2>1, BeforeFinite
  <2>4. \A c, d \in T : Place(c, T, R) = Place(d, T, R) => c = d  BY <2>1, PlaceTells
  <2>5. /\ \A c \in T : Place(c, T, R) \in 0..Cardinality(T) - 1
        /\ \A k \in 0..Cardinality(T) - 1 : \E c \in T : Place(c, T, R) = k
    BY <2>1, PlacesAreAll
  <2>6. /\ \A c \in T : Turn(c, S) \in Nat /\ Turn(c, S) \in 0..Cardinality(T) - 1
        /\ \A c, d \in T : Turn(c, S) = Turn(d, S) => c = d
        /\ \A k \in 0..Cardinality(T) - 1 : \E c \in T : Turn(c, S) = k
    BY <2>2, <2>3, <2>4, <2>5
  <2> QED  BY <2>6 DEF T
<1>2. \A c \in S : c \in Of(S, c.design)  BY DEF Of
<1>3. \A c, d \in S : c.design = d.design => d \in Of(S, c.design)  BY DEF Of
<1>4. \A c \in S : Turn(c, S) \in Nat  BY <1>1, <1>2
<1>5. \A c, d \in S : c.design = d.design /\ Turn(c, S) = Turn(d, S) => c = d
  BY <1>1, <1>2, <1>3
<1> QED  BY <1>1, <1>4, <1>5

LEMMA TurnOrders ==
  ASSUME NEW S, IsFiniteSet(S), Keyed(S)
  PROVE  IsOrder(TurnOn(S), S)
<1> DEFINE Sooner(c, d) == \/ Turn(c, S) < Turn(d, S)
                           \/ Turn(c, S) = Turn(d, S) /\ c.design < d.design
<1>1. \A c, d \in S : <<c, d>> \in TurnOn(S) <=> Sooner(c, d)  BY DEF TurnOn
<1>2. \A c \in S : c.design \in Nat /\ Turn(c, S) \in Nat  BY Turns DEF Keyed
<1>3. \A c \in S : ~Sooner(c, c)  BY <1>2
<1>4. \A c, d \in S : c = d \/ Sooner(c, d) \/ Sooner(d, c)  BY <1>2, Turns
<1>5. \A c, d, e \in S : Sooner(c, d) /\ Sooner(d, e) => Sooner(c, e)  BY <1>2
<1> HIDE DEF Sooner
<1> QED  BY <1>1, <1>3, <1>4, <1>5 DEF IsOrder

LEMMA MergedIs ==
  ASSUME NEW S, NEW n
  PROVE  Merged(S, n) = FirstOf(n, Deduped(S), TurnOn(Deduped(S)))
<1> DEFINE D == Deduped(S)
           Sooner(c, d) == \/ Turn(c, D) < Turn(d, D)
                           \/ Turn(c, D) = Turn(d, D) /\ c.design < d.design
<1>1. Merged(S, n) = {c \in D : Cardinality({d \in D : Sooner(d, c)}) < n}
  BY DEF Merged, First
<1> HIDE DEF D
<1>2. ASSUME NEW c \in D PROVE {d \in D : Sooner(d, c)} = Before(c, D, TurnOn(D))
  BY DEF Before, TurnOn
<1> HIDE DEF Sooner
<1> QED  BY <1>1, <1>2 DEF FirstOf, Place, D

-----------------------------------------------------------------------------
\* The inductive invariant

(* What has been found of a design that was not dropped is the selection    *)
(* from what was drawn of it, and the set merges what has been found.       *)
CInv ==
  /\ tried \in Nat /\ count \in Nat /\ kept \subseteq 0..tried - 1
  /\ stage = "idle" => kept = {}
  /\ IsFiniteSet(pool) /\ Keyed(pool)
  /\ \A c \in pool : c.design \in kept
  /\ found \subseteq pool
  /\ \A d \in kept : Of(found, d) = Select(Of(pool, d), count)
  /\ stage = "done" => result = Merged(found, count)

LEMMA DrawnIs ==
  ASSUME NEW i \in Nat, NEW draw
  PROVE  /\ IsFiniteSet(Drawn(i, draw)) /\ Keyed(Drawn(i, draw))
         /\ \A c \in Drawn(i, draw) : c.design = i
<1> DEFINE Q == {s \in Ranks : draw[s] # Failed}
           f == [r \in Q |-> [design |-> i, rank |-> r,
                              layout |-> draw[r][1], svg |-> draw[r][2]]]
           D == Drawn(i, draw)
<1>1. IsFiniteSet(Q)  BY RanksAssumption, FS_Subset
<1>2. f \in Surjection(Q, D)  BY DEF Surjection, Drawn
<1>3. \A c \in D : \E r \in Q : c = [design |-> i, rank |-> r, layout |-> draw[r][1],
                                     svg |-> draw[r][2]]
  BY DEF Drawn
<1>4. Q \subseteq Nat  BY RanksAssumption
<1>5. Keyed(D) /\ \A c \in D : c.design = i
  <2> HIDE DEF D, Q
  <2> QED  BY <1>3, <1>4 DEF Keyed
<1> HIDE DEF Q, D, f
<1>6. IsFiniteSet(D)  BY <1>1, <1>2, FS_Surjection
<1> QED  BY <1>5, <1>6 DEF D

LEMMA CInit == Init => CInv
<1> SUFFICES ASSUME Init PROVE CInv  OBVIOUS
<1>1. IsFiniteSet({})  BY FS_EmptySet
<1> QED  BY <1>1 DEF Init, CInv, Keyed

LEMMA CStep == CInv /\ [Next]_vars => CInv'
<1> SUFFICES ASSUME CInv, [Next]_vars PROVE CInv'  OBVIOUS
<1>1. CASE Request
  <2>1. count' \in Nat  BY <1>1, CountsAssumption DEF Request, Clamp
  <2> QED  BY <1>1, <2>1 DEF Request, CInv
<1>2. CASE SearchDesign
  <2>1. PICK draw : /\ pool' = pool \cup Drawn(tried, draw)
                    /\ found' = found \cup Select(Drawn(tried, draw), count)
    BY <1>2 DEF SearchDesign
  <2> DEFINE D == Drawn(tried, draw)
             F == Select(D, count)
  <2>2. tried \in Nat /\ count \in Nat /\ tried \notin kept  BY DEF CInv
  <2>3. IsFiniteSet(D) /\ Keyed(D) /\ \A c \in D : c.design = tried  BY <2>2, DrawnIs
  <2>4. F \subseteq D  BY <2>2, <2>3, SelectCounts, DedupedIs
  <2>5. /\ kept' = kept \cup {tried} /\ tried' = tried + 1
        /\ stage = "search" /\ UNCHANGED <<stage, count, result>>
    BY <1>2 DEF SearchDesign
  <2>6. pool' = pool \cup D /\ found' = found \cup F  BY <2>1
  <2> HIDE DEF D, F
  <2>7. IsFiniteSet(pool')  BY <2>3, <2>6, FS_Union DEF CInv
  <2>8. Keyed(pool')
    <3>1. \A c \in pool, d \in D : c.design # d.design  BY <2>2, <2>3 DEF CInv
    <3>2. Keyed(pool)  BY DEF CInv
    <3> QED  BY <2>3, <2>6, <3>1, <3>2 DEF Keyed
  <2>9. \A c \in pool' : c.design \in kept'  BY <2>3, <2>5, <2>6 DEF CInv
  <2>10. found' \subseteq pool'  BY <2>4, <2>6 DEF CInv
  <2>11. ASSUME NEW d \in kept' PROVE Of(found', d) = Select(Of(pool', d), count')
    <3>1. CASE d = tried
      <4>1. Of(pool', d) = D  BY <2>2, <2>3, <2>6, <3>1 DEF Of, CInv
      <4>2. Of(found', d) = F  BY <2>2, <2>3, <2>4, <2>6, <3>1 DEF Of, CInv
      <4> QED  BY <2>5, <4>1, <4>2 DEF F
    <3>2. CASE d # tried
      <4>1. d \in kept  BY <2>5, <3>2
      <4>2. Of(pool', d) = Of(pool, d)  BY <2>3, <2>6, <3>2 DEF Of
      <4>3. Of(found', d) = Of(found, d)  BY <2>3, <2>4, <2>6, <3>2 DEF Of
      <4> QED  BY <2>5, <4>1, <4>2, <4>3 DEF CInv
    <3> QED  BY <3>1, <3>2
  <2>12. kept' \subseteq 0..tried' - 1 /\ tried' \in Nat /\ count' \in Nat
    BY <2>5 DEF CInv
  <2> QED  BY <2>5, <2>7, <2>8, <2>9, <2>10, <2>11, <2>12 DEF CInv
<1>3. CASE DropDesign
  BY <1>3 DEF DropDesign, CInv
<1>4. CASE Merge
  BY <1>4 DEF Merge, CInv
<1>5. CASE UNCHANGED vars
  BY <1>5 DEF vars, CInv
<1> QED  BY <1>1, <1>2, <1>3, <1>4, <1>5 DEF Next

THEOREM CandidatesInvariant == Spec => []CInv
BY CInit, CStep, PTL DEF Spec

-----------------------------------------------------------------------------
\* What the candidate set promises

(* The set is full: a thinning to count leaves a design all its drawings,   *)
(* or count of them.                                                        *)
LEMMA ThinningKeepsEnough ==
  ASSUME CInv
  PROVE  /\ IsFiniteSet(DrawingsOf(found)) /\ IsFiniteSet(DrawingsOf(pool))
         /\ Min2(count, Cardinality(DrawingsOf(found)))
              = Min2(count, Cardinality(DrawingsOf(pool)))
<1> DEFINE V == DrawingsOf(found)
           W == DrawingsOf(pool)
<1>1. IsFiniteSet(pool) /\ Keyed(pool) /\ found \subseteq pool /\ count \in Nat  BY DEF CInv
<1>2. IsFiniteSet(W)  BY <1>1, DedupedIs
<1>3. V \subseteq W  BY <1>1 DEF DrawingsOf
<1>4. /\ IsFiniteSet(V) /\ Cardinality(V) \in Nat /\ Cardinality(W) \in Nat
      /\ Cardinality(V) <= Cardinality(W)
  BY <1>2, <1>3, FS_Subset, FS_CardinalityType
<1>5. CASE \A d \in kept : Cardinality(Deduped(Of(pool, d))) <= count
  <2>1. ASSUME NEW c \in pool PROVE c.svg \in V
    <3> DEFINE S == Of(pool, c.design)
               D == Deduped(S)
               F == Select(S, count)
    <3>1. c \in S /\ c.design \in kept  BY DEF Of, CInv
    <3>2. IsFiniteSet(S) /\ Keyed(S)  BY <1>1, OfKeyed
    <3>3. IsFiniteSet(D) /\ DrawingsOf(D) = DrawingsOf(S)  BY <3>2, DedupedIs
    <3>4. F \subseteq D /\ Cardinality(F) = Min2(count, Cardinality(D))
      BY <1>1, <3>2, SelectCounts
    <3>5. F = Of(found, c.design)  BY <3>1 DEF CInv
    <3>6. Cardinality(D) <= count /\ Cardinality(D) \in Nat
      BY <1>5, <3>1, <3>3, FS_CardinalityType
    <3> HIDE DEF D, F, S
    <3>7. F = D  BY <1>1, <3>3, <3>4, <3>6, FS_Subset DEF Min2
    <3>8. PICK l \in D : l.svg = c.svg  BY <3>1, <3>3 DEF DrawingsOf
    <3> QED  BY <3>5, <3>7, <3>8 DEF Of, DrawingsOf
  <2>2. W \subseteq V  BY <2>1 DEF DrawingsOf
  <2> QED  BY <1>2, <1>3, <2>2
<1>6. ASSUME NEW d \in kept, ~(Cardinality(Deduped(Of(pool, d))) <= count)
      PROVE  Cardinality(V) >= count
  <2> DEFINE S == Of(pool, d)
             D == Deduped(S)
             F == Select(S, count)
             U == DrawingsOf(F)
             f == [c \in F |-> c.svg]
  <2>1. IsFiniteSet(S) /\ Keyed(S)  BY <1>1, OfKeyed
  <2>2. IsFiniteSet(D) /\ \A x, y \in D : x.svg = y.svg => x = y  BY <2>1, DedupedIs
  <2>3. F \subseteq D /\ IsFiniteSet(F) /\ Cardinality(F) = Min2(count, Cardinality(D))
    BY <1>1, <2>1, SelectCounts
  <2>4. F = Of(found, d)  BY DEF CInv
  <2>5. U \subseteq V  BY <2>4 DEF Of, DrawingsOf
  <2>6. f \in Surjection(F, U)  BY DEF Surjection, DrawingsOf
  <2>7. f \in Injection(F, U)  BY <2>2, <2>3 DEF Injection, IsInjective, DrawingsOf
  <2>8. Cardinality(D) \in Nat /\ ~(Cardinality(D) <= count)
    BY <1>6, <2>2, FS_CardinalityType
  <2> HIDE DEF S, D, F, U, V, f
  <2>9. Cardinality(F) = Cardinality(U)  BY <2>3, <2>6, <2>7, FS_Surjection
  <2>10. Cardinality(U) <= Cardinality(V)  BY <1>4, <2>5, FS_Subset
  <2> QED  BY <1>1, <1>4, <2>3, <2>8, <2>9, <2>10 DEF Min2
<1> HIDE DEF V, W
<1>7. CASE Cardinality(V) >= count
  <2>1. Cardinality(W) >= count  BY <1>1, <1>4, <1>7
  <2> QED  BY <1>1, <1>2, <1>4, <1>7, <2>1 DEF Min2, V, W
<1> QED  BY <1>5, <1>6, <1>7 DEF V, W

(* A candidate set has as many candidates as were asked for, or as many as  *)
(* there are different drawings over all the designs (generate_candidate_   *)
(* set's "candidate_count first").                                          *)
THEOREM CandidatesSetIsFull == Spec => []SetIsFull
<1>1. CInv => SetIsFull
  <2> SUFFICES ASSUME CInv, stage = "done"
               PROVE  /\ Cardinality(result) = Min2(count, Cardinality(DrawingsOf(pool)))
                      /\ Cardinality(DrawingsOf(result)) = Cardinality(result)
    BY DEF SetIsFull
  <2> DEFINE D == Deduped(found)
             R == TurnOn(D)
             f == [c \in result |-> c.svg]
             T == DrawingsOf(result)
  <2>1. IsFiniteSet(found) /\ Keyed(found) /\ count \in Nat
    BY FS_Subset DEF CInv, Keyed
  <2>2. /\ IsFiniteSet(D) /\ Keyed(D) /\ Cardinality(D) = Cardinality(DrawingsOf(found))
        /\ \A c, d \in D : c.svg = d.svg => c = d
    BY <2>1, DedupedIs
  <2>3. result = FirstOf(count, D, R)  BY MergedIs DEF CInv
  <2>4. /\ result \subseteq D /\ IsFiniteSet(result)
        /\ Cardinality(result) = Min2(count, Cardinality(D))
    BY <2>1, <2>2, <2>3, TurnOrders, FirstCounts
  <2>5. f \in Surjection(result, T)  BY DEF Surjection, DrawingsOf
  <2>6. f \in Injection(result, T)
    BY <2>2, <2>4 DEF Injection, IsInjective, DrawingsOf
  <2> HIDE DEF f, T
  <2>7. Cardinality(result) = Cardinality(T)  BY <2>4, <2>5, <2>6, FS_Surjection
  <2> QED  BY <2>2, <2>4, <2>7, ThinningKeepsEnough DEF T
<1> QED  BY <1>1, CandidatesInvariant, PTL

(* A design's selection shows as many of its layouts as fit in (select's    *)
(* first pass).                                                             *)
THEOREM CandidatesLayoutsFirst == Spec => []LayoutsFirst
<1>1. CInv => LayoutsFirst
  <2> SUFFICES ASSUME CInv, NEW d \in kept
               PROVE  Cardinality(LayoutsOf(Of(found, d)))
                        = Min2(count, Cardinality(LayoutsOf(Deduped(Of(pool, d)))))
    BY DEF LayoutsFirst
  <2>1. IsFiniteSet(pool) /\ Keyed(pool) /\ count \in Nat  BY DEF CInv
  <2>2. IsFiniteSet(Of(pool, d)) /\ Keyed(Of(pool, d))  BY <2>1, OfKeyed
  <2>3. Of(found, d) = Select(Of(pool, d), count)  BY DEF CInv
  <2> QED  BY <2>1, <2>2, <2>3, SelectCounts
<1> QED  BY <1>1, CandidatesInvariant, PTL

(* No design gets two candidates more than one that has another to give     *)
(* (the round-robin of generate_candidate_set).                             *)
THEOREM CandidatesDesignsFair == Spec => []DesignsFair
<1>1. CInv => DesignsFair
  <2> SUFFICES ASSUME CInv, stage = "done", NEW d \in kept, NEW e \in kept,
                      Of(Deduped(found), e) \ result # {}
               PROVE  Cardinality(Of(result, d)) <= Cardinality(Of(result, e)) + 1
    BY DEF DesignsFair
  <2> DEFINE D == Deduped(found)
             R == TurnOn(D)
             turns == {Turn(c, D) : c \in Of(D, e) \ result}
  <2>1. IsFiniteSet(found) /\ Keyed(found) /\ count \in Nat
    BY FS_Subset DEF CInv, Keyed
  <2>2. IsFiniteSet(D) /\ Keyed(D)  BY <2>1, DedupedIs
  <2>3. result = FirstOf(count, D, R)  BY MergedIs DEF CInv
  <2>4. IsOrder(R, D)  BY <2>2, TurnOrders
  <2>5. result \subseteq D /\ IsFiniteSet(result)  BY <2>1, <2>2, <2>3, <2>4, FirstCounts
  <2>6. /\ \A c \in D : Turn(c, D) \in Nat
        /\ \A x, y \in D : x.design = y.design /\ Turn(x, D) = Turn(y, D) => x = y
        /\ \A c \in Of(D, e) : Turn(c, D) \in 0..Cardinality(Of(D, e)) - 1
        /\ \A k \in 0..Cardinality(Of(D, e)) - 1 : \E c \in Of(D, e) : Turn(c, D) = k
    BY <2>2, Turns
  <2>7. IsFiniteSet(Of(D, e)) /\ Cardinality(Of(D, e)) \in Nat
    BY <2>2, OfKeyed, FS_CardinalityType
  <2>8. turns \subseteq Nat /\ turns # {}  BY <2>6 DEF Of
  <2>9. PICK t \in turns : \A u \in turns : t <= u
    <3> HIDE DEF turns
    <3> QED  BY <2>8, LeastNatural
  <2>10. PICK x \in Of(D, e) \ result : t = Turn(x, D)  OBVIOUS
  <2>11. t \in Nat /\ t \in 0..Cardinality(Of(D, e)) - 1  BY <2>6, <2>8, <2>10
  <2> DEFINE A == {c \in Of(result, e) : Turn(c, D) < t}
             f == [c \in A |-> Turn(c, D)]
             B == Of(result, d)
             g == [c \in B |-> Turn(c, D)]
  <2>12. IsFiniteSet(B) /\ IsFiniteSet(Of(result, e))  BY <2>5, FS_Subset DEF Of
  <2>13. ASSUME NEW k \in 0..t - 1 PROVE \E c \in A : f[c] = k
    <3>1. k \in 0..Cardinality(Of(D, e)) - 1 /\ k < t  BY <2>7, <2>11
    <3>2. PICK c \in Of(D, e) : Turn(c, D) = k  BY <2>6, <3>1
    <3>3. c \in result
      <4> SUFFICES ASSUME c \notin result PROVE FALSE  OBVIOUS
      <4>1. k \in turns  BY <3>2
      <4> QED  BY <2>9, <2>11, <3>1, <4>1
    <3> QED  BY <3>1, <3>2, <3>3 DEF Of
  <2>14. f \in [A -> 0..t - 1]  BY <2>5, <2>6, <2>11 DEF Of
  <2>15. \A y, z \in A : f[y] = f[z] => y = z  BY <2>5, <2>6 DEF Of
  <2>16. IsFiniteSet(0..t - 1) /\ Cardinality(0..t - 1) = t
    <3>1. t \in Nat  BY <2>11
    <3> HIDE DEF turns, D
    <3> QED  BY <3>1, FS_Interval
  <2>17. Cardinality(A) = t
    <3> HIDE DEF A, f
    <3> QED  BY <2>13, <2>14, <2>15, <2>16, PairedOff
  <2>18. A \subseteq Of(result, e)  OBVIOUS
  <2>19. Cardinality(Of(result, e)) >= t
    <3> HIDE DEF A
    <3>1. Cardinality(Of(result, e)) \in Nat  BY <2>12, FS_CardinalityType
    <3> QED  BY <2>11, <2>12, <2>17, <2>18, <3>1, FS_Subset
  <2>20. ASSUME NEW c \in B PROVE Turn(c, D) \in 0..t
    <3>1. c \in FirstOf(count, D, R) /\ x \in D \ FirstOf(count, D, R) /\ c \in D
      BY <2>3, <2>5, <2>10 DEF Of
    <3>2. <<c, x>> \in R  BY <2>1, <2>2, <2>4, <3>1, FirstComeFirst
    <3>3. Turn(c, D) \in Nat /\ Turn(x, D) \in Nat  BY <2>6, <3>1
    <3>4. Turn(c, D) < Turn(x, D) \/ Turn(c, D) = Turn(x, D)  BY <3>2 DEF TurnOn
    <3> QED  BY <2>10, <3>3, <3>4
  <2>21. g \in [B -> 0..t]  BY <2>20
  <2>22. g \in Injection(B, 0..t)
    BY <2>5, <2>6, <2>21 DEF Injection, IsInjective, Of
  <2>23. IsFiniteSet(0..t) /\ Cardinality(0..t) = t + 1  BY <2>11, FS_Interval
  <2> HIDE DEF B, g
  <2>24. Cardinality(B) <= t + 1  BY <2>22, <2>23, FS_Injection
  <2>25. Cardinality(B) \in Nat /\ Cardinality(Of(result, e)) \in Nat
    BY <2>12, FS_CardinalityType
  <2> QED  BY <2>11, <2>19, <2>24, <2>25 DEF B
<1> QED  BY <1>1, CandidatesInvariant, PTL
=============================================================================
