---------------------------- MODULE LayoutsProofs ----------------------------
(***************************************************************************)
(* One design on its way to candidates, whoever wrote it and however its   *)
(* layout is varied: what validation accepts is fine (Fine below), stays   *)
(* so when it is validated again, and so do the layouts made from it.      *)
(***************************************************************************)
EXTENDS Layouts, TorusProofs, FiniteSetTheorems, SequenceTheorems

-----------------------------------------------------------------------------
\* Sums

(* What SumTo computes: there is such a function, and only one.             *)
LEMMA SumIs ==
  ASSUME NEW n \in Nat, NEW s, \A k \in 1..n : s[k] \in Int
  PROVE  \E g \in [0..n -> Int] : /\ g[0] = 0
                                  /\ \A k \in 1..n : g[k] = g[k - 1] + s[k]
                                  /\ SumTo(s, n) = g[n]
<1> DEFINE Sums(m, g) == /\ g \in [0..m -> Int] /\ g[0] = 0
                         /\ \A k \in 1..m : g[k] = g[k - 1] + s[k]
           good == {m \in 0..n : \E g : Sums(m, g)}
<1>1. \A m \in 0..n : m \in good
  <2>1. 0 \in good
    <3>1. Sums(0, [i \in 0..0 |-> 0])  OBVIOUS
    <3>2. 0 \in 0..n  OBVIOUS
    <3> HIDE DEF Sums
    <3> QED  BY <3>1, <3>2
  <2>2. ASSUME NEW m \in 0..n - 1, m \in good PROVE m + 1 \in good
    <3>1. PICK g : Sums(m, g)  BY <2>2
    <3> DEFINE h == [i \in 0..m + 1 |-> IF i = m + 1 THEN g[m] + s[m + 1] ELSE g[i]]
    <3>2. g[m] + s[m + 1] \in Int  BY <3>1
    <3>3. h \in [0..m + 1 -> Int] /\ h[0] = 0  BY <3>1, <3>2
    <3>4. ASSUME NEW k \in 1..m + 1 PROVE h[k] = h[k - 1] + s[k]
      <4>1. k - 1 \in 0..m /\ h[k - 1] = g[k - 1]  OBVIOUS
      <4>2. CASE k = m + 1  BY <4>1, <4>2
      <4>3. CASE k # m + 1
        <5>1. k \in 1..m /\ h[k] = g[k]  BY <4>3
        <5> QED  BY <3>1, <4>1, <5>1
      <4> QED  BY <4>2, <4>3
    <3>5. Sums(m + 1, h)  BY <3>3, <3>4
    <3>6. m + 1 \in 0..n  OBVIOUS
    <3> HIDE DEF Sums, h
    <3> QED  BY <3>5, <3>6
  <2> HIDE DEF good
  <2> QED  BY <2>1, <2>2, UpTo
<1>2. PICK g : Sums(n, g)
  <2>1. n \in 0..n  OBVIOUS
  <2>2. n \in good  BY <1>1, <2>1
  <2> HIDE DEF Sums
  <2> QED  BY <2>2
<1> DEFINE Next0(f) == [i \in 0..n |-> IF i = 0 THEN 0 ELSE f[i - 1] + s[i]]
           sum == CHOOSE f : f = Next0(f)
<1>3. g = Next0(g)  BY <1>2
<1>4. sum = Next0(sum)  BY <1>3
<1>5. SumTo(s, n) = sum[n]  BY DEF SumTo
<1>6. sum[0] = 0 /\ \A k \in 1..n : sum[k] = sum[k - 1] + s[k]
  <2> HIDE DEF sum
  <2> QED  BY <1>4
<1> HIDE DEF sum
<1>7. \A k \in 0..n : sum[k] = g[k]
  <2> DEFINE same == {k \in 0..n : sum[k] = g[k]}
  <2>1. 0 \in same  BY <1>2, <1>6
  <2>2. ASSUME NEW k \in 0..n - 1, k \in same PROVE k + 1 \in same
    <3>1. k + 1 \in 1..n /\ (k + 1) - 1 = k  OBVIOUS
    <3>2. sum[k + 1] = sum[k] + s[k + 1] /\ g[k + 1] = g[k] + s[k + 1]
      BY <1>2, <1>6, <3>1
    <3> QED  BY <2>2, <3>1, <3>2
  <2>3. \A k \in 0..n : k \in same
    <3> HIDE DEF same
    <3> QED  BY <2>1, <2>2, UpTo
  <2> QED  BY <2>3
<1> QED  BY <1>2, <1>5, <1>7

(* A sum is as large as each of its terms when none is negative.            *)
LEMMA SumAtLeast ==
  ASSUME NEW n \in Nat, NEW s, \A k \in 1..n : s[k] \in Nat
  PROVE  SumTo(s, n) \in Nat /\ \A k \in 1..n : s[k] <= SumTo(s, n)
<1>1. PICK g \in [0..n -> Int] : /\ g[0] = 0
                                 /\ \A k \in 1..n : g[k] = g[k - 1] + s[k]
                                 /\ SumTo(s, n) = g[n]
  <2>1. \A k \in 1..n : s[k] \in Int  OBVIOUS
  <2> QED  BY <2>1, SumIs
<1> DEFINE P == {k \in 0..n : g[k] >= 0 /\ \A j \in 1..k : s[j] <= g[k]}
<1>2. 0 \in P  BY <1>1
<1>3. ASSUME NEW k \in 0..n - 1, k \in P PROVE k + 1 \in P
  <2>1. k + 1 \in 1..n /\ (k + 1) - 1 = k  OBVIOUS
  <2>2. g[k + 1] = g[k] + s[k + 1] /\ s[k + 1] \in Nat /\ g[k] \in Int /\ g[k + 1] \in Int
    BY <1>1, <2>1
  <2>3. \A j \in 1..k + 1 : s[j] <= g[k + 1]
    <3>1. \A j \in 1..k + 1 : j = k + 1 \/ j \in 1..k
      <4>1. k \in Int  OBVIOUS
      <4> QED  BY <4>1
    <3>2. \A j \in 1..k + 1 : s[j] \in Nat  OBVIOUS
    <3> TAKE j \in 1..k + 1
    <3>3. CASE j = k + 1
      <4>1. g[k] \in Nat  BY <1>3, <2>2
      <4> QED  BY <2>2, <3>3, <4>1
    <3>4. CASE j \in 1..k
      <4>1. s[j] <= g[k] /\ s[j] \in Nat  BY <1>3, <3>2, <3>4
      <4> QED  BY <2>2, <4>1
    <3> QED  BY <3>1, <3>3, <3>4
  <2> QED  BY <1>3, <2>1, <2>2, <2>3
<1>4. \A k \in 0..n : k \in P
  <2> HIDE DEF P
  <2> QED  BY <1>2, <1>3, UpTo
<1>5. n \in P  BY <1>4
<1> QED  BY <1>1, <1>5

(* What rounding each term of a scaled sum can add to it.                   *)
LEMMA SumScaled ==
  ASSUME NEW n \in Nat, NEW v, NEW w, NEW A \in Nat, NEW B \in Nat,
         \A k \in 1..n : /\ v[k] \in Int /\ w[k] \in Int
                         /\ 2 * (A * v[k]) <= 2 * (B * w[k]) + A
  PROVE  2 * (A * SumTo(v, n)) <= 2 * (B * SumTo(w, n)) + A * n
<1>1. PICK g \in [0..n -> Int] : /\ g[0] = 0
                                 /\ \A k \in 1..n : g[k] = g[k - 1] + v[k]
                                 /\ SumTo(v, n) = g[n]
  BY SumIs
<1>2. PICK h \in [0..n -> Int] : /\ h[0] = 0
                                 /\ \A k \in 1..n : h[k] = h[k - 1] + w[k]
                                 /\ SumTo(w, n) = h[n]
  BY SumIs
<1> DEFINE P == {k \in 0..n : 2 * (A * g[k]) <= 2 * (B * h[k]) + A * k}
<1>3. 0 \in P  BY <1>1, <1>2
<1>4. ASSUME NEW k \in 0..n - 1, k \in P PROVE k + 1 \in P
  <2>1. k + 1 \in 1..n /\ (k + 1) - 1 = k  OBVIOUS
  <2>2. /\ g[k + 1] = g[k] + v[k + 1] /\ v[k + 1] \in Int /\ g[k] \in Int
        /\ h[k + 1] = h[k] + w[k + 1] /\ w[k + 1] \in Int /\ h[k] \in Int
    BY <1>1, <1>2, <2>1
  <2>3. /\ A * g[k] \in Int /\ A * v[k + 1] \in Int /\ B * h[k] \in Int /\ B * w[k + 1] \in Int
        /\ A * g[k + 1] = A * g[k] + A * v[k + 1]
        /\ B * h[k + 1] = B * h[k] + B * w[k + 1]
    <3> HIDE DEF P
    <3>1. A \in Int /\ B \in Int  OBVIOUS
    <3> DEFINE x == g[k]
               y == v[k + 1]
               s == h[k]
               t == w[k + 1]
    <3>0. x \in Int /\ y \in Int /\ s \in Int /\ t \in Int  BY <2>2
    <3> HIDE DEF x, y, s, t
    <3>4. A * x \in Int /\ A * y \in Int /\ A * (x + y) = A * x + A * y
      BY <3>0, <3>1, Distribute
    <3>5. B * s \in Int /\ B * t \in Int /\ B * (s + t) = B * s + B * t
      BY <3>0, <3>1, Distribute
    <3>2. /\ A * g[k] \in Int /\ A * v[k + 1] \in Int
          /\ A * (g[k] + v[k + 1]) = A * g[k] + A * v[k + 1]
      BY <3>4 DEF x, y
    <3>3. /\ B * h[k] \in Int /\ B * w[k + 1] \in Int
          /\ B * (h[k] + w[k + 1]) = B * h[k] + B * w[k + 1]
      BY <3>5 DEF s, t
    <3> QED  BY <2>2, <3>2, <3>3
  <2>4. A * (k + 1) = A * k + A  OBVIOUS
  <2>5. 2 * (A * v[k + 1]) <= 2 * (B * w[k + 1]) + A  BY <2>1
  <2>6. 2 * (A * g[k]) <= 2 * (B * h[k]) + A * k  BY <1>4
  <2> DEFINE a == A * g[k]   b == A * v[k + 1]   c == B * h[k]   d == B * w[k + 1]   e == A * k
  <2>7. a \in Int /\ b \in Int /\ c \in Int /\ d \in Int /\ e \in Int  BY <2>3
  <2>8. 2 * b <= 2 * d + A /\ 2 * a <= 2 * c + e  BY <2>5, <2>6
  <2>9. A * g[k + 1] = a + b /\ B * h[k + 1] = c + d /\ A * (k + 1) = e + A
    BY <2>3, <2>4
  <2> HIDE DEF a, b, c, d, e
  <2>10. 2 * (a + b) <= 2 * (c + d) + (e + A)  BY <2>7, <2>8
  <2>11. 2 * (A * g[k + 1]) <= 2 * (B * h[k + 1]) + A * (k + 1)  BY <2>9, <2>10
  <2> QED  BY <2>1, <2>11
<1>5. \A k \in 0..n : k \in P
  <2> HIDE DEF P
  <2> QED  BY <1>3, <1>4, UpTo
<1>6. n \in P  BY <1>5
<1> QED  BY <1>1, <1>2, <1>6

-----------------------------------------------------------------------------
\* The repairs of a stripe

BandSet == [offset : Int, width : Nat, color : STRING]

\* The stripe k is the stripe l with its period and its bands moved.
Moved(l, k) ==
  /\ DOMAIN k = DOMAIN l
  /\ k.type = l.type /\ k.id = l.id /\ k.z = l.z /\ k.opaque = l.opaque /\ k.slope = l.slope
  /\ Len(k.bands) = Len(l.bands) /\ DOMAIN k.bands = DOMAIN l.bands
  /\ \A i \in DOMAIN l.bands : k.bands[i].color = l.bands[i].color

LEMMA SeqFromMap ==
  ASSUME NEW S, NEW n \in Nat, NEW b \in [1..n -> S]
  PROVE  b \in Seq(S) /\ Len(b) = n
<1>1. b \in Seq(S)  BY SeqDef
<1>2. DOMAIN b = 1..Len(b) /\ Len(b) \in Nat  BY <1>1, LenProperties
<1>3. 1..Len(b) = 1..n  BY <1>2
<1> QED  BY <1>1, <1>2, <1>3

\* Bands with other offsets and widths.
Rebanded(bands, offset, width) ==
  [i \in DOMAIN bands |-> [bands[i] EXCEPT !.offset = offset[i], !.width = width[i]]]

LEMMA RebandedIs ==
  ASSUME NEW bands \in Seq(BandSet), NEW offset, NEW width,
         \A i \in DOMAIN bands : offset[i] \in Int /\ width[i] \in Nat
  PROVE  LET b == Rebanded(bands, offset, width)
         IN /\ b \in Seq(BandSet)
            /\ Len(b) = Len(bands) /\ DOMAIN b = DOMAIN bands
            /\ \A i \in DOMAIN bands : /\ b[i].color = bands[i].color
                                       /\ b[i].offset = offset[i] /\ b[i].width = width[i]
<1> DEFINE b == Rebanded(bands, offset, width)
<1>1. DOMAIN bands = 1..Len(bands) /\ Len(bands) \in Nat /\ bands \in [1..Len(bands) -> BandSet]
  BY LenProperties
<1>2. ASSUME NEW i \in DOMAIN bands
      PROVE  /\ b[i] \in BandSet /\ b[i].color = bands[i].color
             /\ b[i].offset = offset[i] /\ b[i].width = width[i]
  <2>1. bands[i] \in BandSet  BY <1>1
  <2>2. offset[i] \in Int /\ width[i] \in Nat  OBVIOUS
  <2>3. b[i] = [bands[i] EXCEPT !.offset = offset[i], !.width = width[i]]  BY DEF Rebanded
  <2> QED  BY <2>1, <2>2, <2>3 DEF BandSet
<1>3. b \in [1..Len(bands) -> BandSet]
  <2>1. b = [i \in 1..Len(bands) |-> b[i]]  BY <1>1 DEF Rebanded
  <2>2. \A i \in 1..Len(bands) : b[i] \in BandSet  BY <1>1, <1>2
  <2> QED  BY <2>1, <2>2
<1>4. b \in Seq(BandSet) /\ Len(b) = Len(bands)  BY <1>1, <1>3, SeqFromMap
<1>5. DOMAIN b = DOMAIN bands  BY <1>1, <1>3
<1> QED  BY <1>2, <1>4, <1>5

LEMMA RoundSignedNat ==
  ASSUME NEW a \in Int, NEW b \in Nat \ {0}
  PROVE  RoundSigned(a, b) \in Int /\ (a >= 0 => RoundSigned(a, b) \in Nat)
<1>1. CASE a < 0
  <2>1. RoundDiv(-a, b) \in Nat  BY <1>1, RoundDivNear
  <2> QED  BY <1>1, <2>1 DEF RoundSigned
<1>2. CASE ~(a < 0)
  <2>1. RoundDiv(a, b) \in Nat  BY <1>2, RoundDivNear
  <2> QED  BY <1>2, <2>1 DEF RoundSigned
<1> QED  BY <1>1, <1>2

(* The period repair: the stripe fits as it is, or its period is the tile   *)
(* over a whole number of closing lengths, rounded.                         *)
LEMMA RepairPeriodIs ==
  ASSUME NEW tile \in Nat \ {0}, NEW l, l.type = "stripe", ShapedStripe(l, tile)
  PROVE  LET r == RepairPeriod(l, tile)
         IN /\ Moved(l, r) /\ r.bands \in Seq(BandSet)
            /\ StripeFits(l, tile) => r = l
            /\ ~StripeFits(l, tile) =>
                 \E k \in Nat \ {0} :
                   /\ r.period = RoundDiv(tile, k * l.slope[3])
                   /\ k = 1 \/ k = RoundDiv(tile, l.period * l.slope[3])
<1> DEFINE k == Larger(1, RoundDiv(tile, l.period * l.slope[3]))
           whole == k * l.slope[3]
           offset == [i \in DOMAIN l.bands |->
                        RoundSigned(l.bands[i].offset * tile, whole * l.period)]
           width  == [i \in DOMAIN l.bands |->
                        RoundSigned(l.bands[i].width * tile, whole * l.period)]
           bands  == Rebanded(l.bands, offset, width)
           moved  == [l EXCEPT !.period = RoundDiv(tile, whole), !.bands = bands]
<1>1. l.period \in Nat \ {0} /\ l.slope[3] \in Nat \ {0} /\ l.bands \in Seq(BandSet)
  BY DEF ShapedStripe, BandSet
<1>2. RoundDiv(tile, l.period * l.slope[3]) \in Nat
  BY <1>1, TimesPositive, RoundDivNear
<1>3. k \in Nat \ {0} /\ (k = 1 \/ k = RoundDiv(tile, l.period * l.slope[3]))
  BY <1>2 DEF Larger
<1>4. whole \in Nat \ {0} /\ whole * l.period \in Nat \ {0}
  <2> HIDE DEF k
  <2> QED  BY <1>1, <1>3, TimesPositive
<1>5. RepairPeriod(l, tile) = IF StripeFits(l, tile) THEN l ELSE moved
  BY DEF RepairPeriod, Rebanded
<1> HIDE DEF k, whole
<1>6. ASSUME NEW i \in DOMAIN l.bands PROVE offset[i] \in Int /\ width[i] \in Nat
  <2>1. l.bands[i] \in BandSet  BY <1>1
  <2>2. l.bands[i].offset * tile \in Int /\ l.bands[i].width * tile \in Nat
    BY <2>1 DEF BandSet
  <2>3. l.bands[i].width * tile >= 0 /\ l.bands[i].width * tile \in Int  BY <2>2
  <2>4. /\ RoundSigned(l.bands[i].offset * tile, whole * l.period) \in Int
        /\ RoundSigned(l.bands[i].width * tile, whole * l.period) \in Nat
    BY <1>4, <2>2, <2>3, RoundSignedNat
  <2> QED  BY <2>4
<1> HIDE DEF offset, width
<1>7. /\ bands \in Seq(BandSet) /\ Len(bands) = Len(l.bands) /\ DOMAIN bands = DOMAIN l.bands
      /\ \A i \in DOMAIN l.bands : bands[i].color = l.bands[i].color
  BY <1>1, <1>6, RebandedIs
<1> HIDE DEF bands
<1>8. CASE StripeFits(l, tile)
  BY <1>1, <1>5, <1>8 DEF Moved
<1>9. CASE ~StripeFits(l, tile)
  <2>1. RepairPeriod(l, tile) = moved  BY <1>5, <1>9
  <2>2. /\ DOMAIN moved = DOMAIN l /\ moved.type = l.type /\ moved.id = l.id /\ moved.z = l.z
        /\ moved.opaque = l.opaque /\ moved.slope = l.slope
        /\ moved.bands = bands /\ moved.period = RoundDiv(tile, whole)
    BY DEF ShapedStripe
  <2> HIDE DEF moved
  <2> QED  BY <1>3, <1>7, <1>9, <2>1, <2>2 DEF Moved, whole
<1> QED  BY <1>8, <1>9

\* The bands cover at most the cap, up to half a unit each.
WithinCap(l) ==
  2 * (MaxCover[2] * SumTo(Widths(l.bands), Len(l.bands)))
    <= 2 * (MaxCover[1] * l.period) + MaxCover[2] * Len(l.bands)

(* Bands that are thin up to rounding are moved by the rounding alone.      *)
LEMMA WithinCapMovesLittle ==
  ASSUME NEW c \in Nat \ {0}, NEW T \in Nat \ {0}, NEW X \in Nat, NEW n \in Nat \ {0},
         NEW w \in 0..T, X < c * T, 2 * (c * T) <= 2 * X + c * n
  PROVE  Abs(RoundDiv(w * X, c * T) - w) <= n
<1> DEFINE Y == c * T
           v == RoundDiv(w * X, Y)
<1>1. Y \in Nat \ {0} /\ w \in Nat /\ w * X \in Nat
  BY TimesPositive
<1>2. v \in Nat /\ 2 * (v * Y) <= 2 * (w * X) + Y /\ 2 * (w * X) <= 2 * (v * Y) + Y
  BY <1>1, RoundDivNear
<1> HIDE DEF v
<1>3. v <= w
  <2>1. w * (Y - X) >= 0 /\ w * (Y - X) = w * Y - w * X  BY <1>1
  <2>2. 2 * (v * Y) <= 2 * (w * Y) + Y
    <3> HIDE DEF Y
    <3> QED  BY <1>1, <1>2, <2>1
  <2>3. (2 * v) * Y < (2 * w + 2) * Y
    <3> HIDE DEF Y
    <3>1. (2 * w + 2) * Y = 2 * (w * Y) + 2 * Y /\ (2 * v) * Y = 2 * (v * Y)
      BY <1>1, <1>2
    <3> QED  BY <1>1, <1>2, <2>2, <3>1
  <2>4. 2 * v < 2 * w + 2
    <3> HIDE DEF Y
    <3> QED  BY <1>1, <1>2, <2>3, Cancel
  <2> QED  BY <1>1, <1>2, <2>4
<1>4. w - v <= n
  <2>1. w * (2 * X + c * n - 2 * Y) >= 0  BY <1>1
  <2>2. w * (2 * X + c * n - 2 * Y) = 2 * (w * X) + w * (c * n) - 2 * (w * Y)
    BY <1>1
  <2>3. (T - w) * (c * n) >= 0 /\ (T - w) * (c * n) = Y * n - w * (c * n)
    <3>1. T - w \in Nat /\ c * n \in Nat  BY <1>1
    <3>2. (T - w) * (c * n) >= 0  BY <3>1
    <3> QED  BY <3>2
  <2> DEFINE e == w * (c * n)
             wY == w * Y
             wX == w * X
             vY == v * Y
             nY == Y * n
  <2>4. e \in Int /\ wY \in Int /\ wX \in Int /\ vY \in Int /\ nY \in Int  BY <1>1, <1>2
  <2>5. /\ 2 * wX + e - 2 * wY >= 0
        /\ nY - e >= 0
        /\ 2 * wX <= 2 * vY + Y
    BY <1>2, <2>1, <2>2, <2>3
  <2>6. 2 * wY <= 2 * vY + Y + nY
    <3> HIDE DEF e, wY, wX, vY, nY, Y
    <3> QED  BY <1>1, <2>4, <2>5
  <2>7. (2 * w) * Y <= (2 * v + 1 + n) * Y
    <3> HIDE DEF Y
    <3>1. (2 * w) * Y = 2 * wY /\ (2 * v + 1 + n) * Y = 2 * vY + Y + nY  BY <1>1, <1>2
    <3> QED  BY <2>6, <3>1
  <2>8. 2 * w <= 2 * v + 1 + n
    <3> HIDE DEF Y
    <3> QED  BY <1>1, <1>2, <2>7, Cancel
  <2> QED  BY <1>1, <1>2, <2>8
<1>5. Abs(v - w) <= n
  BY <1>1, <1>2, <1>3, <1>4 DEF Abs
<1> QED  BY <1>5 DEF v

LEMMA WidthsAre ==
  ASSUME NEW bands \in Seq(BandSet)
  PROVE  /\ Len(bands) \in Nat /\ DOMAIN bands = 1..Len(bands)
         /\ \A k \in 1..Len(bands) : /\ bands[k] \in BandSet
                                     /\ Widths(bands)[k] = bands[k].width
                                     /\ Widths(bands)[k] \in Nat
         /\ SumTo(Widths(bands), Len(bands)) \in Nat
         /\ \A k \in 1..Len(bands) : bands[k].width <= SumTo(Widths(bands), Len(bands))
<1>1. DOMAIN bands = 1..Len(bands) /\ Len(bands) \in Nat /\ bands \in [1..Len(bands) -> BandSet]
  BY LenProperties
<1>2. ASSUME NEW k \in 1..Len(bands)
      PROVE  /\ bands[k] \in BandSet
             /\ Widths(bands)[k] = bands[k].width
             /\ Widths(bands)[k] \in Nat
  BY <1>1 DEF Widths, BandSet
<1> QED  BY <1>1, <1>2, SumAtLeast

(* The ground repair leaves the bands thin, and moves thin ones little.     *)
LEMMA RepairGroundGapIs ==
  ASSUME NEW tile, NEW l, l.type = "stripe", ShapedStripe(l, tile)
  PROVE  LET g == RepairGroundGap(l)
         IN /\ Moved(l, g) /\ g.period = l.period /\ g.bands \in Seq(BandSet)
            /\ WithinCap(g)
            /\ WithinCap(l) => \A i \in DOMAIN l.bands :
                            Abs(g.bands[i].width - l.bands[i].width) <= Len(l.bands)
<1> DEFINE n == Len(l.bands)
           c1 == MaxCover[1]
           c2 == MaxCover[2]
           P == l.period
           T == SumTo(Widths(l.bands), n)
           width == [i \in 1..n |-> RoundDiv(l.bands[i].width * c1 * P, c2 * T)]
           gap == (c2 - c1) * P
           offset == [i \in 1..n |-> RoundDiv(c2 * n * SumTo(width, i - 1) + (i - 1) * gap, c2 * n)]
           bands == Rebanded(l.bands, offset, width)
           moved == [l EXCEPT !.bands = bands]
<1>1. /\ P \in Nat \ {0} /\ l.bands \in Seq(BandSet)
      /\ c1 \in Nat \ {0} /\ c2 \in Nat \ {0} /\ c1 <= c2
  BY CoverAssumption DEF ShapedStripe, BandSet
<1>2. /\ n \in Nat /\ DOMAIN l.bands = 1..n /\ T \in Nat
      /\ \A k \in 1..n : /\ l.bands[k].width \in Nat /\ l.bands[k].width <= T
                         /\ Widths(l.bands)[k] = l.bands[k].width
  BY <1>1, WidthsAre
<1>3. CoversTooMuch(l) <=> c2 * T > c1 * P  BY DEF CoversTooMuch
<1>4. RepairGroundGap(l) = IF ~CoversTooMuch(l) THEN l ELSE moved
  BY <1>2 DEF RepairGroundGap, Rebanded
<1> HIDE DEF T, n
<1>5. CASE ~CoversTooMuch(l)
  <2>1. RepairGroundGap(l) = l  BY <1>4, <1>5
  <2>2. ~(c2 * T > c1 * P)  BY <1>3, <1>5
  <2>3. WithinCap(l)
    <3> DEFINE a == c2 * T
               b == c1 * P
               d == c2 * n
    <3>1. a \in Int /\ b \in Int /\ d \in Nat  BY <1>1, <1>2
    <3>2. 2 * a <= 2 * b + d
      <4>1. ~(a > b)  BY <2>2
      <4> HIDE DEF a, b, d
      <4> QED  BY <3>1, <4>1
    <3> QED  BY <3>2 DEF WithinCap, T, n
  <2>4. \A i \in DOMAIN l.bands : Abs(l.bands[i].width - l.bands[i].width) <= n
    BY <1>2 DEF Abs
  <2> QED  BY <1>1, <2>1, <2>3, <2>4 DEF Moved, n
<1>6. CASE CoversTooMuch(l)
  <2>1. T > 0
    <3>1. c2 * T > c1 * P /\ c1 * P \in Nat \ {0}  BY <1>1, <1>3, <1>6, TimesPositive
    <3>2. T = 0 => c2 * T = 0  BY <1>1
    <3> QED  BY <1>2, <3>1, <3>2
  <2>2. T \in Nat \ {0} /\ c2 * T \in Nat \ {0}
    <3>1. T \in Nat \ {0} /\ c2 \in Nat \ {0}  BY <1>1, <1>2, <2>1
    <3> HIDE DEF c2
    <3> QED  BY <3>1, TimesPositive
  <2>3. n # 0
    <3> SUFFICES ASSUME n = 0 PROVE FALSE  OBVIOUS
    <3>1. \A k \in 1..0 : Widths(l.bands)[k] \in Int  OBVIOUS
    <3>2. PICK g \in [0..0 -> Int] : g[0] = 0 /\ SumTo(Widths(l.bands), 0) = g[0]
      BY <3>1, SumIs
    <3> QED  BY <2>1, <3>2 DEF T
  <2>4. n \in Nat \ {0} /\ c2 * n \in Nat \ {0}  BY <1>1, <1>2, <2>3, TimesPositive
  <2>5. ASSUME NEW i \in 1..n
        PROVE  /\ width[i] = RoundDiv(l.bands[i].width * (c1 * P), c2 * T)
               /\ width[i] \in Nat
               /\ 2 * (width[i] * (c2 * T)) <= 2 * (l.bands[i].width * (c1 * P)) + c2 * T
    <3> DEFINE w == l.bands[i].width
               a == w * (c1 * P)
    <3>1. w \in Nat /\ c1 * P \in Nat  BY <1>1, <1>2
    <3>2. a \in Nat
      <4> HIDE DEF w
      <4> QED  BY <3>1, <1>1
    <3>3. w * c1 * P = a
      <4>1. w \in Int /\ c1 \in Int /\ P \in Int  BY <1>1, <3>1
      <4> HIDE DEF w, c1, P
      <4> QED  BY <4>1, Associate
    <3>4. width[i] = RoundDiv(a, c2 * T)  BY <3>3
    <3> HIDE DEF a
    <3>5. /\ RoundDiv(a, c2 * T) \in Nat
          /\ 2 * (RoundDiv(a, c2 * T) * (c2 * T)) <= 2 * a + c2 * T
      BY <2>2, <3>2, RoundDivNear
    <3> QED  BY <3>4, <3>5 DEF a
  <2>6. \A i \in DOMAIN l.bands : width[i] \in Nat  BY <1>2, <2>5
  <2> HIDE DEF width
  <2>7. ASSUME NEW i \in DOMAIN l.bands PROVE offset[i] \in Int
    <3>1. i \in 1..n /\ i - 1 \in Nat /\ \A k \in 1..i - 1 : width[k] \in Nat
      BY <1>2, <2>6
    <3>2. SumTo(width, i - 1) \in Nat  BY <3>1, SumAtLeast
    <3> DEFINE a == c2 * n * SumTo(width, i - 1) + (i - 1) * gap
    <3>3. c2 * n * SumTo(width, i - 1) \in Nat
      <4> DEFINE m == c2 * n
      <4>1. m \in Nat  BY <2>4
      <4> HIDE DEF m
      <4>2. m * SumTo(width, i - 1) \in Nat  BY <3>2, <4>1
      <4> QED  BY <4>2 DEF m
    <3>4. gap \in Nat
      <4>1. c2 - c1 \in Nat  BY <1>1
      <4> QED  BY <1>1, <4>1
    <3> HIDE DEF gap
    <3>5. (i - 1) * gap \in Nat  BY <3>1, <3>4
    <3>6. a \in Nat  BY <3>3, <3>5
    <3> HIDE DEF a
    <3>7. RoundDiv(a, c2 * n) \in Nat  BY <2>4, <3>6, RoundDivNear
    <3>8. offset[i] = RoundDiv(a, c2 * n)  BY <3>1 DEF a
    <3> QED  BY <3>7, <3>8
  <2> HIDE DEF offset
  <2>8. /\ bands \in Seq(BandSet) /\ Len(bands) = n /\ DOMAIN bands = DOMAIN l.bands
        /\ \A i \in DOMAIN l.bands : bands[i].color = l.bands[i].color /\ bands[i].width = width[i]
    BY <1>1, <2>6, <2>7, RebandedIs DEF n
  <2> HIDE DEF bands
  <2>9. /\ DOMAIN moved = DOMAIN l /\ moved.type = l.type /\ moved.id = l.id /\ moved.z = l.z
        /\ moved.opaque = l.opaque /\ moved.slope = l.slope
        /\ moved.bands = bands /\ moved.period = P
    BY DEF ShapedStripe
  <2>10. RepairGroundGap(l) = moved  BY <1>4, <1>6
  <2> HIDE DEF moved
  <2>11. WithinCap(moved)
    <3> DEFINE V == SumTo(Widths(bands), n)
               A == c2 * T
               B == c1 * P
    <3>1. A \in Nat /\ B \in Nat  BY <1>1, <1>2
    <3>2. \A k \in 1..n : Widths(bands)[k] = width[k]
      BY <1>2, <2>8 DEF Widths
    <3>3. ASSUME NEW k \in 1..n
          PROVE  /\ Widths(bands)[k] \in Int /\ Widths(l.bands)[k] \in Int
                 /\ 2 * (A * Widths(bands)[k]) <= 2 * (B * Widths(l.bands)[k]) + A
      <4> DEFINE u == Widths(bands)[k]
                 w == Widths(l.bands)[k]
      <4>1. u = width[k] /\ w = l.bands[k].width /\ u \in Nat /\ w \in Nat
        BY <1>2, <2>5, <3>2
      <4>2. 2 * (u * A) <= 2 * (w * B) + A  BY <2>5, <4>1
      <4> HIDE DEF u, w, A, B
      <4>3. u * A = A * u /\ w * B = B * w  BY <3>1, <4>1
      <4>4. u \in Int /\ w \in Int /\ 2 * (A * u) <= 2 * (B * w) + A  BY <4>1, <4>2, <4>3
      <4> QED  BY <4>4 DEF u, w
    <3>4. 2 * (A * V) <= 2 * (B * T) + A * n
      <4> HIDE DEF A, B
      <4> QED  BY <1>2, <3>1, <3>3, SumScaled DEF T
    <3>5. V \in Nat
      <4>1. \A k \in 1..n : Widths(bands)[k] \in Nat  BY <2>5, <3>2
      <4> QED  BY <1>2, <4>1, SumAtLeast
    <3> HIDE DEF V
    <3>6. (2 * (c2 * V)) * T <= (2 * (c1 * P) + c2 * n) * T
      <4> DEFINE x == c2 * V
                 z == c2 * n
      <4>1. x \in Int /\ z \in Int  BY <1>1, <1>2, <3>5
      <4>2. A * V = x * T /\ A * n = z * T  BY <1>1, <1>2, <3>5
      <4> HIDE DEF x, z, A, B
      <4>3. 2 * (x * T) <= 2 * (B * T) + z * T  BY <3>4, <4>2
      <4>4. (2 * x) * T = 2 * (x * T) /\ (2 * B + z) * T = 2 * (B * T) + z * T
        BY <1>2, <3>1, <4>1
      <4>5. (2 * x) * T <= (2 * B + z) * T  BY <4>3, <4>4
      <4> QED  BY <4>5 DEF x, z, B
    <3>7. 2 * (c2 * V) \in Int /\ 2 * (c1 * P) + c2 * n \in Int
      <4> DEFINE x == c2 * V
                 y == c1 * P
                 z == c2 * n
      <4>1. x \in Int /\ y \in Int /\ z \in Int  BY <1>1, <1>2, <3>5
      <4> HIDE DEF x, y, z
      <4>2. 2 * x \in Int /\ 2 * y + z \in Int  BY <4>1
      <4> QED  BY <4>2 DEF x, y, z
    <3>8. 2 * (c2 * V) <= 2 * (c1 * P) + c2 * n
      BY <2>2, <3>6, <3>7, Cancel
    <3> QED  BY <2>8, <2>9, <3>8 DEF WithinCap, V
  <2>12. ASSUME WithinCap(l), NEW i \in DOMAIN l.bands
         PROVE  Abs(moved.bands[i].width - l.bands[i].width) <= n
    <3>1. 2 * (c2 * T) <= 2 * (c1 * P) + c2 * n  BY <2>12 DEF WithinCap, T, n
    <3>2. c1 * P < c2 * T  BY <1>3, <1>6, <1>1, <1>2
    <3>3. c1 * P \in Nat  BY <1>1
    <3>4. i \in 1..n /\ l.bands[i].width \in 0..T  BY <1>2
    <3>5. Abs(RoundDiv(l.bands[i].width * (c1 * P), c2 * T) - l.bands[i].width) <= n
      <4> DEFINE X == c1 * P
      <4>1. X < c2 * T /\ X \in Nat /\ 2 * (c2 * T) <= 2 * X + c2 * n  BY <3>1, <3>2, <3>3
      <4> HIDE DEF X
      <4>2. Abs(RoundDiv(l.bands[i].width * X, c2 * T) - l.bands[i].width) <= n
        BY <1>1, <2>2, <2>4, <3>4, <4>1, WithinCapMovesLittle
      <4> QED  BY <4>2 DEF X
    <3> QED  BY <2>5, <2>8, <2>9, <3>4, <3>5
  <2> QED  BY <2>8, <2>9, <2>10, <2>11, <2>12 DEF Moved, n
<1> QED  BY <1>5, <1>6

(* The repaired period is not rounded away ...                              *)
LEMMA RepairPeriodShaped ==
  ASSUME NEW tile \in Nat \ {0}, NEW l, l.type = "stripe", ShapedStripe(l, tile)
  PROVE  ShapedStripe(RepairPeriod(l, tile), tile)
<1> DEFINE r == RepairPeriod(l, tile)
           h == l.slope[3]
           p == l.period
<1>1. p \in Nat \ {0} /\ h \in Nat \ {0} /\ h < 2 * tile  BY DEF ShapedStripe
<1>2. /\ Moved(l, r) /\ r.bands \in Seq(BandSet)
      /\ StripeFits(l, tile) => r = l
      /\ ~StripeFits(l, tile) =>
           \E k \in Nat \ {0} : /\ r.period = RoundDiv(tile, k * h)
                                /\ k = 1 \/ k = RoundDiv(tile, p * h)
  BY RepairPeriodIs
<1> HIDE DEF r
<1>3. CASE StripeFits(l, tile)  BY <1>2, <1>3 DEF r
<1>4. CASE ~StripeFits(l, tile)
  <2>1. PICK k \in Nat \ {0} : /\ r.period = RoundDiv(tile, k * h)
                               /\ k = 1 \/ k = RoundDiv(tile, p * h)
    BY <1>2, <1>4
  <2>2. k * h \in Nat \ {0} /\ p * h \in Nat \ {0}  BY <1>1, TimesPositive
  <2>3. 2 * tile > k * h
    <3>1. CASE k = 1  BY <1>1, <3>1
    <3>2. CASE k # 1
      <4> DEFINE q == p * h
      <4>1. k = RoundDiv(tile, q) /\ k >= 2 /\ q \in Nat \ {0}  BY <2>1, <2>2, <3>2
      <4>2. 2 * (k * q) <= 2 * tile + q
        <5> HIDE DEF q
        <5> QED  BY <4>1, RoundDivNear
      <4>3. q >= h
        <5>1. (p - 1) * h >= 0  BY <1>1
        <5> QED  BY <1>1, <5>1
      <4> HIDE DEF q, h
      <4>4. (2 * k - 1) * (q - h) >= 0  BY <1>1, <4>1, <4>3
      <4>5. (2 * k - 1) * (q - h) = 2 * (k * q) - q - 2 * (k * h) + h  BY <1>1, <4>1
      <4>6. (k - 2) * h >= 0 /\ (k - 2) * h = k * h - 2 * h  BY <1>1, <4>1
      <4> QED  BY <1>1, <2>2, <4>1, <4>2, <4>4, <4>5, <4>6
    <3> QED  BY <3>1, <3>2
  <2>4. r.period \in Nat \ {0}
    <3>1. RoundDiv(tile, k * h) \in Nat /\ RoundDiv(tile, k * h) >= 1
      BY <2>2, <2>3, RoundDivNear
    <3> QED  BY <2>1, <3>1
  <2> QED  BY <1>1, <1>2, <2>4 DEF Moved, ShapedStripe, BandSet, r
<1> QED  BY <1>3, <1>4

(* ... and it tiles, unless it is short.                                    *)
LEMMA RepairPeriodTiles ==
  ASSUME NEW tile \in Nat \ {0}, NEW l, l.type = "stripe", ShapedStripe(l, tile),
         2 * RepairPeriod(l, tile).period > Tol
  PROVE  StripeFits(RepairPeriod(l, tile), tile)
<1> DEFINE r == RepairPeriod(l, tile)
           h == l.slope[3]
           P == r.period
<1>1. /\ Moved(l, r)
      /\ StripeFits(l, tile) => r = l
      /\ ~StripeFits(l, tile) => \E k \in Nat \ {0} : P = RoundDiv(tile, k * h)
  BY RepairPeriodIs
<1>2. P \in Nat \ {0} /\ h \in Nat \ {0} /\ r.slope[3] = h
  BY <1>1, RepairPeriodShaped DEF ShapedStripe, Moved
<1>3. 2 * P > Tol /\ Tol \in Nat \ {0}  BY UnitAssumption
<1> HIDE DEF r, h, P
<1>4. CASE StripeFits(l, tile)  BY <1>1, <1>4 DEF r
<1>5. CASE ~StripeFits(l, tile)
  <2>1. PICK k \in Nat \ {0} : P = RoundDiv(tile, k * h)  BY <1>1, <1>5
  <2> DEFINE W == k * h
             q == P * h
             m == RoundDiv(tile, q)
  <2>2. W \in Nat \ {0} /\ q \in Nat \ {0}  BY <1>2, TimesPositive
  <2>3. W >= h
    <3>1. (k - 1) * h >= 0  BY <1>2
    <3> QED  BY <1>2, <3>1
  <2>4. k * q = P * W
    <3> QED  BY <1>2
  <2> HIDE DEF W
  <2>5. 2 * (P * W) <= 2 * tile + W /\ 2 * tile <= 2 * (P * W) + W /\ 2 * tile > W
    BY <1>2, <2>1, <2>2, RoundDivNear DEF W
  <2>6. 2 * tile > q
    <3>1. CASE P = 1
      <4>1. q = h /\ 2 * tile > W  BY <1>2, <2>5, <3>1
      <4> HIDE DEF q
      <4> QED  BY <1>2, <2>2, <2>3, <4>1
    <3>2. CASE P # 1
      <4>1. (2 * P - 1) * (W - h) >= 0  BY <1>2, <2>2, <2>3
      <4>2. (2 * P - 1) * (W - h) = 2 * (P * W) - W - 2 * (P * h) + h  BY <1>2, <2>2
      <4>3. (P - 2) * h >= 0 /\ (P - 2) * h = P * h - 2 * h  BY <1>2, <3>2
      <4> DEFINE a == P * W
      <4>4. a \in Int /\ q \in Int  BY <1>2, <2>2
      <4> HIDE DEF a
      <4>5. 2 * a - W - 2 * q + h >= 0 /\ q - 2 * h >= 0 /\ 2 * a <= 2 * tile + W
        BY <2>5, <4>1, <4>2, <4>3 DEF a
      <4> HIDE DEF q
      <4> QED  BY <1>2, <2>2, <4>4, <4>5
    <3> QED  BY <3>1, <3>2
  <2> HIDE DEF q
  <2>7. m \in Nat /\ m >= 1  BY <2>2, <2>6, RoundDivNear
  <2>8. Abs(m * q - tile) <= Abs(k * q - tile)
    <3>1. k \in Int  OBVIOUS
    <3> QED  BY <2>2, <3>1, RoundDivNearest
  <2> DEFINE e == Abs(m * q - tile)
  <2>9. e \in Nat /\ 2 * e <= W
    <3> DEFINE a == k * q
               b == m * q
    <3>1. a \in Int /\ b \in Int  BY <2>2, <2>7
    <3>2. 2 * a <= 2 * tile + W /\ 2 * tile <= 2 * a + W  BY <2>4, <2>5
    <3>3. Abs(b - tile) <= Abs(a - tile)  BY <2>8
    <3> HIDE DEF a, b, m
    <3>4. Abs(b - tile) \in Nat /\ 2 * Abs(b - tile) <= W
      BY <2>2, <3>1, <3>2, <3>3 DEF Abs
    <3> QED  BY <3>4 DEF b
  <2> HIDE DEF e, m
  <2>10. Tol * e <= tile
    <3>1. Tol <= 2 * P - 1  BY <1>2, <1>3
    <3>2. (2 * P - 1 - Tol) * e >= 0 /\ (2 * P - 1) * (W - 2 * e) >= 0
      BY <1>2, <1>3, <2>2, <2>9, <3>1
    <3>3. /\ (2 * P - 1 - Tol) * e = (2 * P - 1) * e - Tol * e
          /\ (2 * P - 1) * (W - 2 * e) = 2 * (P * W) - W - 2 * ((2 * P - 1) * e)
      BY <1>2, <1>3, <2>2, <2>9
    <3> DEFINE a == P * W
               b == (2 * P - 1) * e
               c == Tol * e
    <3>4. a \in Int /\ b \in Int /\ c \in Int  BY <1>2, <1>3, <2>2, <2>9
    <3>5. b - c >= 0 /\ 2 * a - W - 2 * b >= 0 /\ 2 * a <= 2 * tile + W
      BY <2>5, <3>2, <3>3
    <3> HIDE DEF a, b, c
    <3>6. c <= tile  BY <2>2, <3>4, <3>5
    <3> QED  BY <3>6 DEF c
  <2>11. m * P * h = m * q
    <3>1. m \in Int /\ P \in Int /\ h \in Int  BY <1>2, <2>7
    <3> QED  BY <3>1, Associate DEF q
  <2>12. Tol * e <= Larger(q, tile)
    <3>1. Tol * e \in Int  BY <1>3, <2>9
    <3> QED  BY <2>2, <2>10, <3>1 DEF Larger
  <2>13. r.period * r.slope[3] = q  BY <1>2 DEF q, P
  <2>14. StripeTiles(tile, r.period, r.slope)
    BY <1>2, <2>7, <2>11, <2>12, <2>13 DEF StripeTiles, e, m, P
  <2> QED  BY <2>14 DEF StripeFits, r
<1> QED  BY <1>4, <1>5

-----------------------------------------------------------------------------
\* One layer through validation

\* What a repair leaves of a layer: all but the period and the bands of a stripe,
\* and a bare lane.
Kept(l, k) ==
  /\ k.type = l.type /\ k.id = l.id /\ k.z = l.z /\ k.opaque = l.opaque
  /\ l.type = "background" => k = l
  /\ l.type = "stripe" => Moved(l, k)
  /\ l.type = "motif" =>
       /\ k.motif = l.motif /\ k.size = l.size /\ k.binding = l.binding
       /\ \/ k.placement = l.placement
          \/ /\ Placed(l) /\ Placed(k) /\ l.placement.lane \in BareLanes
             /\ k.placement.lane = <<0, l.placement.lane[1]>>
             /\ \A f \in DOMAIN l.placement \ {"lane"} : k.placement[f] = l.placement[f]

LEMMA NotBare ==
  ASSUME NEW lane \in BareLanes
  PROVE  <<0, lane[1]>> \notin BareLanes
<1>1. \A b \in BareLanes : Len(b) = 1  BY DEF BareLanes
<1>2. Len(<<0, lane[1]>>) = 2  OBVIOUS
<1> QED  BY <1>1, <1>2

LEMMA SameIsKept ==
  ASSUME NEW l
  PROVE  Kept(l, l)
BY DEF Kept, Moved

LEMMA PeriodKeeps ==
  ASSUME NEW tile \in Nat \ {0}, NEW l, ShapedLayer(l, tile)
  PROVE  LET k == RepairPeriod(l, tile)
         IN ShapedLayer(k, tile) /\ Kept(l, k) /\ (l.type # "stripe" => k = l)
<1>1. CASE l.type = "stripe"
  <2>1. ShapedStripe(l, tile)  BY <1>1 DEF ShapedLayer
  <2>2. ShapedStripe(RepairPeriod(l, tile), tile)  BY <1>1, <2>1, RepairPeriodShaped
  <2>3. Moved(l, RepairPeriod(l, tile))  BY <1>1, <2>1, RepairPeriodIs
  <2> QED  BY <1>1, <2>2, <2>3 DEF ShapedLayer, Kept, Moved
<1>2. CASE l.type # "stripe"
  <2>1. RepairPeriod(l, tile) = l  BY <1>2 DEF RepairPeriod
  <2> QED  BY <1>2, <2>1, SameIsKept
<1> QED  BY <1>1, <1>2

LEMMA LaneKeeps ==
  ASSUME NEW intent, NEW tile, NEW l, ShapedLayer(l, tile)
  PROVE  LET k == NormalizeLane(l, intent)
         IN /\ ShapedLayer(k, tile) /\ Kept(l, k) /\ (l.type # "motif" => k = l)
            /\ \/ k = l
               \/ Placed(k) /\ k.placement.lane \notin BareLanes
<1> DEFINE k == NormalizeLane(l, intent)
<1>1. CASE k = l  BY <1>1, SameIsKept
<1>2. CASE k # l
  <2>1. /\ Placed(l) /\ l.placement.lane \in BareLanes
        /\ k = [l EXCEPT !.placement.lane = <<0, l.placement.lane[1]>>]
    BY <1>2 DEF NormalizeLane
  <2>2. l.type = "motif" /\ l.placement # None /\ ShapedMotif(l) /\ ShapedPlacement(l.placement)
    BY <2>1 DEF Placed, ShapedLayer, ShapedMotif
  <2> DEFINE p == [l.placement EXCEPT !.lane = <<0, l.placement.lane[1]>>]
  <2>3. k = [l EXCEPT !.placement = p]  BY <2>1
  <2>4. /\ DOMAIN p = DOMAIN l.placement /\ p.lane = <<0, l.placement.lane[1]>>
        /\ \A f \in DOMAIN l.placement \ {"lane"} : p[f] = l.placement[f]
    BY <2>2 DEF ShapedPlacement
  <2> HIDE DEF p, k
  <2>5. /\ DOMAIN k = DOMAIN l /\ k.placement = p /\ k.type = l.type /\ k.id = l.id /\ k.z = l.z
        /\ k.opaque = l.opaque /\ k.motif = l.motif /\ k.size = l.size /\ k.binding = l.binding
    BY <2>2, <2>3 DEF ShapedMotif
  <2>6. ShapedPlacement(p)  BY <2>2, <2>4 DEF ShapedPlacement
  <2>7. p # None
    <3>1. "type" \in DOMAIN p  BY <2>2, <2>4 DEF ShapedPlacement
    <3> QED  BY <3>1 DEF None
  <2>8. ShapedLayer(k, tile)  BY <2>2, <2>5, <2>6 DEF ShapedLayer, ShapedMotif
  <2>9. Placed(k)  BY <2>2, <2>5, <2>7 DEF Placed
  <2>10. k.placement.lane \notin BareLanes  BY <2>1, <2>4, <2>5, NotBare
  <2>11. Kept(l, k)  BY <2>1, <2>2, <2>4, <2>5, <2>9 DEF Kept
  <2> QED  BY <2>2, <2>8, <2>9, <2>10, <2>11 DEF k
<1> QED  BY <1>1, <1>2

Gap(l, intent) == IF OverGround(l, intent) THEN RepairGroundGap(l) ELSE l

LEMMA GapKeeps ==
  ASSUME NEW intent, NEW tile, NEW l, ShapedLayer(l, tile)
  PROVE  /\ ShapedLayer(Gap(l, intent), tile) /\ Kept(l, Gap(l, intent))
         /\ l.type # "stripe" => Gap(l, intent) = l
         /\ l.type = "stripe" => Gap(l, intent).period = l.period
         /\ OverGround(l, intent) => WithinCap(Gap(l, intent))
         /\ \/ Gap(l, intent) = l
            \/ l.type = "stripe" /\ Gap(l, intent) = RepairGroundGap(l)
<1> DEFINE g == RepairGroundGap(l)
<1>1. CASE OverGround(l, intent)
  <2>1. l.type = "stripe" /\ Gap(l, intent) = g  BY <1>1 DEF OverGround, Gap
  <2>2. ShapedStripe(l, tile)  BY <2>1 DEF ShapedLayer
  <2>3. Moved(l, g) /\ g.period = l.period /\ g.bands \in Seq(BandSet) /\ WithinCap(g)
    BY <2>1, <2>2, RepairGroundGapIs
  <2> HIDE DEF g
  <2>4. ShapedStripe(g, tile)  BY <2>2, <2>3 DEF ShapedStripe, Moved, BandSet
  <2>5. Kept(l, g) /\ g.type = "stripe"  BY <2>1, <2>3 DEF Kept, Moved
  <2>6. ShapedLayer(g, tile)  BY <2>4, <2>5 DEF ShapedLayer
  <2> QED  BY <2>1, <2>3, <2>5, <2>6 DEF g
<1>2. CASE ~OverGround(l, intent)
  <2>1. Gap(l, intent) = l  BY <1>2 DEF Gap
  <2>2. Kept(l, l)  BY SameIsKept
  <2> QED  BY <1>2, <2>1, <2>2
<1> QED  BY <1>1, <1>2

-----------------------------------------------------------------------------
\* The intent between the steps of validate_intent.

(* Of no resolution too far off is one chosen: there is a nearest.          *)
LEMMA ClampDpiAllowed ==
  ASSUME NEW dpi \in Int
  PROVE  ClampDpi(dpi) \in AllowedDpi /\ ClampDpi(dpi) \in Int
<1> DEFINE key(d) == 2 * Abs(d - dpi) + (IF d > dpi THEN 1 ELSE 0)
           Keys == {key(d) : d \in AllowedDpi}
<1>1. AllowedDpi # {} /\ \A e \in AllowedDpi : e \in Nat  BY AllowedDpiAssumption
<1>2. ASSUME dpi \in AllowedDpi PROVE ClampDpi(dpi) \in AllowedDpi  BY <1>2 DEF ClampDpi
<1>3. ASSUME dpi \notin AllowedDpi PROVE ClampDpi(dpi) \in AllowedDpi
  <2>1. Keys \subseteq Nat /\ Keys # {}
    <3>1. ASSUME NEW e \in AllowedDpi PROVE key(e) \in Nat
      <4>1. e \in Nat  BY <1>1
      <4> QED  BY <4>1 DEF Abs
    <3> HIDE DEF key
    <3> QED  BY <1>1, <3>1
  <2>2. PICK x \in Keys : \A y \in Keys : x <= y
    <3> HIDE DEF Keys
    <3> QED  BY <2>1, LeastNatural
  <2>3. PICK d \in AllowedDpi : x = key(d)  BY <2>2
  <2>4. ASSUME NEW e \in AllowedDpi
        PROVE  \/ Abs(d - dpi) < Abs(e - dpi)
               \/ Abs(d - dpi) = Abs(e - dpi) /\ d <= e
    <3>1. key(d) <= key(e)  BY <2>2, <2>3
    <3>2. d \in Nat /\ e \in Nat  BY <1>1
    <3> QED  BY <3>1, <3>2 DEF Abs
  <2>5. \E c \in AllowedDpi : \A e \in AllowedDpi :
          \/ Abs(c - dpi) < Abs(e - dpi)
          \/ (Abs(c - dpi) = Abs(e - dpi) /\ c <= e)
    BY <2>4
  <2> QED  BY <1>3, <2>5 DEF ClampDpi
<1>4. ClampDpi(dpi) \in AllowedDpi  BY <1>2, <1>3
<1> QED  BY <1>1, <1>4

Based(raw)   == [raw EXCEPT !.dpi = ClampDpi(raw.dpi)]
TiledLayers(raw) ==
  [i \in DOMAIN Based(raw).layers |-> RepairPeriod(Based(raw).layers[i], raw.tile)]
Repaired(raw)   == [Based(raw) EXCEPT !.layers = TiledLayers(raw)]
Lanings(raw) ==
  [i \in DOMAIN Repaired(raw).layers |-> NormalizeLane(Repaired(raw).layers[i], Repaired(raw))]
Laned(raw)   == [Repaired(raw) EXCEPT !.layers = Lanings(raw)]
Gaps(raw)    == [i \in DOMAIN Laned(raw).layers |-> Gap(Laned(raw).layers[i], Laned(raw))]
Final(raw)   == [Laned(raw) EXCEPT !.layers = Gaps(raw)]

LEMMA ValidateIs ==
  ASSUME NEW raw
  PROVE  \/ Validate(raw) = [errors |-> {"structure"}, intent |-> raw]
         \/ Validate(raw) = [errors |-> {"palette"}, intent |-> raw]
         \/ /\ WellFormed(raw) /\ PaletteOK(raw)
            /\ Validate(raw) = [errors |-> IntentErrors(Laned(raw)),
                                intent |-> IF IntentErrors(Laned(raw)) = {} THEN Final(raw)
                                           ELSE Laned(raw)]
BY DEF Validate, MapLayers, Based, TiledLayers, Repaired, Lanings, Laned, Gap, Gaps, Final

(* Validation gets as far as the checks when the structure is right.        *)
LEMMA ValidateGoesOn ==
  ASSUME NEW raw, WellFormed(raw), PaletteOK(raw)
  PROVE  Validate(raw) = [errors |-> IntentErrors(Laned(raw)),
                          intent |-> IF IntentErrors(Laned(raw)) = {} THEN Final(raw)
                                     ELSE Laned(raw)]
BY DEF Validate, MapLayers, Based, TiledLayers, Repaired, Lanings, Laned, Gap, Gaps, Final

\* Everything but the resolution and the layers.
Frame(x, y) ==
  /\ DOMAIN y = DOMAIN x /\ y.tile = x.tile /\ y.method = x.method /\ y.maxColors = x.maxColors
  /\ y.slots = x.slots /\ y.colorways = x.colorways
  /\ DOMAIN y.layers = DOMAIN x.layers

(* An intent with other layers.                                             *)
LEMMA OtherLayers ==
  ASSUME NEW x, Shaped(x), NEW f, DOMAIN f = DOMAIN x.layers,
         \A i \in DOMAIN x.layers : ShapedLayer(f[i], x.tile)
  PROVE  LET y == [x EXCEPT !.layers = f]
         IN Shaped(y) /\ Frame(x, y) /\ y.layers = f /\ y.dpi = x.dpi
<1> DEFINE y == [x EXCEPT !.layers = f]
<1>1. /\ DOMAIN y = DOMAIN x /\ y.layers = f /\ y.dpi = x.dpi /\ y.tile = x.tile
      /\ y.method = x.method /\ y.maxColors = x.maxColors
      /\ y.slots = x.slots /\ y.colorways = x.colorways
  BY DEF Shaped
<1> HIDE DEF y
<1>2. Shaped(y)  BY <1>1 DEF Shaped
<1>3. Frame(x, y)  BY <1>1 DEF Frame
<1> QED  BY <1>1, <1>2, <1>3 DEF y

LEMMA BasedIs ==
  ASSUME NEW raw, Shaped(raw)
  PROVE  /\ Shaped(Based(raw)) /\ Frame(raw, Based(raw))
         /\ Based(raw).layers = raw.layers /\ Based(raw).dpi = ClampDpi(raw.dpi)
<1> DEFINE d == ClampDpi(raw.dpi)
<1>1. d \in AllowedDpi /\ d \in Int  BY ClampDpiAllowed DEF Shaped
<1> HIDE DEF d
<1> DEFINE y == [raw EXCEPT !.dpi = d]
<1>2. /\ DOMAIN y = DOMAIN raw /\ y.layers = raw.layers /\ y.dpi = d /\ y.tile = raw.tile
      /\ y.method = raw.method /\ y.maxColors = raw.maxColors
      /\ y.slots = raw.slots /\ y.colorways = raw.colorways
  BY DEF Shaped
<1>3. Based(raw) = y /\ d = ClampDpi(raw.dpi)  BY DEF Based, d
<1> HIDE DEF y
<1>4. Shaped(y)  BY <1>1, <1>2 DEF Shaped
<1>5. Frame(raw, y)  BY <1>2 DEF Frame
<1> QED  BY <1>1, <1>2, <1>3, <1>4, <1>5

LEMMA RepairedIs ==
  ASSUME NEW raw, Shaped(raw)
  PROVE  /\ Shaped(Repaired(raw)) /\ Frame(raw, Repaired(raw))
         /\ Repaired(raw).dpi = ClampDpi(raw.dpi)
         /\ \A i \in DOMAIN raw.layers :
              Repaired(raw).layers[i] = RepairPeriod(raw.layers[i], raw.tile)
<1> DEFINE x == Based(raw)
           f == TiledLayers(raw)
<1>1. /\ Shaped(x) /\ Frame(raw, x) /\ x.layers = raw.layers /\ x.dpi = ClampDpi(raw.dpi)
      /\ x.tile = raw.tile
  BY BasedIs DEF Frame
<1>2. DOMAIN f = DOMAIN x.layers
      /\ \A i \in DOMAIN x.layers : f[i] = RepairPeriod(x.layers[i], raw.tile)
  BY DEF TiledLayers
<1>3. ASSUME NEW i \in DOMAIN x.layers PROVE ShapedLayer(f[i], x.tile)
  <2>1. ShapedLayer(x.layers[i], x.tile) /\ x.tile \in Nat \ {0}  BY <1>1 DEF Shaped
  <2>2. ShapedLayer(RepairPeriod(x.layers[i], x.tile), x.tile)  BY <2>1, PeriodKeeps
  <2> QED  BY <1>1, <1>2, <2>2
<1>4. Repaired(raw) = [x EXCEPT !.layers = f]  BY DEF Repaired
<1> HIDE DEF x, f
<1>5. Shaped(Repaired(raw)) /\ Frame(x, Repaired(raw)) /\ Repaired(raw).layers = f
      /\ Repaired(raw).dpi = x.dpi
  BY <1>1, <1>2, <1>3, <1>4, OtherLayers
<1> QED  BY <1>1, <1>2, <1>5 DEF Frame

LEMMA LanedIs ==
  ASSUME NEW raw, Shaped(raw)
  PROVE  /\ Shaped(Laned(raw)) /\ Frame(raw, Laned(raw)) /\ Laned(raw).dpi = ClampDpi(raw.dpi)
         /\ \A i \in DOMAIN raw.layers :
              Laned(raw).layers[i] = NormalizeLane(Repaired(raw).layers[i], Repaired(raw))
<1> DEFINE x == Repaired(raw)
           f == Lanings(raw)
<1>1. Shaped(x) /\ Frame(raw, x) /\ x.dpi = ClampDpi(raw.dpi)  BY RepairedIs
<1>2. DOMAIN f = DOMAIN x.layers
      /\ \A i \in DOMAIN x.layers : f[i] = NormalizeLane(x.layers[i], x)
  BY DEF Lanings
<1>3. ASSUME NEW i \in DOMAIN x.layers PROVE ShapedLayer(f[i], x.tile)
  <2>1. ShapedLayer(x.layers[i], x.tile)  BY <1>1 DEF Shaped
  <2>2. ShapedLayer(NormalizeLane(x.layers[i], x), x.tile)  BY <2>1, LaneKeeps
  <2> QED  BY <1>2, <2>2
<1>4. Laned(raw) = [x EXCEPT !.layers = f]  BY DEF Laned
<1>5. DOMAIN x.layers = DOMAIN raw.layers  BY <1>1 DEF Frame
<1> HIDE DEF f
<1>6. Shaped(Laned(raw)) /\ Frame(x, Laned(raw)) /\ Laned(raw).layers = f
      /\ Laned(raw).dpi = x.dpi
  <2> HIDE DEF x
  <2> QED  BY <1>1, <1>2, <1>3, <1>4, OtherLayers
<1> QED  BY <1>1, <1>2, <1>5, <1>6 DEF Frame

LEMMA FinalIs ==
  ASSUME NEW raw, Shaped(raw)
  PROVE  /\ Shaped(Final(raw)) /\ Frame(raw, Final(raw)) /\ Final(raw).dpi = ClampDpi(raw.dpi)
         /\ \A i \in DOMAIN raw.layers :
              Final(raw).layers[i] = Gap(Laned(raw).layers[i], Laned(raw))
<1> DEFINE x == Laned(raw)
           f == Gaps(raw)
<1>1. Shaped(x) /\ Frame(raw, x) /\ x.dpi = ClampDpi(raw.dpi)  BY LanedIs
<1>2. DOMAIN f = DOMAIN x.layers
      /\ \A i \in DOMAIN x.layers : f[i] = Gap(x.layers[i], x)
  BY DEF Gaps
<1>3. ASSUME NEW i \in DOMAIN x.layers PROVE ShapedLayer(f[i], x.tile)
  <2>1. ShapedLayer(x.layers[i], x.tile)  BY <1>1 DEF Shaped
  <2>2. ShapedLayer(Gap(x.layers[i], x), x.tile)  BY <2>1, GapKeeps
  <2> QED  BY <1>2, <2>2
<1>4. Final(raw) = [x EXCEPT !.layers = f]  BY DEF Final
<1>5. DOMAIN x.layers = DOMAIN raw.layers  BY <1>1 DEF Frame
<1> HIDE DEF f
<1>6. Shaped(Final(raw)) /\ Frame(x, Final(raw)) /\ Final(raw).layers = f
      /\ Final(raw).dpi = x.dpi
  <2> HIDE DEF x
  <2> QED  BY <1>1, <1>2, <1>3, <1>4, OtherLayers
<1> QED  BY <1>1, <1>2, <1>5, <1>6 DEF Frame

(* What validation hands back has the shape of what it was given.           *)
LEMMA ValidateShaped ==
  ASSUME NEW raw, Shaped(raw)
  PROVE  Shaped(Validate(raw).intent)
BY ValidateIs, LanedIs, FinalIs

-----------------------------------------------------------------------------
\* What it means that there are no errors

PlacementFine(layer, intent) ==
  LET p    == layer.placement
      host == LayerById(intent, p.host)
  IN /\ p.type = "path_following" => p.spacing # NoLength /\ LaneMode(p)
     /\ p.type = "lattice"   => LatticeValid(p.lattice, intent.tile)
     /\ p.type = "scatter"   => ScatterValid(p.scatter, intent.tile)
     /\ p.type = "point_set" => PointsValid(p.points, intent.tile)
     /\ p.host # NoId => p.host # layer.id /\ host # None
     /\ p.type = "path_following" /\ p.host # NoId /\ host # None
          => host.type = "stripe" \/ p.host = layer.id
     /\ p.path # None => WaveCloses(p.path, intent.tile)

LayerFine(layer, intent) ==
  /\ SlotRefs(layer) \subseteq SlotIds(intent)
  /\ layer.type = "motif" /\ layer.motif \in Motifs
       => DOMAIN layer.binding = ColorSlots[layer.motif]
  /\ layer.type = "motif" => layer.size <= intent.tile
  /\ layer.type = "stripe" => StripeFits(layer, intent.tile)
  /\ Placed(layer) => PlacementFine(layer, intent)

UniqueIds(intent) ==
  \A i, j \in DOMAIN intent.layers : intent.layers[i].id = intent.layers[j].id => i = j

IntentFine(intent) ==
  /\ intent.method = "yarn_dyed" =>
       \A i \in DOMAIN intent.colorways :
         Cardinality(DistinctColors(intent, intent.colorways[i])) <= intent.maxColors
  /\ UniqueIds(intent)
  /\ intent.tile <= MaxTile
  /\ \A i \in DOMAIN intent.layers : LayerFine(intent.layers[i], intent)

LEMMA PlacementErrorsAre ==
  ASSUME NEW layer, NEW intent
  PROVE  PlacementErrors(layer, intent) = {} <=> PlacementFine(layer, intent)
<1> DEFINE p    == layer.placement
           host == LayerById(intent, p.host)
           unless(ok, error) == IF ok THEN {} ELSE {error}
           a == IF p.type = "path_following"
                THEN unless(p.spacing # NoLength, "spacing") \cup unless(LaneMode(p), "lane mode")
                ELSE {}
           b == unless(p.type = "lattice"   => LatticeValid(p.lattice, intent.tile), "lattice")
           c == unless(p.type = "scatter"   => ScatterValid(p.scatter, intent.tile), "scatter")
           d == unless(p.type = "point_set" => PointsValid(p.points, intent.tile), "point_set")
           e == unless(p.host # NoId => p.host # layer.id /\ host # None, "host_layer")
           f == unless(p.type = "path_following" /\ p.host # NoId /\ host # None
                         => host.type = "stripe" \/ p.host = layer.id, "host type")
           g == unless(p.path # None => WaveCloses(p.path, intent.tile), "wavelength")
<1>1. PlacementErrors(layer, intent) = UNION {a, b, c, d, e, f, g}
  BY DEF PlacementErrors
<1>2. /\ a = {} <=> (p.type = "path_following" => p.spacing # NoLength /\ LaneMode(p))
      /\ b = {} <=> (p.type = "lattice"   => LatticeValid(p.lattice, intent.tile))
      /\ c = {} <=> (p.type = "scatter"   => ScatterValid(p.scatter, intent.tile))
      /\ d = {} <=> (p.type = "point_set" => PointsValid(p.points, intent.tile))
      /\ e = {} <=> (p.host # NoId => p.host # layer.id /\ host # None)
      /\ f = {} <=> (p.type = "path_following" /\ p.host # NoId /\ host # None
                       => host.type = "stripe" \/ p.host = layer.id)
      /\ g = {} <=> (p.path # None => WaveCloses(p.path, intent.tile))
  OBVIOUS
<1> HIDE DEF a, b, c, d, e, f, g
<1>3. UNION {a, b, c, d, e, f, g} = {}
        <=> a = {} /\ b = {} /\ c = {} /\ d = {} /\ e = {} /\ f = {} /\ g = {}
  OBVIOUS
<1> QED  BY <1>1, <1>2, <1>3 DEF PlacementFine

LEMMA LayerErrorsAre ==
  ASSUME NEW layer, NEW intent
  PROVE  LayerErrors(layer, intent) = {} <=> LayerFine(layer, intent)
<1> DEFINE unless(ok, error) == IF ok THEN {} ELSE {error}
           a == unless(SlotRefs(layer) \subseteq SlotIds(intent), "slot")
           b == unless(layer.type = "motif" /\ layer.motif \in Motifs
                         => DOMAIN layer.binding = ColorSlots[layer.motif], "colors")
           c == unless(layer.type = "motif" => layer.size <= intent.tile, "size")
           d == unless(layer.type = "stripe" => StripeFits(layer, intent.tile), "stripe")
           e == IF Placed(layer) THEN PlacementErrors(layer, intent) ELSE {}
<1>1. LayerErrors(layer, intent) = UNION {a, b, c, d, e}
  BY DEF LayerErrors
<1>2. /\ a = {} <=> SlotRefs(layer) \subseteq SlotIds(intent)
      /\ b = {} <=> (layer.type = "motif" /\ layer.motif \in Motifs
                       => DOMAIN layer.binding = ColorSlots[layer.motif])
      /\ c = {} <=> (layer.type = "motif" => layer.size <= intent.tile)
      /\ d = {} <=> (layer.type = "stripe" => StripeFits(layer, intent.tile))
  OBVIOUS
<1>3. e = {} <=> (Placed(layer) => PlacementFine(layer, intent))
  BY PlacementErrorsAre
<1> HIDE DEF a, b, c, d, e
<1>4. UNION {a, b, c, d, e} = {} <=> a = {} /\ b = {} /\ c = {} /\ d = {} /\ e = {}
  OBVIOUS
<1> QED  BY <1>1, <1>2, <1>3, <1>4 DEF LayerFine

LEMMA IntentErrorsAre ==
  ASSUME NEW intent
  PROVE  IntentErrors(intent) = {} <=> IntentFine(intent)
<1> DEFINE unless(ok, error) == IF ok THEN {} ELSE {error}
           a == unless(intent.method = "yarn_dyed" =>
                         \A i \in DOMAIN intent.colorways :
                           Cardinality(DistinctColors(intent, intent.colorways[i]))
                             <= intent.maxColors, "max_colors")
           b == unless(\A i, j \in DOMAIN intent.layers :
                         intent.layers[i].id = intent.layers[j].id => i = j, "duplicate id")
           c == unless(intent.tile <= MaxTile, "max_tile_mm")
           d == UNION {LayerErrors(l, intent) : l \in Layers(intent)}
<1>1. IntentErrors(intent) = UNION {a, b, c, d}  BY DEF IntentErrors
<1>2. /\ a = {} <=> (intent.method = "yarn_dyed" =>
                       \A i \in DOMAIN intent.colorways :
                         Cardinality(DistinctColors(intent, intent.colorways[i]))
                           <= intent.maxColors)
      /\ b = {} <=> UniqueIds(intent)
      /\ c = {} <=> intent.tile <= MaxTile
  BY DEF UniqueIds
<1>3. d = {} <=> \A i \in DOMAIN intent.layers : LayerFine(intent.layers[i], intent)
  <2>1. d = {} <=> \A l \in Layers(intent) : LayerErrors(l, intent) = {}  OBVIOUS
  <2> QED  BY <2>1, LayerErrorsAre DEF Layers
<1> HIDE DEF a, b, c, d
<1>4. UNION {a, b, c, d} = {} <=> a = {} /\ b = {} /\ c = {} /\ d = {}
  OBVIOUS
<1> QED  BY <1>1, <1>2, <1>3, <1>4 DEF IntentFine

(* A layer is found by its id.                                              *)
LEMMA FoundById ==
  ASSUME NEW x, Shaped(x), UniqueIds(x), NEW i \in DOMAIN x.layers
  PROVE  LayerById(x, x.layers[i].id) = x.layers[i]
<1> DEFINE id == x.layers[i].id
<1>1. i \in Nat  BY DEF Shaped
<1>2. \A j \in DOMAIN x.layers : x.layers[j].id = id => j <= i  BY <1>1 DEF UniqueIds
<1>3. \E c \in DOMAIN x.layers :
        /\ x.layers[c].id = id
        /\ \A j \in DOMAIN x.layers : x.layers[j].id = id => j <= c
  BY <1>2
<1> DEFINE c == CHOOSE c \in DOMAIN x.layers :
                  /\ x.layers[c].id = id
                  /\ \A j \in DOMAIN x.layers : x.layers[j].id = id => j <= c
<1>4. c \in DOMAIN x.layers /\ x.layers[c].id = id  BY <1>3
<1>5. c = i  BY <1>4 DEF UniqueIds
<1>6. \E l \in Layers(x) : l.id = id  BY DEF Layers
<1> QED  BY <1>5, <1>6 DEF LayerById

LEMMA NotFoundById ==
  ASSUME NEW x, NEW id, \A i \in DOMAIN x.layers : x.layers[i].id # id
  PROVE  LayerById(x, id) = None
BY DEF LayerById, Layers

LEMMA LayerIsNotNone ==
  ASSUME NEW l, NEW tile, ShapedLayer(l, tile)
  PROVE  l # None
<1>1. "type" \in DOMAIN l  BY DEF ShapedLayer, ShapedStripe, ShapedMotif
<1> QED  BY <1>1 DEF None

\* Two layers that host alike.
HostsAlike(a, b) ==
  /\ a = None <=> b = None
  /\ a # None => /\ b.type = a.type
                 /\ a.type = "stripe" => Len(b.bands) = Len(a.bands)

LEMMA KeptHosts ==
  ASSUME NEW x, Shaped(x), UniqueIds(x), NEW y, Shaped(y), DOMAIN y.layers = DOMAIN x.layers,
         \A i \in DOMAIN x.layers : Kept(x.layers[i], y.layers[i]), NEW id
  PROVE  UniqueIds(y) /\ HostsAlike(LayerById(x, id), LayerById(y, id))
<1>1. UniqueIds(y)
  <2>1. \A i \in DOMAIN x.layers : y.layers[i].id = x.layers[i].id  BY DEF Kept
  <2> QED  BY <2>1 DEF UniqueIds
<1>2. CASE \E i \in DOMAIN x.layers : x.layers[i].id = id
  <2>1. PICK i \in DOMAIN x.layers : x.layers[i].id = id  BY <1>2
  <2>2. Kept(x.layers[i], y.layers[i]) /\ y.layers[i].id = id  BY <2>1 DEF Kept
  <2>3. LayerById(x, id) = x.layers[i]  BY <2>1, FoundById
  <2>4. LayerById(y, id) = y.layers[i]  BY <1>1, <2>2, FoundById
  <2>5. x.layers[i] # None /\ y.layers[i] # None
    <3>1. ShapedLayer(x.layers[i], x.tile) /\ ShapedLayer(y.layers[i], y.tile)  BY DEF Shaped
    <3> QED  BY <3>1, LayerIsNotNone
  <2> QED  BY <1>1, <2>2, <2>3, <2>4, <2>5 DEF HostsAlike, Kept, Moved
<1>3. CASE \A i \in DOMAIN x.layers : x.layers[i].id # id
  <2>1. \A i \in DOMAIN y.layers : y.layers[i].id # id  BY <1>3 DEF Kept
  <2> QED  BY <1>1, <1>3, <2>1, NotFoundById DEF HostsAlike
<1> QED  BY <1>2, <1>3

-----------------------------------------------------------------------------
\* The ground repair, which comes after the checks, undoes none of them.

\* Some stripes have moved bands.
Tuned(x, y) ==
  /\ Frame(x, y)
  /\ \A i \in DOMAIN x.layers :
       \/ y.layers[i] = x.layers[i]
       \/ /\ x.layers[i].type = "stripe" /\ Moved(x.layers[i], y.layers[i])
          /\ y.layers[i].period = x.layers[i].period

LEMMA TunedIsKept ==
  ASSUME NEW x, NEW y, Tuned(x, y), NEW i \in DOMAIN x.layers
  PROVE  Kept(x.layers[i], y.layers[i])
<1>1. CASE y.layers[i] = x.layers[i]  BY <1>1, SameIsKept
<1>2. CASE y.layers[i] # x.layers[i]  BY <1>2 DEF Tuned, Kept, Moved
<1> QED  BY <1>1, <1>2

LEMMA PlacementStaysFine ==
  ASSUME NEW l, NEW x, NEW y, y.tile = x.tile, PlacementFine(l, x),
         HostsAlike(LayerById(x, l.placement.host), LayerById(y, l.placement.host))
  PROVE  PlacementFine(l, y)
BY DEF PlacementFine, HostsAlike

LEMMA TunedStaysFine ==
  ASSUME NEW x, Shaped(x), NEW y, Shaped(y), Tuned(x, y), IntentFine(x)
  PROVE  IntentFine(y)
<1>1. Frame(x, y) /\ UniqueIds(x)  BY DEF Tuned, IntentFine
<1>2. \A i \in DOMAIN x.layers : Kept(x.layers[i], y.layers[i])  BY TunedIsKept
<1>3. UniqueIds(y) /\ \A id : HostsAlike(LayerById(x, id), LayerById(y, id))
  BY <1>1, <1>2, KeptHosts DEF Frame
<1>4. SlotIds(y) = SlotIds(x)  BY <1>1 DEF Frame, SlotIds
<1>5. y.method = "yarn_dyed" =>
        \A i \in DOMAIN y.colorways :
          Cardinality(DistinctColors(y, y.colorways[i])) <= y.maxColors
  <2>1. ASSUME NEW c PROVE DistinctColors(y, c) = DistinctColors(x, c)
    BY <1>4 DEF DistinctColors
  <2> QED  BY <1>1, <2>1 DEF Frame, IntentFine
<1>6. ASSUME NEW i \in DOMAIN x.layers PROVE LayerFine(y.layers[i], y)
  <2> DEFINE l == x.layers[i]
             k == y.layers[i]
  <2>1. LayerFine(l, x)  BY DEF IntentFine
  <2>2. y.tile = x.tile  BY <1>1 DEF Frame
  <2>3. CASE k = l
    <3> HIDE DEF l, k
    <3>1. Placed(l) => PlacementFine(l, y)
      BY <1>3, <2>1, <2>2, PlacementStaysFine DEF LayerFine
    <3>2. LayerFine(k, y)  BY <1>4, <2>1, <2>2, <2>3, <3>1 DEF LayerFine
    <3> QED  BY <3>2 DEF k
  <2>4. CASE /\ l.type = "stripe" /\ Moved(l, k) /\ k.period = l.period
    <3> HIDE DEF l, k
    <3>1. SlotRefs(k) = SlotRefs(l)  BY <2>4 DEF SlotRefs, Moved
    <3>2. StripeFits(k, y.tile)  BY <2>1, <2>2, <2>4 DEF LayerFine, StripeFits, Moved
    <3>3. k.type = "stripe" /\ ~Placed(k)  BY <2>4 DEF Moved, Placed
    <3>4. LayerFine(k, y)  BY <1>4, <2>1, <3>1, <3>2, <3>3 DEF LayerFine
    <3> QED  BY <3>4 DEF k
  <2> QED  BY <2>3, <2>4 DEF Tuned
<1>7. y.tile <= MaxTile /\ DOMAIN y.layers = DOMAIN x.layers  BY <1>1 DEF Frame, IntentFine
<1> QED  BY <1>3, <1>5, <1>6, <1>7 DEF IntentFine

\* Whether the lane of a layer is to be normalized.
LaneIsBare(l, x) ==
  /\ Placed(l)
  /\ l.placement.type = "path_following"
  /\ l.placement.lane \in BareLanes
  /\ \E host \in {LayerById(x, l.placement.host)} :
       host # None /\ host.type = "stripe" /\ Len(host.bands) > 1

LEMMA NormalizedMeans ==
  ASSUME NEW x, NEW tile, NEW l, ShapedLayer(l, tile)
  PROVE  NormalizeLane(l, x) = l <=> ~LaneIsBare(l, x)
<1>1. CASE ~LaneIsBare(l, x)  BY <1>1 DEF NormalizeLane, LaneIsBare
<1>2. CASE LaneIsBare(l, x)
  <2> DEFINE k == [l EXCEPT !.placement.lane = <<0, l.placement.lane[1]>>]
  <2>1. NormalizeLane(l, x) = k  BY <1>2 DEF NormalizeLane, LaneIsBare
  <2>2. l.type = "motif" /\ ShapedMotif(l) /\ ShapedPlacement(l.placement)
    BY <1>2 DEF LaneIsBare, Placed, ShapedLayer, ShapedMotif
  <2>3. k.placement.lane = <<0, l.placement.lane[1]>>  BY <2>2 DEF ShapedMotif, ShapedPlacement
  <2>4. l.placement.lane \in BareLanes  BY <1>2 DEF LaneIsBare
  <2>5. k.placement.lane \notin BareLanes  BY <2>3, <2>4, NotBare
  <2> HIDE DEF k
  <2> QED  BY <1>2, <2>1, <2>4, <2>5
<1> QED  BY <1>1, <1>2

LEMMA SameHostsSameLane ==
  ASSUME NEW x, NEW y, NEW l,
         HostsAlike(LayerById(x, l.placement.host), LayerById(y, l.placement.host))
  PROVE  LaneIsBare(l, x) <=> LaneIsBare(l, y)
BY DEF LaneIsBare, HostsAlike

LEMMA KeptStructure ==
  ASSUME NEW x, Shaped(x), NEW y, Shaped(y), Frame(x, y),
         \A i \in DOMAIN x.layers : Kept(x.layers[i], y.layers[i])
  PROVE  /\ WellFormed(x) => WellFormed(y)
         /\ PaletteOK(x) => PaletteOK(y)
<1>1. ASSUME WellFormed(x) PROVE WellFormed(y)
  <2>1. ASSUME NEW i \in DOMAIN x.layers, y.layers[i].type = "stripe"
        PROVE  y.layers[i].bands # <<>>
    <3>1. x.layers[i].type = "stripe" /\ Moved(x.layers[i], y.layers[i])  BY <2>1 DEF Kept
    <3>2. x.layers[i].bands # <<>>  BY <1>1, <3>1 DEF WellFormed, LayersOf, Layers
    <3>3. x.layers[i].bands \in Seq([offset : Int, width : Nat, color : STRING])
          /\ y.layers[i].bands \in Seq([offset : Int, width : Nat, color : STRING])
      <4>1. ShapedLayer(x.layers[i], x.tile) /\ ShapedLayer(y.layers[i], y.tile)
        BY DEF Shaped, Frame
      <4> QED  BY <2>1, <3>1, <4>1 DEF ShapedLayer, ShapedStripe
    <3>4. Len(y.layers[i].bands) = Len(x.layers[i].bands)  BY <3>1 DEF Moved
    <3> QED  BY <3>2, <3>3, <3>4
  <2>2. ASSUME NEW i \in DOMAIN x.layers, Placed(y.layers[i])
        PROVE  LET p == y.layers[i].placement
               IN /\ (p.lattice # None) <=> (p.type = "lattice")
                  /\ (p.scatter # None) <=> (p.type = "scatter")
                  /\ (p.points # None)  <=> (p.type = "point_set")
    <3> DEFINE l == x.layers[i]
               k == y.layers[i]
    <3>1. Kept(l, k) /\ l.type = "motif" /\ Placed(l)  BY <2>2 DEF Kept, Placed
    <3>2. ShapedPlacement(l.placement)  BY <3>1 DEF Shaped, ShapedLayer, ShapedMotif, Placed
    <3>3. /\ (l.placement.lattice # None) <=> (l.placement.type = "lattice")
          /\ (l.placement.scatter # None) <=> (l.placement.type = "scatter")
          /\ (l.placement.points # None)  <=> (l.placement.type = "point_set")
      BY <1>1, <3>1 DEF WellFormed, Layers
    <3> HIDE DEF l, k
    <3>4. \A f \in {"lattice", "scatter", "points", "type"} : k.placement[f] = l.placement[f]
      BY <3>1, <3>2 DEF Kept, ShapedPlacement
    <3> QED  BY <3>3, <3>4 DEF k
  <2> QED  BY <2>1, <2>2 DEF WellFormed, LayersOf, Layers, Frame
<1>2. ASSUME PaletteOK(x) PROVE PaletteOK(y)
  <2>1. SlotIds(y) = SlotIds(x)  BY DEF Frame, SlotIds
  <2>2. y.slots = x.slots /\ y.colorways = x.colorways  BY DEF Frame
  <2> QED  BY <1>2, <2>1, <2>2 DEF PaletteOK
<1> QED  BY <1>1, <1>2

LEMMA KeptTwice ==
  ASSUME NEW tile, NEW l, ShapedLayer(l, tile), NEW k, NEW m, Kept(l, k), Kept(k, m)
  PROVE  Kept(l, m)
<1>1. CASE l.type = "background"  BY <1>1 DEF Kept
<1>2. CASE l.type = "stripe"  BY <1>2 DEF Kept, Moved
<1>3. CASE l.type = "motif"
  <2>1. CASE l.placement = None \/ k.placement = l.placement  BY <1>3, <2>1 DEF Kept, Placed
  <2>2. CASE l.placement # None /\ k.placement # l.placement
    <3>1. /\ Placed(l) /\ Placed(k) /\ l.placement.lane \in BareLanes
          /\ k.placement.lane = <<0, l.placement.lane[1]>>
          /\ \A f \in DOMAIN l.placement \ {"lane"} : k.placement[f] = l.placement[f]
      BY <1>3, <2>2 DEF Kept
    <3>2. k.placement.lane \notin BareLanes  BY <3>1, NotBare
    <3>3. m.placement = k.placement  BY <1>3, <3>1, <3>2 DEF Kept
    <3> QED  BY <1>3, <3>1, <3>3 DEF Kept, Placed
  <2> QED  BY <2>1, <2>2
<1> QED  BY <1>1, <1>2, <1>3 DEF ShapedLayer

-----------------------------------------------------------------------------
\* What validation accepts, and what it does to what it has accepted.

Fine(x) ==
  /\ Shaped(x) /\ WellFormed(x) /\ PaletteOK(x) /\ x.dpi \in AllowedDpi
  /\ \A i \in DOMAIN x.layers : NormalizeLane(x.layers[i], x) = x.layers[i]
  /\ IntentErrors(x) = {}
  /\ \A i \in DOMAIN x.layers : OverGround(x.layers[i], x) => WithinCap(x.layers[i])

LEMMA RepairedKept ==
  ASSUME NEW raw, Shaped(raw), NEW i \in DOMAIN raw.layers
  PROVE  Kept(raw.layers[i], Repaired(raw).layers[i])
<1>1. ShapedLayer(raw.layers[i], raw.tile) /\ raw.tile \in Nat \ {0}  BY DEF Shaped
<1>2. Kept(raw.layers[i], RepairPeriod(raw.layers[i], raw.tile))  BY <1>1, PeriodKeeps
<1> QED  BY <1>2, RepairedIs

LEMMA LanedFromRepaired ==
  ASSUME NEW raw, Shaped(raw), NEW i \in DOMAIN raw.layers
  PROVE  /\ ShapedLayer(Repaired(raw).layers[i], raw.tile)
         /\ ShapedLayer(Laned(raw).layers[i], raw.tile)
         /\ Kept(Repaired(raw).layers[i], Laned(raw).layers[i])
         /\ Repaired(raw).layers[i].type # "motif" =>
              Laned(raw).layers[i] = Repaired(raw).layers[i]
         /\ \/ Laned(raw).layers[i] = Repaired(raw).layers[i]
            \/ /\ Placed(Laned(raw).layers[i])
               /\ Laned(raw).layers[i].placement.lane \notin BareLanes
<1> DEFINE l == Repaired(raw).layers[i]
<1>1. /\ Shaped(Repaired(raw)) /\ Frame(raw, Repaired(raw))
      /\ Shaped(Laned(raw)) /\ Frame(raw, Laned(raw))
      /\ Laned(raw).layers[i] = NormalizeLane(l, Repaired(raw))
  BY RepairedIs, LanedIs
<1>2. ShapedLayer(l, raw.tile) /\ ShapedLayer(Laned(raw).layers[i], raw.tile)
  BY <1>1 DEF Shaped, Frame
<1> HIDE DEF l
<1> DEFINE x == Repaired(raw)
           k == NormalizeLane(l, x)
<1>3. /\ ShapedLayer(k, raw.tile) /\ Kept(l, k) /\ (l.type # "motif" => k = l)
      /\ \/ k = l
         \/ Placed(k) /\ k.placement.lane \notin BareLanes
  <2> HIDE DEF x
  <2> QED  BY <1>2, LaneKeeps
<1> HIDE DEF k
<1>4. Laned(raw).layers[i] = k  BY <1>1 DEF k
<1> QED  BY <1>2, <1>3, <1>4 DEF l

LEMMA LanedKept ==
  ASSUME NEW raw, Shaped(raw), NEW i \in DOMAIN raw.layers
  PROVE  /\ Kept(raw.layers[i], Laned(raw).layers[i])
         /\ raw.layers[i].type = "stripe" =>
              Laned(raw).layers[i] = RepairPeriod(raw.layers[i], raw.tile)
<1>1. ShapedLayer(raw.layers[i], raw.tile)  BY DEF Shaped
<1>2. Kept(raw.layers[i], Repaired(raw).layers[i])  BY RepairedKept
<1>3. Kept(Repaired(raw).layers[i], Laned(raw).layers[i])  BY LanedFromRepaired
<1>4. Kept(raw.layers[i], Laned(raw).layers[i])  BY <1>1, <1>2, <1>3, KeptTwice
<1>5. ASSUME raw.layers[i].type = "stripe"
      PROVE  Laned(raw).layers[i] = RepairPeriod(raw.layers[i], raw.tile)
  <2>1. Repaired(raw).layers[i].type = "stripe"  BY <1>2, <1>5 DEF Kept
  <2>2. Laned(raw).layers[i] = Repaired(raw).layers[i]  BY <2>1, LanedFromRepaired
  <2> QED  BY <2>2, RepairedIs
<1> QED  BY <1>4, <1>5

LEMMA FinalTuned ==
  ASSUME NEW raw, Shaped(raw)
  PROVE  Tuned(Laned(raw), Final(raw))
<1>1. /\ Frame(raw, Laned(raw)) /\ Frame(raw, Final(raw))
      /\ \A i \in DOMAIN raw.layers :
           Final(raw).layers[i] = Gap(Laned(raw).layers[i], Laned(raw))
  BY LanedIs, FinalIs
<1>2. Frame(Laned(raw), Final(raw))  BY <1>1 DEF Frame
<1>3. ASSUME NEW i \in DOMAIN raw.layers
      PROVE  LET l == Laned(raw).layers[i]
                 k == Final(raw).layers[i]
             IN \/ k = l
                \/ l.type = "stripe" /\ Moved(l, k) /\ k.period = l.period
  <2> DEFINE x == Laned(raw)
             l == x.layers[i]
             k == Gap(l, x)
  <2>1. ShapedLayer(l, raw.tile)  BY LanedFromRepaired
  <2>2. Final(raw).layers[i] = k  BY <1>1
  <2>3. /\ Kept(l, k)
        /\ l.type # "stripe" => k = l
        /\ l.type = "stripe" => k.period = l.period
    <3> HIDE DEF x, l
    <3> QED  BY <2>1, GapKeeps
  <2> HIDE DEF k
  <2> QED  BY <2>2, <2>3 DEF Kept
<1> QED  BY <1>1, <1>2, <1>3 DEF Tuned, Frame

LEMMA FinalKept ==
  ASSUME NEW raw, Shaped(raw), NEW i \in DOMAIN raw.layers
  PROVE  Kept(raw.layers[i], Final(raw).layers[i])
<1>1. ShapedLayer(raw.layers[i], raw.tile)  BY DEF Shaped
<1>2. Kept(raw.layers[i], Laned(raw).layers[i])  BY LanedKept
<1>3. DOMAIN Laned(raw).layers = DOMAIN raw.layers  BY LanedIs DEF Frame
<1>4. Kept(Laned(raw).layers[i], Final(raw).layers[i])  BY <1>3, FinalTuned, TunedIsKept
<1> QED  BY <1>1, <1>2, <1>4, KeptTwice

(* A lane that was normalized, or had no need to be, stays as it is.        *)
LEMMA FinalLanes ==
  ASSUME NEW raw, Shaped(raw), UniqueIds(Final(raw)), NEW i \in DOMAIN raw.layers
  PROVE  NormalizeLane(Final(raw).layers[i], Final(raw)) = Final(raw).layers[i]
<1> DEFINE x == Repaired(raw)
           y == Laned(raw)
           z == Final(raw)
<1>1. /\ Shaped(x) /\ Shaped(y) /\ Shaped(z)
      /\ Frame(raw, x) /\ Frame(raw, y) /\ Frame(raw, z)
      /\ y.layers[i] = NormalizeLane(x.layers[i], x)
  BY RepairedIs, LanedIs, FinalIs
<1>2. DOMAIN x.layers = DOMAIN raw.layers /\ DOMAIN z.layers = DOMAIN raw.layers
  BY <1>1 DEF Frame
<1>3. \A j \in DOMAIN raw.layers : Kept(x.layers[j], z.layers[j])
  <2> TAKE j \in DOMAIN raw.layers
  <2>1. ShapedLayer(x.layers[j], raw.tile)  BY LanedFromRepaired
  <2>2. Kept(x.layers[j], y.layers[j])  BY LanedFromRepaired
  <2>3. DOMAIN y.layers = DOMAIN raw.layers  BY <1>1 DEF Frame
  <2>4. Kept(y.layers[j], z.layers[j])  BY <2>3, FinalTuned, TunedIsKept
  <2> QED  BY <2>1, <2>2, <2>4, KeptTwice
<1>4. UniqueIds(x)
  <2>1. \A j \in DOMAIN raw.layers : z.layers[j].id = x.layers[j].id  BY <1>3 DEF Kept
  <2> QED  BY <1>2, <2>1 DEF UniqueIds
<1>5. ShapedLayer(x.layers[i], raw.tile) /\ ShapedLayer(z.layers[i], raw.tile)
  BY <1>1, <1>2, LanedFromRepaired DEF Shaped, Frame
<1>6. \A id : HostsAlike(LayerById(x, id), LayerById(z, id))
  <2> HIDE DEF x, z
  <2> QED  BY <1>1, <1>2, <1>3, <1>4, KeptHosts
<1>7. SUFFICES ~LaneIsBare(z.layers[i], z)  BY <1>5, NormalizedMeans
<1>8. CASE ~Placed(z.layers[i])  BY <1>8 DEF LaneIsBare
<1>9. CASE Placed(z.layers[i])
  <2>1. y.layers[i] = z.layers[i]
    <3>1. Tuned(y, z)  BY FinalTuned
    <3>2. DOMAIN y.layers = DOMAIN raw.layers  BY <1>1 DEF Frame
    <3> HIDE DEF y, z
    <3> QED  BY <1>9, <3>1, <3>2 DEF Tuned, Moved, Placed
  <2>2. CASE y.layers[i].placement.lane \notin BareLanes  BY <2>1, <2>2 DEF LaneIsBare
  <2>3. CASE y.layers[i] = x.layers[i]
    <3>1. ~LaneIsBare(x.layers[i], x)  BY <1>1, <1>5, <2>3, NormalizedMeans
    <3> HIDE DEF x, y, z
    <3> QED  BY <1>6, <2>1, <2>3, <3>1, SameHostsSameLane
  <2> QED  BY <2>2, <2>3, LanedFromRepaired
<1> QED  BY <1>8, <1>9

(* What is accepted is fine.                                                *)
LEMMA AcceptedIsFine ==
  ASSUME NEW raw, Shaped(raw), Validate(raw).errors = {}
  PROVE  /\ Validate(raw).intent = Final(raw)
         /\ Fine(Final(raw)) /\ Frame(raw, Final(raw))
         /\ \A i \in DOMAIN raw.layers : Kept(raw.layers[i], Final(raw).layers[i])
<1> DEFINE y == Laned(raw)
           z == Final(raw)
<1>1. /\ WellFormed(raw) /\ PaletteOK(raw)
      /\ IntentErrors(y) = {} /\ Validate(raw).intent = z
  BY ValidateIs
<1>2. /\ Shaped(y) /\ Frame(raw, y) /\ Shaped(z) /\ Frame(raw, z)
      /\ \A i \in DOMAIN raw.layers : z.layers[i] = Gap(y.layers[i], y)
      /\ z.dpi \in AllowedDpi
  <2>1. ClampDpi(raw.dpi) \in AllowedDpi  BY ClampDpiAllowed DEF Shaped
  <2> QED  BY <2>1, LanedIs, FinalIs
<1>3. Tuned(y, z)  BY FinalTuned
<1>4. \A i \in DOMAIN raw.layers : Kept(raw.layers[i], z.layers[i])  BY FinalKept
<1>5. IntentFine(z)
  <2>1. IntentFine(y)  BY <1>1, IntentErrorsAre
  <2> HIDE DEF y, z
  <2> QED  BY <1>2, <1>3, <2>1, TunedStaysFine
<1>6. IntentErrors(z) = {} /\ UniqueIds(z)  BY <1>5, IntentErrorsAre DEF IntentFine
<1>7. WellFormed(z) /\ PaletteOK(z)
  <2> HIDE DEF z
  <2> QED  BY <1>1, <1>2, <1>4, KeptStructure
<1>8. DOMAIN y.layers = DOMAIN raw.layers /\ DOMAIN z.layers = DOMAIN raw.layers
  BY <1>2 DEF Frame
<1>9. \A i \in DOMAIN z.layers : NormalizeLane(z.layers[i], z) = z.layers[i]
  BY <1>6, <1>8, FinalLanes
<1>10. ASSUME NEW i \in DOMAIN z.layers, OverGround(z.layers[i], z)
       PROVE  WithinCap(z.layers[i])
  <2>1. \A j \in DOMAIN y.layers : Kept(y.layers[j], z.layers[j])  BY <1>3, TunedIsKept
  <2>2. ShapedLayer(y.layers[i], raw.tile)  BY <1>8, LanedFromRepaired
  <2>3. z.layers[i] = Gap(y.layers[i], y)  BY <1>2, <1>8
  <2> HIDE DEF y, z
  <2>4. OverGround(y.layers[i], y)
    <3>1. \A j \in DOMAIN y.layers : /\ z.layers[j].type = y.layers[j].type
                                     /\ z.layers[j].z = y.layers[j].z
                                     /\ z.layers[j].opaque = y.layers[j].opaque
      BY <2>1 DEF Kept
    <3> QED  BY <1>8, <1>10, <3>1 DEF OverGround, LayersOf, Layers
  <2> QED  BY <2>2, <2>3, <2>4, GapKeeps
<1> QED  BY <1>1, <1>2, <1>4, <1>6, <1>7, <1>9, <1>10 DEF Fine

(* A fine intent is changed by the ground repair alone, and there only by   *)
(* the rounding.                                                            *)
LEMMA FineIsNotRepaired ==
  ASSUME NEW x, Fine(x), NEW i \in DOMAIN x.layers
  PROVE  Laned(x).layers[i] = x.layers[i]
<1> DEFINE l == x.layers[i]
           r == Repaired(x)
<1>1. /\ Shaped(x) /\ IntentFine(x) /\ UniqueIds(x)
      /\ NormalizeLane(l, x) = l
  BY IntentErrorsAre DEF Fine, IntentFine
<1>2. /\ Shaped(r) /\ Frame(x, r) /\ r.layers[i] = RepairPeriod(l, x.tile)
      /\ Laned(x).layers[i] = NormalizeLane(r.layers[i], r)
  BY <1>1, RepairedIs, LanedIs
<1>3. ShapedLayer(l, x.tile)  BY <1>1 DEF Shaped
<1>4. r.layers[i] = l
  <2>1. l.type = "stripe" => StripeFits(l, x.tile)  BY <1>1 DEF IntentFine, LayerFine
  <2>2. RepairPeriod(l, x.tile) = l
    <3> HIDE DEF l
    <3> QED  BY <2>1 DEF RepairPeriod
  <2> QED  BY <1>2, <2>2
<1>5. DOMAIN r.layers = DOMAIN x.layers /\ \A j \in DOMAIN x.layers : Kept(x.layers[j], r.layers[j])
  BY <1>1, <1>2, RepairedKept DEF Frame
<1> HIDE DEF r
<1>6. HostsAlike(LayerById(x, l.placement.host), LayerById(r, l.placement.host))
  BY <1>1, <1>2, <1>5, KeptHosts
<1> HIDE DEF l
<1>7. ~LaneIsBare(l, x)  BY <1>1, <1>3, NormalizedMeans
<1>8. ~LaneIsBare(l, r)  BY <1>6, <1>7, SameHostsSameLane
<1>9. NormalizeLane(l, r) = l  BY <1>3, <1>8, NormalizedMeans
<1> QED  BY <1>2, <1>4, <1>9 DEF l

LEMMA FineSettles ==
  ASSUME NEW x, Fine(x)
  PROVE  /\ Validate(x) = [errors |-> {}, intent |-> Final(x)]
         /\ Settled(x, Final(x))
<1> DEFINE y == Laned(x)
           z == Final(x)
<1>1. Shaped(x) /\ WellFormed(x) /\ PaletteOK(x) /\ IntentFine(x) /\ x.dpi \in AllowedDpi
  BY IntentErrorsAre DEF Fine
<1>2. /\ Shaped(y) /\ Frame(x, y) /\ Shaped(z) /\ Frame(x, z) /\ z.dpi = ClampDpi(x.dpi)
      /\ \A i \in DOMAIN x.layers : z.layers[i] = Gap(y.layers[i], y)
  BY <1>1, LanedIs, FinalIs
<1>3. \A i \in DOMAIN x.layers : y.layers[i] = x.layers[i]  BY FineIsNotRepaired
<1> HIDE DEF y, z
<1>4. Tuned(x, y)  BY <1>2, <1>3 DEF Tuned
<1>5. IntentErrors(y) = {}  BY <1>1, <1>2, <1>4, TunedStaysFine, IntentErrorsAre
<1>6. Validate(x) = [errors |-> {}, intent |-> z]
  BY <1>1, <1>5, ValidateGoesOn DEF y, z
<1>7. [z EXCEPT !.layers = <<>>] = [x EXCEPT !.layers = <<>>]
  <2>1. z.dpi = x.dpi  BY <1>1, <1>2 DEF ClampDpi
  <2>2. DOMAIN x = {"tile", "dpi", "method", "maxColors", "slots", "colorways", "layers"}
    BY <1>1 DEF Shaped
  <2>3. DOMAIN z = DOMAIN x  BY <1>2 DEF Frame
  <2>4. \A f \in DOMAIN x \ {"layers"} : z[f] = x[f]  BY <1>2, <2>1, <2>2 DEF Frame
  <2> QED  BY <2>3, <2>4
<1>8. ASSUME NEW i \in DOMAIN x.layers
      PROVE  \/ z.layers[i] = x.layers[i]
             \/ /\ x.layers[i].type = "stripe"
                /\ z.layers[i].period = x.layers[i].period
                /\ \A b \in DOMAIN x.layers[i].bands :
                     Abs(z.layers[i].bands[b].width - x.layers[i].bands[b].width)
                       <= Len(x.layers[i].bands)
  <2> DEFINE l == x.layers[i]
  <2>1. z.layers[i] = Gap(l, y)  BY <1>2, <1>3
  <2>2. ShapedLayer(l, x.tile)  BY <1>1 DEF Shaped
  <2>3. CASE ~OverGround(l, y)  BY <2>1, <2>3 DEF Gap
  <2>4. CASE OverGround(l, y)
    <3>1. OverGround(l, x)
      <4>1. DOMAIN y.layers = DOMAIN x.layers  BY <1>2 DEF Frame
      <4>2. Layers(y) = Layers(x)  BY <1>3, <4>1 DEF Layers
      <4> QED  BY <2>4, <4>2 DEF OverGround, LayersOf
    <3>2. WithinCap(l)  BY <3>1 DEF Fine
    <3>3. l.type = "stripe"  BY <2>4 DEF OverGround
    <3>4. z.layers[i] = RepairGroundGap(l)  BY <2>1, <2>4 DEF Gap
    <3> HIDE DEF l
    <3>5. ShapedStripe(l, x.tile)  BY <2>2, <3>3 DEF ShapedLayer
    <3> DEFINE g == RepairGroundGap(l)
    <3>6. /\ g.period = l.period
          /\ \A b \in DOMAIN l.bands : Abs(g.bands[b].width - l.bands[b].width) <= Len(l.bands)
      BY <3>2, <3>3, <3>5, RepairGroundGapIs
    <3> HIDE DEF g
    <3>7. z.layers[i] = g  BY <3>4 DEF g
    <3> QED  BY <3>3, <3>6, <3>7 DEF l
  <2> QED  BY <2>3, <2>4
<1>9. Settled(x, z)  BY <1>7, <1>8 DEF Settled
<1> QED  BY <1>6, <1>9 DEF z

-----------------------------------------------------------------------------
\* The guard

(* A fine intent is seamless.                                               *)
LEMMA FineIsSeamless ==
  ASSUME NEW x, Fine(x)
  PROVE  Seamless(x)
<1>1. \A i \in DOMAIN x.layers : LayerFine(x.layers[i], x)
  BY IntentErrorsAre DEF Fine, IntentFine
<1>2. ASSUME NEW l \in LayersOf(x, "stripe") PROVE StripeFits(l, x.tile)
  BY <1>1 DEF LayersOf, Layers, LayerFine
<1>3. ASSUME NEW l \in LayersOf(x, "motif")
      PROVE  /\ l.size <= x.tile
             /\ l.placement # None => PlacementFine(l, x)
  BY <1>1 DEF LayersOf, Layers, LayerFine, Placed
<1>4. ASSUME NEW l, PlacementFine(l, x)
      PROVE  LET p == l.placement
             IN /\ p.path # None => WaveCloses(p.path, x.tile)
                /\ p.type = "lattice" => /\ Divides(x.tile, p.lattice.cw)
                                         /\ Divides(x.tile, p.lattice.ch)
                /\ p.type = "scatter" /\ p.scatter.mode = "sateen"
                     => SateenValid(p.scatter.n, p.scatter.step)
  BY <1>4 DEF PlacementFine, LatticeValid, ScatterValid
<1> QED  BY <1>2, <1>3, <1>4 DEF Seamless

-----------------------------------------------------------------------------
\* Each layout varies one layer, and of it what nothing else refers to.

LayerVaried(b, d) ==
  /\ d.type = b.type /\ d.id = b.id /\ d.z = b.z /\ d.opaque = b.opaque
  /\ b.type = "motif" =>
       /\ d.motif = b.motif /\ d.binding = b.binding
       /\ d.placement = None <=> b.placement = None
       /\ b.placement # None =>
            /\ d.placement.type = b.placement.type
            /\ d.placement.host = b.placement.host
            /\ d.placement.path = b.placement.path
            /\ d.placement.scatter = b.placement.scatter
            /\ \/ d.placement.lane = b.placement.lane
               \/ b.placement.lane \in BareLanes /\ d.placement.lane = <<0, b.placement.lane[1]>>

Varied(b, d) ==
  /\ d.tile = b.tile /\ d.colorways = b.colorways
  /\ DOMAIN d.layers = DOMAIN b.layers
  /\ \A i \in DOMAIN b.layers : LayerVaried(b.layers[i], d.layers[i])

LEMMA NotVaried ==
  ASSUME NEW l
  PROVE  LayerVaried(l, l)
BY DEF LayerVaried

LEMMA OtherBands ==
  ASSUME NEW tile, NEW l, l.type = "stripe", ShapedStripe(l, tile), NEW b \in Seq(BandSet)
  PROVE  LET v == [l EXCEPT !.bands = b]
         IN ShapedLayer(v, tile) /\ LayerVaried(l, v)
<1> DEFINE v == [l EXCEPT !.bands = b]
<1>1. /\ DOMAIN v = DOMAIN l /\ v.type = l.type /\ v.id = l.id /\ v.z = l.z
      /\ v.opaque = l.opaque /\ v.slope = l.slope /\ v.period = l.period /\ v.bands = b
  BY DEF ShapedStripe
<1> HIDE DEF v
<1>2. ShapedStripe(v, tile)  BY <1>1 DEF ShapedStripe, BandSet
<1>3. ShapedLayer(v, tile) /\ LayerVaried(l, v)  BY <1>1, <1>2 DEF ShapedLayer, LayerVaried
<1> QED  BY <1>3 DEF v

LEMMA RoundDivNat ==
  ASSUME NEW a \in Nat, NEW b \in Nat \ {0}
  PROVE  RoundDiv(a, b) \in Nat
BY RoundDivNear

LEMMA WithRatioVaries ==
  ASSUME NEW tile, NEW l, l.type = "stripe", ShapedStripe(l, tile), l.bands # <<>>,
         NEW r \in {35, 65}
  PROVE  ShapedLayer(WithRatio(l, r), tile) /\ LayerVaried(l, WithRatio(l, r))
<1> DEFINE q == RoundDiv(l.period * r, 100)
           b == [l.bands EXCEPT ![1] = [l.bands[1] EXCEPT !.width = q]]
<1>1. q \in Nat
  <2> DEFINE a == l.period * r
  <2>1. a \in Nat
    <3>1. l.period \in Nat /\ r \in Nat  BY DEF ShapedStripe
    <3> QED  BY <3>1
  <2>2. q = RoundDiv(a, 100)  OBVIOUS
  <2> HIDE DEF a, q
  <2>3. 100 \in Nat \ {0}  OBVIOUS
  <2> QED  BY <2>1, <2>2, <2>3, RoundDivNat
<1>2. l.bands \in Seq(BandSet) /\ 1 \in DOMAIN l.bands /\ l.bands[1] \in BandSet
  <2>1. l.bands \in Seq(BandSet)  BY DEF ShapedStripe, BandSet
  <2> HIDE DEF BandSet
  <2>2. 1 \in DOMAIN l.bands  BY <2>1
  <2> QED  BY <2>1, <2>2
<1> HIDE DEF q
<1> DEFINE c == [l.bands[1] EXCEPT !.width = q]
<1>3. c \in BandSet  BY <1>1, <1>2 DEF BandSet
<1> HIDE DEF c
<1>4. [l.bands EXCEPT ![1] = c] \in Seq(BandSet)
  <2> HIDE DEF BandSet
  <2> QED  BY <1>2, <1>3
<1>5. WithRatio(l, r) = [l EXCEPT !.bands = b]  BY DEF WithRatio, q
<1>6. b \in Seq(BandSet)  BY <1>4 DEF c
<1> HIDE DEF b
<1> QED  BY <1>5, <1>6, OtherBands

LEMMA RhythmIs ==
  ASSUME NEW r \in SingleRhythms \cup MultiRhythms
  PROVE  /\ Len(r.weights) \in {2, 3} /\ r.gap \in Nat \ {0}
         /\ \A k \in 1..Len(r.weights) : r.weights[k] \in Nat
<1>1. CASE r = Rhythm(<<50, 20, 20>>, 5)  BY <1>1 DEF Rhythm
<1>2. CASE r = Rhythm(<<30, 20, 10>>, 6)  BY <1>2 DEF Rhythm
<1>3. CASE r = Rhythm(<<50, 110>>, 4)  BY <1>3 DEF Rhythm
<1>4. CASE r = Rhythm(<<60, 10, 30>>, 4)  BY <1>4 DEF Rhythm
<1> QED  BY <1>1, <1>2, <1>3, <1>4 DEF SingleRhythms, MultiRhythms

LEMMA WithRhythmVaries ==
  ASSUME NEW tile, NEW l, l.type = "stripe", ShapedStripe(l, tile), l.bands # <<>>,
         NEW r \in SingleRhythms \cup MultiRhythms
  PROVE  ShapedLayer(WithRhythm(l, r), tile) /\ LayerVaried(l, WithRhythm(l, r))
<1> DEFINE w     == r.weights
           n     == Len(w)
           total == SumTo(w, n) + r.gap * (n - 1)
           m     == Len(l.bands)
           share(x) == RoundDiv(l.period * x, total)
           band(i) == [offset |-> share(SumTo(w, i - 1) + (i - 1) * r.gap),
                       width  |-> share(w[i]),
                       color  |-> l.bands[((i - 1) % m) + 1].color]
           b     == [i \in 1..n |-> band(i)]
<1>1. n \in {2, 3} /\ r.gap \in Nat \ {0} /\ \A k \in 1..n : w[k] \in Nat  BY RhythmIs
<1>2. WithRhythm(l, r) = [l EXCEPT !.bands = b]  BY DEF WithRhythm
<1> HIDE DEF w, n
<1>3. \A i \in 0..n : SumTo(w, i) \in Nat
  <2> TAKE i \in 0..n
  <2>1. i \in Nat /\ \A k \in 1..i : w[k] \in Nat  BY <1>1
  <2> QED  BY <2>1, SumAtLeast
<1>4. total \in Nat \ {0}
  <2>1. SumTo(w, n) \in Nat  BY <1>1, <1>3
  <2>2. r.gap * (n - 1) \in Nat \ {0}  BY <1>1
  <2> QED  BY <2>1, <2>2
<1>5. l.period \in Nat /\ m \in Nat \ {0}
      /\ \A j \in 1..m : l.bands[j].color \in STRING
  <2>1. l.period \in Nat  BY DEF ShapedStripe
  <2>2. l.bands \in Seq(BandSet)  BY DEF ShapedStripe, BandSet
  <2>3. m \in Nat \ {0} /\ \A j \in 1..m : l.bands[j] \in BandSet
    <3> HIDE DEF BandSet
    <3> QED  BY <2>2
  <2> HIDE DEF m
  <2> QED  BY <2>1, <2>3 DEF BandSet
<1> HIDE DEF total, m
<1>6. ASSUME NEW x \in Nat PROVE share(x) \in Nat
  <2>1. l.period * x \in Nat  BY <1>5
  <2> QED  BY <1>4, <2>1, RoundDivNat
<1> HIDE DEF share
<1>7. ASSUME NEW i \in 1..n PROVE band(i) \in BandSet
  <2>1. SumTo(w, i - 1) + (i - 1) * r.gap \in Nat
    <3>1. SumTo(w, i - 1) \in Nat  BY <1>1, <1>3
    <3>2. (i - 1) * r.gap \in Nat  BY <1>1
    <3> QED  BY <3>1, <3>2
  <2>2. share(SumTo(w, i - 1) + (i - 1) * r.gap) \in Nat /\ share(w[i]) \in Nat
    BY <1>1, <1>6, <2>1
  <2>3. ((i - 1) % m) + 1 \in 1..m  BY <1>1, <1>5
  <2>4. l.bands[((i - 1) % m) + 1].color \in STRING  BY <1>5, <2>3
  <2> QED  BY <2>2, <2>4 DEF BandSet
<1> HIDE DEF band
<1>8. b \in Seq(BandSet)
  <2>1. n \in Nat  BY <1>1
  <2>2. b \in [1..n -> BandSet]  BY <1>7
  <2> HIDE DEF b
  <2> QED  BY <2>1, <2>2, SeqFromMap
<1> HIDE DEF b
<1> QED  BY <1>2, <1>8, OtherBands

LEMMA OtherSize ==
  ASSUME NEW tile, NEW l, l.type = "motif", ShapedMotif(l), NEW s \in Nat
  PROVE  LET v == [l EXCEPT !.size = s]
         IN ShapedLayer(v, tile) /\ LayerVaried(l, v)
<1> DEFINE v == [l EXCEPT !.size = s]
<1>1. /\ DOMAIN v = DOMAIN l /\ v.type = l.type /\ v.id = l.id /\ v.z = l.z /\ v.opaque = l.opaque
      /\ v.motif = l.motif /\ v.binding = l.binding /\ v.placement = l.placement /\ v.size = s
  BY DEF ShapedMotif
<1> HIDE DEF v
<1>2. ShapedLayer(v, tile) /\ LayerVaried(l, v)
  BY <1>1 DEF ShapedLayer, ShapedMotif, LayerVaried
<1> QED  BY <1>2 DEF v

LEMMA OtherPlacement ==
  ASSUME NEW tile, NEW l, l.type = "motif", ShapedMotif(l), l.placement # None,
         NEW p, ShapedPlacement(p),
         \A f \in {"type", "host", "path", "scatter", "lane"} : p[f] = l.placement[f]
  PROVE  LET v == [l EXCEPT !.placement = p]
         IN ShapedLayer(v, tile) /\ LayerVaried(l, v)
<1> DEFINE v == [l EXCEPT !.placement = p]
<1>1. /\ DOMAIN v = DOMAIN l /\ v.type = l.type /\ v.id = l.id /\ v.z = l.z /\ v.opaque = l.opaque
      /\ v.motif = l.motif /\ v.binding = l.binding /\ v.placement = p /\ v.size = l.size
  BY DEF ShapedMotif
<1>2. p # None
  <2>1. "type" \in DOMAIN p  BY DEF ShapedPlacement
  <2> QED  BY <2>1 DEF None
<1> HIDE DEF v
<1>3. ShapedLayer(v, tile) /\ LayerVaried(l, v)
  BY <1>1, <1>2 DEF ShapedLayer, ShapedMotif, LayerVaried
<1> QED  BY <1>3 DEF v

LEMMA SizeVaries ==
  ASSUME NEW tile \in Nat \ {0}, NEW l, l.type = "motif", ShapedMotif(l),
         NEW v \in SizeVariants(l, tile)
  PROVE  ShapedLayer(v, tile) /\ LayerVaried(l, v)
<1> DEFINE less == RoundDiv(75 * l.size, 100)
           more == Smaller(tile, RoundDiv(135 * l.size, 100))
<1>1. less \in Nat /\ more \in Nat
  <2>1. 75 * l.size \in Nat /\ 135 * l.size \in Nat /\ 100 \in Nat \ {0}  BY DEF ShapedMotif
  <2> DEFINE a == 75 * l.size
             c == 135 * l.size
  <2> HIDE DEF a, c
  <2>2. a \in Nat /\ c \in Nat  BY <2>1 DEF a, c
  <2>3. RoundDiv(a, 100) \in Nat /\ RoundDiv(c, 100) \in Nat  BY <2>1, <2>2, RoundDivNat
  <2> QED  BY <2>3 DEF Smaller, a, c
<1> HIDE DEF less, more
<1>2. \E s \in {less, more} : v = [l EXCEPT !.size = s]  BY DEF SizeVariants, less, more
<1>3. PICK s \in Nat : v = [l EXCEPT !.size = s]  BY <1>1, <1>2
<1> QED  BY <1>3, OtherSize

LEMMA SpacingVaries ==
  ASSUME NEW tile, NEW l, l.type = "motif", ShapedMotif(l), l.placement # None,
         l.placement.spacing # NoLength, NEW v \in SpacingVariants(l)
  PROVE  ShapedLayer(v, tile) /\ LayerVaried(l, v)
<1>1. ShapedPlacement(l.placement) /\ l.placement.spacing \in Nat
  BY DEF ShapedMotif, ShapedPlacement
<1>2. PICK f \in {3, 6} :
        v = [l EXCEPT !.placement.spacing = RoundDiv(l.placement.spacing * f, 4)]
  BY DEF SpacingVariants
<1> DEFINE a == l.placement.spacing * f
           s == RoundDiv(a, 4)
           p == [l.placement EXCEPT !.spacing = s]
<1>3. s \in Nat
  <2>1. a \in Nat  BY <1>1
  <2>2. 4 \in Nat \ {0}  OBVIOUS
  <2> HIDE DEF a
  <2> QED  BY <2>1, <2>2, RoundDivNat
<1> HIDE DEF s
<1>4. ShapedPlacement(p)  BY <1>1, <1>3 DEF ShapedPlacement
<1>5. \A f2 \in {"type", "host", "path", "scatter", "lane"} : p[f2] = l.placement[f2]
  BY <1>1 DEF ShapedPlacement
<1>6. v = [l EXCEPT !.placement = p]  BY <1>2 DEF s
<1> HIDE DEF p
<1> QED  BY <1>4, <1>5, <1>6, OtherPlacement

LEMMA DropVaries ==
  ASSUME NEW tile, NEW l, l.type = "motif", ShapedMotif(l), l.placement # None,
         l.placement.lattice # None, NEW v \in DropVariants(l)
  PROVE  ShapedLayer(v, tile) /\ LayerVaried(l, v)
<1>1. ShapedPlacement(l.placement)  BY DEF ShapedMotif
<1>2. PICK d : v = [l EXCEPT !.placement.lattice.drop = d]  BY DEF DropVariants
<1> DEFINE q == [l.placement.lattice EXCEPT !.drop = d]
           p == [l.placement EXCEPT !.lattice = q]
<1>3. v = [l EXCEPT !.placement = p]  BY <1>2
<1>4. DOMAIN q = {"cw", "ch", "drop", "axis"} /\ q.cw \in Nat /\ q.ch \in Nat
  BY <1>1 DEF ShapedPlacement
<1> HIDE DEF q
<1>5. ShapedPlacement(p)  BY <1>1, <1>4 DEF ShapedPlacement
<1>6. \A f \in {"type", "host", "path", "scatter", "lane"} : p[f] = l.placement[f]
  BY <1>1 DEF ShapedPlacement
<1> HIDE DEF p
<1> QED  BY <1>3, <1>5, <1>6, OtherPlacement

LEMMA CellVaries ==
  ASSUME NEW tile \in Nat \ {0}, NEW l, l.type = "motif", ShapedMotif(l), l.placement # None,
         l.placement.lattice # None, l.placement.lattice.cw > 0, l.placement.lattice.ch > 0,
         NEW v \in CellVariants(l, tile)
  PROVE  ShapedLayer(v, tile) /\ LayerVaried(l, v)
<1>1. /\ ShapedPlacement(l.placement)
      /\ l.placement.lattice.cw \in Nat \ {0} /\ l.placement.lattice.ch \in Nat \ {0}
  BY DEF ShapedMotif, ShapedPlacement
<1> DEFINE spec == l.placement.lattice
           nx == Larger(1, RoundDiv(tile, spec.cw))
           ny == Larger(1, RoundDiv(tile, spec.ch))
           more == <<nx + 1, ny + 1>>
           less == <<Larger(1, nx - 1), Larger(1, ny - 1)>>
<1>2. \E c \in {more, less} :
        v = [l EXCEPT !.placement.lattice.cw = RoundDiv(tile, c[1]),
                      !.placement.lattice.ch = RoundDiv(tile, c[2])]
  BY DEF CellVariants
<1>3. nx \in Nat \ {0} /\ ny \in Nat \ {0}
  <2>1. RoundDiv(tile, spec.cw) \in Nat /\ RoundDiv(tile, spec.ch) \in Nat
    <3> HIDE DEF spec
    <3>1. spec.cw \in Nat \ {0} /\ spec.ch \in Nat \ {0}  BY <1>1 DEF spec
    <3> QED  BY <3>1, RoundDivNat
  <2> QED  BY <2>1 DEF Larger
<1> HIDE DEF nx, ny
<1>4. PICK i \in Nat \ {0}, j \in Nat \ {0} :
        v = [l EXCEPT !.placement.lattice.cw = RoundDiv(tile, i),
                      !.placement.lattice.ch = RoundDiv(tile, j)]
  <2>1. \A c \in {more, less} : c[1] \in Nat \ {0} /\ c[2] \in Nat \ {0}
    BY <1>3 DEF Larger
  <2> HIDE DEF more, less
  <2> QED  BY <1>2, <2>1
<1> DEFINE a == RoundDiv(tile, i)
           b == RoundDiv(tile, j)
           q == [spec EXCEPT !.cw = a, !.ch = b]
           p == [l.placement EXCEPT !.lattice = q]
<1>5. a \in Nat /\ b \in Nat  BY RoundDivNat
<1>6. v = [l EXCEPT !.placement = p]
  <2> HIDE DEF a, b
  <2>1. v = [l EXCEPT !.placement.lattice.cw = a, !.placement.lattice.ch = b]
    BY <1>4 DEF a, b
  <2>2. "placement" \in DOMAIN l /\ "lattice" \in DOMAIN l.placement
        /\ {"cw", "ch"} \subseteq DOMAIN spec
    BY <1>1 DEF ShapedMotif, ShapedPlacement
  <2> QED  BY <2>1, <2>2
<1> HIDE DEF a, b
<1>7. DOMAIN q = {"cw", "ch", "drop", "axis"} /\ q.cw \in Nat /\ q.ch \in Nat
  BY <1>1, <1>5 DEF ShapedPlacement
<1> HIDE DEF q
<1>8. ShapedPlacement(p)  BY <1>1, <1>7 DEF ShapedPlacement
<1>9. \A f \in {"type", "host", "path", "scatter", "lane"} : p[f] = l.placement[f]
  BY <1>1 DEF ShapedPlacement
<1> HIDE DEF p
<1> QED  BY <1>6, <1>8, <1>9, OtherPlacement

LEMMA LayerVaries ==
  ASSUME NEW x, Fine(x), NEW i \in DOMAIN x.layers,
         NEW v \in LayerVariants(x.layers[i], x.tile)
  PROVE  ShapedLayer(v, x.tile) /\ LayerVaried(x.layers[i], v)
<1> DEFINE l == x.layers[i]
           tile == x.tile
<1>1. /\ ShapedLayer(l, tile) /\ tile \in Nat \ {0} /\ LayerFine(l, x) /\ WellFormed(x)
      /\ l \in Layers(x)
  BY IntentErrorsAre DEF Fine, Shaped, IntentFine, Layers
<1>2. l.type = "stripe" => l.bands # <<>>  BY <1>1 DEF WellFormed, LayersOf
<1>3. Placed(l) => /\ PlacementFine(l, x)
                   /\ l.placement.lattice # None <=> l.placement.type = "lattice"
  BY <1>1 DEF LayerFine, WellFormed
<1> HIDE DEF l
<1>4. CASE l.type = "stripe"
  <2>1. v \in StripeVariants(l)  BY <1>4 DEF LayerVariants, l
  <2>2. ShapedStripe(l, tile)  BY <1>1, <1>4 DEF ShapedLayer
  <2>3. \/ \E r \in {35, 65} : v = WithRatio(l, r)
        \/ \E r \in SingleRhythms \cup MultiRhythms : v = WithRhythm(l, r)
    BY <2>1 DEF StripeVariants, OtherRatios
  <2> HIDE DEF tile
  <2>4. ShapedLayer(v, tile) /\ LayerVaried(l, v)
    BY <1>2, <1>4, <2>2, <2>3, WithRatioVaries, WithRhythmVaries
  <2> QED  BY <2>4 DEF l, tile
<1>5. CASE l.type # "stripe"
  <2>1. /\ Placed(l)
        /\ \/ l.placement.type = "path_following"
              /\ v \in SpacingVariants(l) \cup SizeVariants(l, tile)
           \/ l.placement.type = "lattice"
              /\ v \in DropVariants(l) \cup CellVariants(l, tile) \cup SizeVariants(l, tile)
    BY <1>5 DEF LayerVariants, l
  <2>2. l.type = "motif" /\ l.placement # None /\ ShapedMotif(l)
    BY <1>1, <2>1 DEF Placed, ShapedLayer
  <2>3. l.placement.type = "path_following" => l.placement.spacing # NoLength
    BY <1>3, <2>1 DEF PlacementFine
  <2>4. l.placement.type = "lattice" =>
          l.placement.lattice # None /\ l.placement.lattice.cw > 0 /\ l.placement.lattice.ch > 0
    BY <1>3, <2>1 DEF PlacementFine, LatticeValid, Divides
  <2> HIDE DEF tile
  <2>5. ShapedLayer(v, tile) /\ LayerVaried(l, v)
    BY <1>1, <2>1, <2>2, <2>3, <2>4, SizeVaries, SpacingVaries, DropVaries, CellVaries
       DEF tile
  <2> QED  BY <2>5 DEF l, tile
<1> QED  BY <1>4, <1>5

(* Every layout of a fine intent is one that validation can be given.       *)
LEMMA LayoutVaries ==
  ASSUME NEW x, Fine(x), NEW y \in LayoutVariants(x)
  PROVE  Shaped(y) /\ Varied(x, y)
<1>1. Shaped(x)  BY DEF Fine
<1>2. CASE y = x
  <2>1. \A i \in DOMAIN x.layers : LayerVaried(x.layers[i], x.layers[i])  BY NotVaried
  <2> QED  BY <1>1, <1>2, <2>1 DEF Varied
<1>3. ASSUME NEW i \in DOMAIN x.layers, NEW l \in LayerVariants(x.layers[i], x.tile),
             y = [x EXCEPT !.layers[i] = l]
      PROVE  Shaped(y) /\ Varied(x, y)
  <2> DEFINE f == [x.layers EXCEPT ![i] = l]
  <2>1. ShapedLayer(l, x.tile) /\ LayerVaried(x.layers[i], l)  BY LayerVaries
  <2>2. ASSUME NEW j \in DOMAIN x.layers
        PROVE  ShapedLayer(f[j], x.tile) /\ LayerVaried(x.layers[j], f[j])
    <3>1. CASE j = i  BY <2>1, <3>1
    <3>2. CASE j # i
      <4>1. f[j] = x.layers[j]  BY <3>2
      <4>2. ShapedLayer(x.layers[j], x.tile)  BY <1>1 DEF Shaped
      <4> QED  BY <4>1, <4>2, NotVaried
    <3> QED  BY <3>1, <3>2
  <2>3. DOMAIN f = DOMAIN x.layers /\ y = [x EXCEPT !.layers = f]  BY <1>3
  <2> HIDE DEF f
  <2>4. Shaped(y) /\ Frame(x, y) /\ y.layers = f  BY <1>1, <2>2, <2>3, OtherLayers
  <2> QED  BY <2>2, <2>4 DEF Varied, Frame
<1>4. \/ y = x
      \/ \E i \in DOMAIN x.layers : \E l \in LayerVariants(x.layers[i], x.tile) :
           y = [x EXCEPT !.layers[i] = l]
  BY DEF LayoutVariants
<1> QED  BY <1>2, <1>3, <1>4

(* Validation normalizes a lane, and the layout is still one of its base.   *)
LEMMA VariedKept ==
  ASSUME NEW b, NEW x, Shaped(x), NEW y, Varied(b, x), Frame(x, y),
         \A i \in DOMAIN x.layers : Kept(x.layers[i], y.layers[i])
  PROVE  Varied(b, y)
<1>1. ASSUME NEW i \in DOMAIN b.layers
      PROVE  LayerVaried(b.layers[i], y.layers[i])
  <2> DEFINE l == b.layers[i]
             m == x.layers[i]
             k == y.layers[i]
  <2>1. LayerVaried(l, m) /\ Kept(m, k) /\ ShapedLayer(m, x.tile)
    BY DEF Varied, Frame, Shaped
  <2> HIDE DEF l, m, k
  <2>2. CASE m.type # "motif"
    BY <2>1, <2>2 DEF LayerVaried, Kept, l, k
  <2>3. CASE m.type = "motif"
    <3>1. CASE k.placement = m.placement
      <4>1. LayerVaried(l, k)  BY <2>1, <2>3, <3>1 DEF LayerVaried, Kept
      <4> QED  BY <4>1 DEF l, k
    <3>2. CASE k.placement # m.placement
      <4>1. /\ Placed(m) /\ Placed(k) /\ m.placement.lane \in BareLanes
            /\ k.placement.lane = <<0, m.placement.lane[1]>>
            /\ \A f \in DOMAIN m.placement \ {"lane"} : k.placement[f] = m.placement[f]
        BY <2>1, <2>3, <3>2 DEF Kept
      <4>2. ShapedPlacement(m.placement)
        BY <2>1, <2>3, <4>1 DEF ShapedLayer, ShapedMotif, Placed
      <4>3. \A f \in {"type", "host", "path", "scatter"} : k.placement[f] = m.placement[f]
        BY <4>1, <4>2 DEF ShapedPlacement
      <4>4. l.type = "motif" /\ m.placement # None /\ l.placement # None
        BY <2>1, <2>3, <4>1 DEF LayerVaried, Placed
      <4>5. m.placement.lane = l.placement.lane
        <5>1. l.placement.lane \in BareLanes => <<0, l.placement.lane[1]>> \notin BareLanes
          BY NotBare
        <5> QED  BY <2>1, <4>1, <4>4, <5>1 DEF LayerVaried
      <4>6. LayerVaried(l, k)
        BY <2>1, <2>3, <4>1, <4>3, <4>4, <4>5 DEF LayerVaried, Kept, Placed
      <4> QED  BY <4>6 DEF l, k
    <3> QED  BY <3>1, <3>2
  <2> QED  BY <2>2, <2>3
<1> QED  BY <1>1 DEF Varied, Frame

-----------------------------------------------------------------------------
\* What stops a design

(* Only the guard speaks of an assertion, and only a stripe that does not   *)
(* fit of a stripe.                                                         *)
LEMMA PlacementErrorsNamed ==
  ASSUME NEW l, NEW x
  PROVE  "assertion" \notin PlacementErrors(l, x) /\ "stripe" \notin PlacementErrors(l, x)
BY DEF PlacementErrors

LEMMA LayerErrorsNamed ==
  ASSUME NEW l, NEW x
  PROVE  /\ "assertion" \notin LayerErrors(l, x)
         /\ "stripe" \in LayerErrors(l, x) => l.type = "stripe" /\ ~StripeFits(l, x.tile)
BY PlacementErrorsNamed DEF LayerErrors

LEMMA IntentErrorsNamed ==
  ASSUME NEW x
  PROVE  /\ "assertion" \notin IntentErrors(x)
         /\ "stripe" \in IntentErrors(x) =>
              \E l \in Layers(x) : l.type = "stripe" /\ ~StripeFits(l, x.tile)
<1> DEFINE E == UNION {LayerErrors(l, x) : l \in Layers(x)}
<1>1. \A e \in {"assertion", "stripe"} : e \in IntentErrors(x) => e \in E
  BY DEF IntentErrors
<1> QED  BY <1>1, LayerErrorsNamed

LEMMA ComposeFailuresNamed ==
  ASSUME NEW x, NEW colorway
  PROVE  /\ "assertion" \notin ComposeFailures(x, colorway)
         /\ "stripe" \notin ComposeFailures(x, colorway)
<1>1. ASSUME NEW l
      PROVE  "assertion" \notin LayerFailures(l, x) /\ "stripe" \notin LayerFailures(l, x)
  BY DEF LayerFailures
<1>2. ASSUME NEW l
      PROVE  /\ "assertion" \notin ColorFailures(l, x, colorway)
             /\ "stripe" \notin ColorFailures(l, x, colorway)
  BY DEF ColorFailures
<1> QED  BY <1>1, <1>2 DEF ComposeFailures

(* The repair moves a stripe until it fits, unless its period is short.     *)
LEMMA RefusedStripeIsShort ==
  ASSUME NEW raw, Shaped(raw), "stripe" \in Validate(raw).errors
  PROVE  LET x == Validate(raw).intent
         IN \E s \in LayersOf(x, "stripe") : ~StripeFits(s, x.tile) /\ 2 * s.period <= Tol
<1> DEFINE y == Laned(raw)
<1>1. Validate(raw).errors = IntentErrors(y) /\ Validate(raw).intent = y
  BY ValidateIs
<1>2. PICK i \in DOMAIN y.layers :
        y.layers[i].type = "stripe" /\ ~StripeFits(y.layers[i], y.tile)
  BY <1>1, IntentErrorsNamed DEF Layers
<1>3. DOMAIN y.layers = DOMAIN raw.layers /\ y.tile = raw.tile  BY LanedIs DEF Frame
<1> DEFINE l == raw.layers[i]
<1>4. ShapedLayer(l, raw.tile) /\ raw.tile \in Nat \ {0}  BY <1>3 DEF Shaped
<1>5. l.type = "stripe" /\ y.layers[i] = RepairPeriod(l, raw.tile)
  BY <1>2, <1>3, LanedKept DEF Kept
<1> HIDE DEF l, y
<1>6. ShapedStripe(l, raw.tile)  BY <1>4, <1>5 DEF ShapedLayer
<1>7. ~(2 * RepairPeriod(l, raw.tile).period > Tol)
  BY <1>2, <1>3, <1>4, <1>5, <1>6, RepairPeriodTiles
<1>8. RepairPeriod(l, raw.tile).period \in Nat /\ Tol \in Nat
  BY <1>4, <1>5, <1>6, RepairPeriodShaped, UnitAssumption DEF ShapedStripe
<1>9. 2 * y.layers[i].period <= Tol  BY <1>5, <1>7, <1>8
<1> QED  BY <1>1, <1>2, <1>9 DEF LayersOf, Layers

-----------------------------------------------------------------------------
\* The ground under a stripe

LEMMA SameRest ==
  ASSUME NEW P \in Nat \ {0}, NEW t \in 0..P - 1, NEW u \in 0..P - 1, NEW o \in Int,
         (t - o) % P = (u - o) % P
  PROVE  t = u
<1> DEFINE a == (t - o) \div P
           b == (u - o) \div P
           r == (t - o) % P
<1>1. a \in Int /\ b \in Int /\ r \in Int  OBVIOUS
<1>2. t - o = P * a + r /\ u - o = P * b + r  OBVIOUS
<1> HIDE DEF a, b, r
<1>3. t - u = P * (a - b)  BY <1>1, <1>2
<1>4. CASE a = b
  <2>1. t - o = u - o  BY <1>2, <1>4
  <2> QED  BY <2>1
<1>5. CASE a > b
  <2>1. P * (a - b - 1) >= 0  BY <1>1, <1>5
  <2>2. P * (a - b - 1) = P * (a - b) - P  BY <1>1
  <2> QED  BY <1>1, <1>3, <2>1, <2>2
<1>6. CASE a < b
  <2>1. P * (b - a - 1) >= 0  BY <1>1, <1>6
  <2>2. P * (b - a - 1) = -(P * (a - b)) - P  BY <1>1
  <2> QED  BY <1>1, <1>3, <2>1, <2>2
<1> QED  BY <1>1, <1>4, <1>5, <1>6

(* The places of the period that a band covers.                             *)
Under(P, offset, width) == {t \in 0..P - 1 : (t - offset) % P < width}

LEMMA UnderIsNoWider ==
  ASSUME NEW P \in Nat \ {0}, NEW offset \in Int, NEW width \in Nat
  PROVE  /\ IsFiniteSet(Under(P, offset, width))
         /\ Cardinality(Under(P, offset, width)) <= width
<1> DEFINE S == Under(P, offset, width)
           T == 0..width - 1
           f == [t \in S |-> (t - offset) % P]
<1>1. \A t \in S : t \in 0..P - 1 /\ f[t] \in T
  <2> TAKE t \in S
  <2>1. t \in 0..P - 1 /\ (t - offset) % P < width  BY DEF Under
  <2>2. (t - offset) % P \in 0..P - 1  BY <2>1
  <2> QED  BY <2>1, <2>2
<1>2. \A t, u \in S : f[t] = f[u] => t = u  BY <1>1, SameRest
<1>3. f \in [S -> T]  BY <1>1
<1>4. IsFiniteSet(T) /\ Cardinality(T) = width
  <2>1. 0 \in Int /\ width - 1 \in Int  OBVIOUS
  <2> HIDE DEF S, f
  <2> QED  BY <2>1, FS_Interval
<1> HIDE DEF S, T, f
<1>5. f \in Injection(S, T)  BY <1>2, <1>3 DEF Injection, IsInjective
<1> QED  BY <1>4, <1>5, FS_Injection DEF S

(* Bands that are together shorter than the period leave some of it bare.   *)
LEMMA SomePlaceIsBare ==
  ASSUME NEW tile, NEW l, l.type = "stripe", ShapedStripe(l, tile),
         SumTo(Widths(l.bands), Len(l.bands)) < l.period
  PROVE  Bare(l)
<1> DEFINE P == l.period
           n == Len(l.bands)
           w == Widths(l.bands)
           cover(i) == Under(P, l.bands[i].offset, w[i])
           first == [k \in 0..n |-> UNION {cover(i) : i \in 1..k}]
<1>1. P \in Nat \ {0} /\ l.bands \in Seq(BandSet)  BY DEF ShapedStripe, BandSet
<1>2. /\ n \in Nat /\ DOMAIN l.bands = 1..n
      /\ \A k \in 1..n : /\ l.bands[k] \in BandSet /\ w[k] = l.bands[k].width /\ w[k] \in Nat
  BY <1>1, WidthsAre
<1>3. PICK g \in [0..n -> Int] : /\ g[0] = 0
                                 /\ \A k \in 1..n : g[k] = g[k - 1] + w[k]
                                 /\ SumTo(w, n) = g[n]
  <2> HIDE DEF n, w
  <2>1. \A k \in 1..n : w[k] \in Int  BY <1>2
  <2> QED  BY <1>2, <2>1, SumIs
<1> HIDE DEF P, n, w
<1>4. \A i \in 1..n : IsFiniteSet(cover(i)) /\ Cardinality(cover(i)) <= w[i]
  <2> TAKE i \in 1..n
  <2>1. l.bands[i].offset \in Int /\ w[i] \in Nat  BY <1>2 DEF BandSet
  <2> QED  BY <1>1, <2>1, UnderIsNoWider
<1> HIDE DEF cover
<1> DEFINE good == {k \in 0..n : IsFiniteSet(first[k]) /\ Cardinality(first[k]) <= g[k]}
<1>5. 0 \in good
  <2>1. first[0] = {}
    <3>1. 1..0 = {}  OBVIOUS
    <3> QED  BY <1>2, <3>1
  <2>2. IsFiniteSet({}) /\ Cardinality({}) = 0  BY FS_EmptySet
  <2>3. 0 \in 0..n /\ IsFiniteSet(first[0]) /\ Cardinality(first[0]) <= g[0]
    <3> HIDE DEF first
    <3> QED  BY <1>2, <1>3, <2>1, <2>2
  <2> QED  BY <2>3
<1>6. ASSUME NEW k \in 0..n - 1, k \in good PROVE k + 1 \in good
  <2>1. first[k + 1] = first[k] \cup cover(k + 1)
    <3>1. 1..k + 1 = (1..k) \cup {k + 1}  BY <1>2
    <3>2. k \in 0..n /\ k + 1 \in 0..n  BY <1>2
    <3> QED  BY <3>1, <3>2
  <2>2. k + 1 \in 1..n /\ g[k + 1] = g[k] + w[k + 1]
    <3>1. k + 1 \in 1..n /\ (k + 1) - 1 = k  BY <1>2
    <3> QED  BY <1>3, <3>1
  <2> DEFINE A == first[k]
             B == cover(k + 1)
  <2>3. IsFiniteSet(A) /\ Cardinality(A) <= g[k]
        /\ IsFiniteSet(B) /\ Cardinality(B) <= w[k + 1]
    BY <1>4, <1>6, <2>2
  <2>4. g[k] \in Int /\ w[k + 1] \in Int  BY <1>2, <1>3, <2>2
  <2> HIDE DEF A, B
  <2>5. /\ IsFiniteSet(A \cup B)
        /\ Cardinality(A \cup B) = Cardinality(A) + Cardinality(B) - Cardinality(A \cap B)
    BY <2>3, FS_Union
  <2>6. Cardinality(A) \in Nat /\ Cardinality(B) \in Nat /\ Cardinality(A \cap B) \in Nat
    <3>1. A \cap B \in SUBSET A  OBVIOUS
    <3>2. IsFiniteSet(A \cap B)  BY <2>3, <3>1, FS_Subset
    <3> QED  BY <2>3, <3>2, FS_CardinalityType
  <2>7. Cardinality(A \cup B) <= g[k + 1]  BY <2>2, <2>3, <2>4, <2>5, <2>6
  <2>8. first[k + 1] = A \cup B  BY <2>1 DEF A, B
  <2>9. k + 1 \in 0..n /\ IsFiniteSet(first[k + 1]) /\ Cardinality(first[k + 1]) <= g[k + 1]
    <3> HIDE DEF first
    <3> QED  BY <1>2, <2>5, <2>7, <2>8
  <2> QED  BY <2>9
<1>7. n \in good
  <2> HIDE DEF good
  <2>1. \A k \in 0..n : k \in good  BY <1>2, <1>5, <1>6, UpTo
  <2> QED  BY <1>2, <2>1
<1>8. IsFiniteSet(first[n]) /\ Cardinality(first[n]) < P
  <2>1. Cardinality(first[n]) \in Nat /\ Cardinality(first[n]) <= g[n]
        /\ IsFiniteSet(first[n])
    <3> HIDE DEF first
    <3> QED  BY <1>7, FS_CardinalityType
  <2>2. g[n] < P /\ g[n] \in Int  BY <1>2, <1>3 DEF P, n, w
  <2> HIDE DEF first
  <2> QED  BY <1>1, <2>1, <2>2
<1>9. PICK t \in 0..P - 1 : t \notin first[n]
  <2> SUFFICES ASSUME \A t \in 0..P - 1 : t \in first[n] PROVE FALSE  OBVIOUS
  <2>1. Cardinality(0..P - 1) = P
    <3>1. 0 \in Int /\ P - 1 \in Int /\ ~(0 > P - 1) /\ (P - 1) - 0 + 1 = P  BY <1>1
    <3> HIDE DEF first
    <3> QED  BY <3>1, FS_Interval
  <2>2. 0..P - 1 \in SUBSET first[n]  OBVIOUS
  <2> HIDE DEF first
  <2>3. Cardinality(0..P - 1) <= Cardinality(first[n])  BY <1>8, <2>2, FS_Subset
  <2>4. Cardinality(first[n]) \in Nat  BY <1>8, FS_CardinalityType
  <2> QED  BY <1>1, <1>8, <2>1, <2>3, <2>4
<1>10. ASSUME NEW i \in 1..n
       PROVE  (t - l.bands[i].offset) % P >= l.bands[i].width
  <2>1. t \notin cover(i)  BY <1>2, <1>9
  <2>2. ~((t - l.bands[i].offset) % P < w[i])  BY <2>1 DEF cover, Under
  <2>3. w[i] = l.bands[i].width /\ w[i] \in Nat /\ l.bands[i].offset \in Int
    BY <1>2 DEF BandSet
  <2>4. (t - l.bands[i].offset) % P \in Int  BY <1>1, <2>3
  <2> QED  BY <2>2, <2>3, <2>4
<1> QED  BY <1>2, <1>9, <1>10 DEF Bare, P

LEMMA WithinCapIsBare ==
  ASSUME NEW tile, NEW l, l.type = "stripe", ShapedStripe(l, tile), WithinCap(l)
  PROVE  Bare(l) \/ GapRoundedAway(l)
<1> SUFFICES ASSUME ~GapRoundedAway(l) PROVE Bare(l)  OBVIOUS
<1> DEFINE T == SumTo(Widths(l.bands), Len(l.bands))
           P == l.period
           n == Len(l.bands)
           c1 == MaxCover[1]
           c2 == MaxCover[2]
<1>1. P \in Nat \ {0} /\ l.bands \in Seq(BandSet)  BY DEF ShapedStripe, BandSet
<1>2. n \in Nat /\ T \in Nat  BY <1>1, WidthsAre
<1>3. c1 \in Nat \ {0} /\ c2 \in Nat \ {0}  BY CoverAssumption
<1>4. 2 * (c2 * T) <= 2 * (c1 * P) + c2 * n
  <2>1. WithinCap(l) = (2 * (c2 * T) <= 2 * (c1 * P) + c2 * n)  BY <1>1, <1>2, <1>3 DEF WithinCap
  <2> QED  BY <2>1
<1>5. ~(2 * ((c2 - c1) * P) <= c2 * n)
  <2>1. 2 * (c2 - c1) * P = 2 * ((c2 - c1) * P)  BY <1>1, <1>3
  <2> QED  BY <2>1 DEF GapRoundedAway
<1>6. T < P
  <2> HIDE DEF T, P, n, c1, c2
  <2>1. (c2 - c1) * P = c2 * P - c1 * P  BY <1>1, <1>3
  <2>2. c2 * T < c2 * P  BY <1>1, <1>2, <1>3, <1>4, <1>5, <2>1
  <2>3. T * c2 < P * c2  BY <1>1, <1>2, <1>3, <2>2
  <2> QED  BY <1>1, <1>2, <1>3, <2>3, Cancel
<1> QED  BY <1>6, SomePlaceIsBare

-----------------------------------------------------------------------------
\* What cannot be drawn of a layout, when its base can be drawn

\* A motif follows a lane of the base that the layout no longer has.
LaneIsGone(x) ==
  \E l \in LayersOf(x, "motif") : \E s \in LayersOf(x, "stripe") :
    /\ l.placement.host = s.id
    /\ Len(l.placement.lane) = 2 /\ l.placement.lane[1] >= Len(s.bands)

LEMMA HostsVaried ==
  ASSUME NEW b, NEW d, Varied(b, d), NEW id
  PROVE  (\E h \in Hosts(b) : h.id = id) <=> (\E h \in Hosts(d) : h.id = id)
BY DEF Varied, LayerVaried, Hosts, LayersOf, Layers

(* The lane that the base has and the layout has not.                       *)
LEMMA LaneFollowed ==
  ASSUME NEW b, Fine(b), NEW d, Fine(d), Varied(b, d), NEW i \in DOMAIN b.layers,
         Placed(b.layers[i]), b.layers[i].placement.type = "path_following",
         NEW h \in Hosts(b), h.id = b.layers[i].placement.host, h.type = "stripe",
         b.layers[i].placement.lane \in Lanes(h)
  PROVE  \/ \E k \in Hosts(d) : /\ k.id = d.layers[i].placement.host /\ k.type = "stripe"
                                /\ d.layers[i].placement.lane \in Lanes(k)
         \/ LaneIsGone(d)
<1> DEFINE l == b.layers[i]
           m == d.layers[i]
           lane == m.placement.lane
           edges == {"start", "center", "end"}
<1>1. /\ Shaped(b) /\ Shaped(d) /\ WellFormed(d) /\ UniqueIds(d)
      /\ NormalizeLane(m, d) = m
  BY IntentErrorsAre DEF Fine, IntentFine, Varied
<1>2. i \in DOMAIN d.layers /\ LayerVaried(l, m)  BY DEF Varied
<1>3. /\ m.type = "motif" /\ m.placement # None /\ Placed(m)
      /\ m.placement.type = "path_following" /\ m.placement.host = h.id
      /\ \/ lane = l.placement.lane
         \/ l.placement.lane \in BareLanes /\ lane = <<0, l.placement.lane[1]>>
  BY <1>2 DEF LayerVaried, Placed
<1>4. PICK j \in DOMAIN b.layers : h = b.layers[j]  BY DEF Hosts, LayersOf, Layers
<1> DEFINE k == d.layers[j]
<1>5. j \in DOMAIN d.layers /\ LayerVaried(h, k)  BY <1>4 DEF Varied
<1>6. k.id = h.id /\ k.type = "stripe" /\ k \in LayersOf(d, "stripe") /\ k \in Hosts(d)
  BY <1>5 DEF LayerVaried, Hosts, LayersOf, Layers
<1>7. m \in LayersOf(d, "motif")  BY <1>2, <1>3 DEF LayersOf, Layers
<1>8. Len(k.bands) \in Nat \ {0}
  <2>1. ShapedLayer(k, d.tile)  BY <1>1, <1>5 DEF Shaped
  <2>2. k.bands \in Seq([offset : Int, width : Nat, color : STRING])
    BY <1>6, <2>1 DEF ShapedLayer, ShapedStripe
  <2>3. k.bands # <<>>  BY <1>1, <1>6 DEF WellFormed
  <2> DEFINE B == [offset : Int, width : Nat, color : STRING]
  <2> HIDE DEF B, k
  <2>4. k.bands \in Seq(B)  BY <2>2 DEF B
  <2> QED  BY <2>3, <2>4
<1>9. LayerById(d, h.id) = k /\ k # None
  <2>1. LayerById(d, h.id) = k  BY <1>1, <1>5, <1>6, FoundById
  <2>2. ShapedLayer(k, d.tile)  BY <1>1, <1>5 DEF Shaped
  <2> QED  BY <2>1, <2>2, LayerIsNotNone
<1>10. ~LaneIsBare(m, d)
  <2>1. ShapedLayer(m, d.tile)  BY <1>1, <1>2 DEF Shaped
  <2> QED  BY <1>1, <2>1, NormalizedMeans
<1>11. lane \in BareLanes => Len(k.bands) = 1
  <2> HIDE DEF k, m
  <2>1. lane \in BareLanes => ~(Len(k.bands) > 1)
    BY <1>3, <1>6, <1>9, <1>10 DEF LaneIsBare
  <2>2. ~(Len(k.bands) > 1) => Len(k.bands) = 1
    <3> DEFINE n == Len(k.bands)
    <3>1. n \in Nat \ {0}  BY <1>8
    <3> HIDE DEF n
    <3>2. ~(n > 1) => n = 1  BY <3>1
    <3> QED  BY <3>2 DEF n
  <2> QED  BY <2>1, <2>2
<1> HIDE DEF k, l, m
<1>12. Lanes(k) = ((0..Len(k.bands) - 1) \X edges)
                    \cup (IF Len(k.bands) = 1 THEN BareLanes ELSE {})
  BY DEF Lanes
<1>13. CASE lane \in BareLanes  BY <1>3, <1>6, <1>11, <1>12, <1>13 DEF m
<1>14. CASE lane \notin BareLanes
  <2>1. CASE l.placement.lane \in BareLanes
    <3>1. lane = <<0, l.placement.lane[1]>>  BY <1>3, <1>14, <2>1
    <3>2. l.placement.lane[1] \in edges  BY <2>1 DEF BareLanes
    <3>3. 0 \in 0..Len(k.bands) - 1  BY <1>8
    <3>4. lane \in Lanes(k)  BY <1>12, <3>1, <3>2, <3>3
    <3> QED  BY <1>3, <1>6, <3>4 DEF m
  <2>2. CASE l.placement.lane \notin BareLanes
    <3>1. lane = l.placement.lane  BY <1>3, <2>2
    <3>2. lane \in (0..Len(h.bands) - 1) \X edges
      BY <2>2, <3>1 DEF Lanes, l
    <3>3. PICK n \in 0..Len(h.bands) - 1, e \in edges : lane = <<n, e>>  BY <3>2
    <3>4. n \in Nat /\ Len(lane) = 2 /\ lane[1] = n
      <4>1. n \in Nat
        <5> HIDE DEF lane
        <5> QED  OBVIOUS
      <4> HIDE DEF lane
      <4> QED  BY <3>3, <4>1
    <3>5. CASE n < Len(k.bands)
      <4>1. n \in 0..Len(k.bands) - 1  BY <1>8, <3>4, <3>5
      <4>2. lane \in Lanes(k)  BY <1>12, <3>3, <4>1
      <4> QED  BY <1>3, <1>6, <4>2 DEF m
    <3>6. CASE ~(n < Len(k.bands))
      <4>1. n >= Len(k.bands)  BY <1>8, <3>4, <3>6
      <4>2. LaneIsGone(d)  BY <1>3, <1>6, <1>7, <3>4, <4>1 DEF LaneIsGone
      <4> QED  BY <4>2
    <3> QED  BY <3>5, <3>6
  <2> QED  BY <2>1, <2>2
<1> QED  BY <1>13, <1>14

LEMMA LayerStillDraws ==
  ASSUME NEW b, Fine(b), NEW d, Fine(d), Varied(b, d), NEW i \in DOMAIN b.layers,
         b.layers[i].type = "motif", LayerFailures(b.layers[i], b) = {}
  PROVE  \/ LayerFailures(d.layers[i], d) = {}
         \/ LayerFailures(d.layers[i], d) = {"unknown lane"} /\ LaneIsGone(d)
<1> DEFINE l == b.layers[i]
           m == d.layers[i]
           p == l.placement
           q == m.placement
           hosts == {h \in Hosts(d) : h.id = q.host}
<1>1. p # None /\ l.motif \in Motifs
      /\ (p.host # NoId => \E h \in Hosts(b) : h.id = p.host)
  BY DEF LayerFailures
<1>2. LayerVaried(l, m) /\ i \in DOMAIN d.layers  BY DEF Varied
<1>3. /\ m.type = "motif" /\ m.motif = l.motif /\ q # None /\ q.type = p.type
      /\ q.host = p.host /\ q.path = p.path /\ q.scatter = p.scatter
  BY <1>1, <1>2 DEF LayerVaried
<1>4. PlacementFine(m, d)
  <2>1. LayerFine(m, d)  BY <1>2, IntentErrorsAre DEF Fine, IntentFine
  <2> QED  BY <1>3, <2>1 DEF LayerFine, Placed
<1>5. q # None /\ ~(q.host # NoId /\ hosts = {}) /\ m.motif \in Motifs
  BY <1>1, <1>3, HostsVaried
<1>6. CASE q.type = "path_following" /\ q.path # None /\ q.host = NoId
  <2>1. ~(q.path.kind = "wave" /\ NoLength \in {q.path.wavelength, q.path.amplitude})
    <3>1. p.spacing # NoLength
      <4>1. LayerFine(l, b)  BY IntentErrorsAre DEF Fine, IntentFine
      <4> QED  BY <1>1, <1>3, <1>6, <4>1 DEF LayerFine, Placed, PlacementFine
    <3>2. LayerFailures(l, b) =
            IF p.path.kind = "wave" /\ NoLength \in {p.path.wavelength, p.path.amplitude}
            THEN {"half a wave"} ELSE {}
      BY <1>1, <1>3, <1>6, <3>1 DEF LayerFailures
    <3> QED  BY <1>3, <3>2
  <2>2. q.spacing # NoLength  BY <1>4, <1>6 DEF PlacementFine
  <2> QED  BY <1>5, <1>6, <2>1, <2>2 DEF LayerFailures
<1>7. CASE q.type = "path_following" /\ ~(q.path # None /\ q.host = NoId)
  <2>1. q.spacing # NoLength  BY <1>4, <1>7 DEF PlacementFine
  <2>2. LayerFailures(m, d) = IF \E h \in hosts : h.type = "stripe" /\ q.lane \in Lanes(h)
                              THEN {} ELSE {"unknown lane"}
    BY <1>5, <1>7, <2>1 DEF LayerFailures
  <2>3. \E h \in Hosts(b) : /\ h.id = p.host /\ h.type = "stripe"
                            /\ p.lane \in Lanes(h)
    <3>1. p.spacing # NoLength
      <4>1. LayerFine(l, b)  BY IntentErrorsAre DEF Fine, IntentFine
      <4> QED  BY <1>1, <1>3, <1>7, <4>1 DEF LayerFine, Placed, PlacementFine
    <3>2. LayerFailures(l, b) =
            IF \E h \in {g \in Hosts(b) : g.id = p.host} : h.type = "stripe" /\ p.lane \in Lanes(h)
            THEN {} ELSE {"unknown lane"}
      BY <1>1, <1>3, <1>7, <3>1 DEF LayerFailures
    <3> QED  BY <3>2
  <2>4. Placed(l) /\ p.type = "path_following"  BY <1>1, <1>3, <1>7 DEF Placed
  <2>5. \/ \E k \in Hosts(d) : k.id = q.host /\ k.type = "stripe" /\ q.lane \in Lanes(k)
        \/ LaneIsGone(d)
    BY <2>3, <2>4, LaneFollowed
  <2> QED  BY <2>2, <2>5
<1>8. CASE q.type = "lattice"
  <2>1. LatticeValid(q.lattice, d.tile)  BY <1>4, <1>8 DEF PlacementFine
  <2>2. ~(LatticeCount(q.lattice, d.tile) > MaxInstances)
    <3>1. LatticeCount(q.lattice, d.tile) <= MaxInstances  BY <2>1 DEF LatticeValid
    <3>2. LatticeCount(q.lattice, d.tile) \in Int
      <4>1. Shaped(d) /\ WellFormed(d) /\ m \in Layers(d)  BY <1>2 DEF Fine, Layers
      <4>2. q.lattice # None  BY <1>3, <1>8, <4>1 DEF WellFormed, Placed
      <4>3. ShapedPlacement(q)
        <5>1. ShapedLayer(m, d.tile)  BY <1>2, <4>1 DEF Shaped
        <5> QED  BY <1>3, <5>1 DEF ShapedLayer, ShapedMotif
      <4>4. /\ q.lattice.cw \in Nat \ {0} /\ q.lattice.ch \in Nat \ {0} /\ d.tile \in Nat
        BY <2>1, <4>1, <4>2, <4>3 DEF ShapedPlacement, LatticeValid, Divides, Shaped
      <4>5. RoundDiv(d.tile, q.lattice.cw) \in Nat /\ RoundDiv(d.tile, q.lattice.ch) \in Nat
        BY <4>4, RoundDivNat
      <4> QED  BY <4>5 DEF LatticeCount
    <3> QED  BY <3>1, <3>2, CapsAssumption
  <2> QED  BY <1>5, <1>8, <2>2 DEF LayerFailures
<1>9. CASE q.type = "scatter"
  <2>1. LayerFailures(m, d) = LayerFailures(l, b)
    BY <1>1, <1>3, <1>5, <1>9 DEF LayerFailures
  <2> QED  BY <2>1
<1>10. CASE q.type \notin {"path_following", "lattice", "scatter"}
  BY <1>5, <1>10 DEF LayerFailures
<1> QED  BY <1>6, <1>7, <1>8, <1>9, <1>10

LEMMA ColorsStillResolve ==
  ASSUME NEW d, Fine(d), NEW i \in DOMAIN d.colorways, NEW l \in Layers(d)
  PROVE  ColorFailures(l, d, d.colorways[i]) = {}
<1>1. LayerFine(l, d)  BY IntentErrorsAre DEF Fine, IntentFine, Layers
<1>2. DOMAIN d.colorways[i].mapping = SlotIds(d)  BY DEF Fine, PaletteOK
<1> QED  BY <1>1, <1>2 DEF LayerFine, ColorFailures

LEMMA LayoutStillDraws ==
  ASSUME NEW b, Fine(b), NEW d, Fine(d), Varied(b, d), NEW i \in DOMAIN d.colorways,
         ComposeFailures(b, b.colorways[i]) = {}, ComposeFailures(d, d.colorways[i]) # {}
  PROVE  ComposeFailures(d, d.colorways[i]) = {"unknown lane"} /\ LaneIsGone(d)
<1> DEFINE c == d.colorways[i]
<1>1. ASSUME NEW e \in ComposeFailures(d, c)
      PROVE  e = "unknown lane" /\ LaneIsGone(d)
  <2>1. \A l \in Layers(d) : ColorFailures(l, d, c) = {}  BY ColorsStillResolve
  <2>2. PICK l \in LayersOf(d, "motif") : e \in LayerFailures(l, d)
    BY <1>1, <2>1 DEF ComposeFailures
  <2>3. PICK j \in DOMAIN d.layers : l = d.layers[j]  BY DEF LayersOf, Layers
  <2>4. j \in DOMAIN b.layers /\ LayerVaried(b.layers[j], l)  BY <2>3 DEF Varied
  <2>5. b.layers[j].type = "motif"  BY <2>4 DEF LayerVaried, LayersOf
  <2>6. LayerFailures(b.layers[j], b) = {}
    <3>1. b.layers[j] \in LayersOf(b, "motif")  BY <2>4, <2>5 DEF LayersOf, Layers
    <3> QED  BY <3>1 DEF ComposeFailures
  <2>7. \/ LayerFailures(d.layers[j], d) = {}
        \/ LayerFailures(d.layers[j], d) = {"unknown lane"} /\ LaneIsGone(d)
    BY <2>4, <2>5, <2>6, LayerStillDraws
  <2> QED  BY <2>2, <2>3, <2>7
<1> QED  BY <1>1

-----------------------------------------------------------------------------
\* The invariant: what is known of a design at each stage.

StageInv ==
  /\ stage \in {"idle", "raw", "base", "variant", "layout", "drawn",
                "rejected", "dropped", "failed"}
  /\ stage \notin {"rejected", "dropped", "failed"} => errors = {}
ShapeInv == stage # "idle" => Shaped(design)
BaseInv ==
  /\ stage \notin {"idle", "raw", "rejected"} => Fine(base)
  /\ stage = "base" => design = base
VariedInv ==
  /\ stage = "variant" => Varied(base, design)
  /\ stage \in {"layout", "drawn", "failed"} => Fine(design) /\ Varied(base, design)
FailedInv ==
  stage = "failed" => \E i \in DOMAIN design.colorways :
                        /\ errors = ComposeFailures(design, design.colorways[i])
                        /\ errors # {}
LayoutsInv ==
  /\ StageInv /\ ShapeInv /\ BaseInv /\ VariedInv /\ FailedInv
  /\ GuardNeverFires /\ RepairedStripesTile

(* What one validation does, with the guard behind it.                      *)
LEMMA CheckDoes ==
  ASSUME Shaped(design), NEW accepted, NEW refused, Check(accepted, refused)
  PROVE  /\ Shaped(design')
         /\ errors' = {} => /\ Fine(design') /\ Frame(design, design')
                            /\ \A i \in DOMAIN design.layers :
                                 Kept(design.layers[i], design'.layers[i])
         /\ "assertion" \notin errors'
         /\ "stripe" \in errors' =>
              \E s \in LayersOf(design', "stripe") :
                ~StripeFits(s, design'.tile) /\ 2 * s.period <= Tol
         /\ stage' = IF errors' = {} THEN accepted ELSE refused
<1> DEFINE result == Validate(design)
<1>1. /\ design' = result.intent
      /\ errors' = IF result.errors # {} THEN result.errors
                   ELSE IF Seamless(result.intent) THEN {} ELSE {"assertion"}
      /\ stage' = IF errors' = {} THEN accepted ELSE refused
  BY DEF Check
<1>2. Shaped(result.intent)  BY ValidateShaped
<1>3. CASE result.errors # {}
  <2>1. errors' = result.errors  BY <1>1, <1>3
  <2>2. "assertion" \notin result.errors
    BY ValidateIs, IntentErrorsNamed
  <2>3. "stripe" \in result.errors =>
          \E s \in LayersOf(result.intent, "stripe") :
            ~StripeFits(s, result.intent.tile) /\ 2 * s.period <= Tol
    BY RefusedStripeIsShort
  <2> HIDE DEF result
  <2> QED  BY <1>1, <1>2, <1>3, <2>1, <2>2, <2>3
<1>4. CASE result.errors = {}
  <2>1. /\ Fine(result.intent) /\ Frame(design, result.intent)
        /\ \A i \in DOMAIN design.layers : Kept(design.layers[i], result.intent.layers[i])
    BY <1>4, AcceptedIsFine
  <2>2. Seamless(result.intent)  BY <2>1, FineIsSeamless
  <2> HIDE DEF result
  <2> QED  BY <1>1, <1>2, <1>4, <2>1, <2>2
<1> QED  BY <1>3, <1>4

LEMMA LayoutsInit == Init => LayoutsInv
BY DEF Init, LayoutsInv, StageInv, ShapeInv, BaseInv, VariedInv, FailedInv, GuardNeverFires,
       RepairedStripesTile

LEMMA LayoutsStep == LayoutsInv /\ [Next]_designVars => LayoutsInv'
<1> SUFFICES ASSUME LayoutsInv, [Next]_designVars PROVE LayoutsInv'
  OBVIOUS
<1> USE DEF StageInv, ShapeInv, BaseInv, VariedInv, FailedInv, GuardNeverFires,
            RepairedStripesTile
<1>1. CASE Submit
  <2>1. /\ stage = "idle" /\ stage' = "raw" /\ errors' = errors
        /\ \E raw \in RawIntents : design' = raw
    BY <1>1 DEF Submit
  <2>2. Shaped(design')  BY <2>1, RawIntentsAssumption
  <2>3. errors' = {}  BY <2>1 DEF LayoutsInv
  <2> QED  BY <2>1, <2>2, <2>3 DEF LayoutsInv
<1>2. CASE ValidateBase
  <2>1. /\ stage = "raw" /\ Check("base", "rejected")
        /\ base' = IF stage' = "base" THEN design' ELSE base
    BY <1>2 DEF ValidateBase
  <2>2. Shaped(design)  BY <2>1 DEF LayoutsInv
  <2>3. /\ Shaped(design')
        /\ errors' = {} => Fine(design')
        /\ "assertion" \notin errors'
        /\ "stripe" \in errors' =>
             \E s \in LayersOf(design', "stripe") :
               ~StripeFits(s, design'.tile) /\ 2 * s.period <= Tol
        /\ stage' = IF errors' = {} THEN "base" ELSE "rejected"
    BY <2>1, <2>2, CheckDoes
  <2>4. CASE errors' = {}
    <3>1. stage' = "base" /\ base' = design' /\ Fine(base')  BY <2>1, <2>3, <2>4
    <3> QED  BY <2>3, <2>4, <3>1 DEF LayoutsInv
  <2>5. CASE errors' # {}
    <3>1. stage' = "rejected"  BY <2>3, <2>5
    <3> QED  BY <2>3, <2>5, <3>1 DEF LayoutsInv
  <2> QED  BY <2>4, <2>5
<1>3. CASE Vary
  <2>1. /\ stage = "base" /\ stage' = "variant" /\ base' = base /\ errors' = errors
        /\ \E variant \in LayoutVariants(base) : design' = variant
    BY <1>3 DEF Vary
  <2>2. Fine(base) /\ errors = {}  BY <2>1 DEF LayoutsInv
  <2>3. Shaped(design') /\ Varied(base, design')  BY <2>1, <2>2, LayoutVaries
  <2> QED  BY <2>1, <2>2, <2>3 DEF LayoutsInv
<1>4. CASE ValidateVariant
  <2>1. stage = "variant" /\ Check("layout", "dropped") /\ base' = base
    BY <1>4 DEF ValidateVariant
  <2>2. Shaped(design) /\ Fine(base) /\ Varied(base, design)  BY <2>1 DEF LayoutsInv
  <2>3. /\ Shaped(design')
        /\ errors' = {} => /\ Fine(design') /\ Frame(design, design')
                           /\ \A i \in DOMAIN design.layers :
                                Kept(design.layers[i], design'.layers[i])
        /\ "assertion" \notin errors'
        /\ "stripe" \in errors' =>
             \E s \in LayersOf(design', "stripe") :
               ~StripeFits(s, design'.tile) /\ 2 * s.period <= Tol
        /\ stage' = IF errors' = {} THEN "layout" ELSE "dropped"
    BY <2>1, <2>2, CheckDoes
  <2>4. CASE errors' = {}
    <3>1. Varied(base, design')  BY <2>2, <2>3, <2>4, VariedKept
    <3>2. stage' = "layout" /\ Fine(design')  BY <2>3, <2>4
    <3> QED  BY <2>1, <2>2, <2>3, <2>4, <3>1, <3>2 DEF LayoutsInv
  <2>5. CASE errors' # {}
    <3>1. stage' = "dropped"  BY <2>3, <2>5
    <3> QED  BY <2>1, <2>2, <2>3, <2>5, <3>1 DEF LayoutsInv
  <2> QED  BY <2>4, <2>5
<1>5. CASE Draw
  <2>1. /\ stage = "layout" /\ design' = design /\ base' = base
        /\ stage' = IF errors' = {} THEN "drawn" ELSE "failed"
    BY <1>5 DEF Draw
  <2>2. PICK i \in DOMAIN design.colorways :
          errors' = ComposeFailures(design, design.colorways[i])
    BY <1>5 DEF Draw
  <2>3. "assertion" \notin errors' /\ "stripe" \notin errors'
    BY <2>2, ComposeFailuresNamed
  <2>4. Shaped(design) /\ Fine(base) /\ Fine(design) /\ Varied(base, design)
    BY <2>1 DEF LayoutsInv
  <2>5. CASE errors' = {}
    <3>1. stage' = "drawn"  BY <2>1, <2>5
    <3> QED  BY <2>1, <2>4, <2>5, <3>1 DEF LayoutsInv
  <2>6. CASE errors' # {}
    <3>1. stage' = "failed"  BY <2>1, <2>6
    <3> QED  BY <2>1, <2>2, <2>3, <2>4, <2>6, <3>1 DEF LayoutsInv
  <2> QED  BY <2>5, <2>6
<1>6. CASE UNCHANGED designVars
  BY <1>6 DEF LayoutsInv, designVars
<1> QED  BY <1>1, <1>2, <1>3, <1>4, <1>5, <1>6 DEF Next

THEOREM LayoutsInvariant == Spec => []LayoutsInv
<1> QED  BY LayoutsInit, LayoutsStep, PTL DEF Spec

(* assert_seamless_invariants, "by construction", never fires: for every    *)
(* tile size and tolerance, every request and every layout varied from it.  *)
THEOREM LayoutsGuardNeverFires == Spec => []GuardNeverFires
<1>1. LayoutsInv => GuardNeverFires  BY DEF LayoutsInv
<1> QED  BY <1>1, LayoutsInvariant, PTL

(* A stripe is refused only when its repaired period is so short that       *)
(* rounding it alone exceeds the tolerance.                                 *)
THEOREM LayoutsRepairedStripesTile == Spec => []RepairedStripesTile
<1>1. LayoutsInv => RepairedStripesTile  BY DEF LayoutsInv
<1> QED  BY <1>1, LayoutsInvariant, PTL

(* The ground stays in sight under every opaque stripe of what is accepted, *)
(* unless the gap is no wider than the rounding of the bands.               *)
THEOREM LayoutsGroundVisible == Spec => []GroundVisibleByZ
<1>1. LayoutsInv => GroundVisibleByZ
  <2> SUFFICES ASSUME LayoutsInv, Accepted,
                      NEW s \in LayersOf(design, "stripe"),
                      NEW g \in LayersOf(design, "background"),
                      s.opaque, g.opaque, s.z > g.z
               PROVE  Bare(s) \/ GapRoundedAway(s)
    BY DEF GroundVisibleByZ
  <2>1. Fine(design)
    BY DEF Accepted, LayoutsInv, BaseInv, VariedInv
  <2>2. PICK i \in DOMAIN design.layers : s = design.layers[i]  BY DEF LayersOf, Layers
  <2>3. s.type = "stripe"  BY DEF LayersOf
  <2>4. OverGround(s, design)  BY <2>3 DEF OverGround
  <2>5. WithinCap(s)  BY <2>1, <2>2, <2>4 DEF Fine
  <2>6. ShapedLayer(s, design.tile)  BY <2>1, <2>2 DEF Fine, Shaped
  <2>7. ShapedStripe(s, design.tile)  BY <2>3, <2>6 DEF ShapedLayer
  <2> QED  BY <2>3, <2>5, <2>7, WithinCapIsBare
<1> QED  BY <1>1, LayoutsInvariant, PTL

(* If the base can be drawn, a layout fails for a lane it no longer has.    *)
THEOREM LayoutsVariantsDraw == Spec => []VariantsDraw
<1>1. LayoutsInv => VariantsDraw
  <2> SUFFICES ASSUME LayoutsInv, stage = "failed",
                      \A i \in DOMAIN base.colorways :
                        ComposeFailures(base, base.colorways[i]) = {}
               PROVE  errors = {"unknown lane"} /\ LaneIsGone(design)
    BY DEF VariantsDraw, LaneIsGone
  <2>1. Fine(base) /\ Fine(design) /\ Varied(base, design)
    BY DEF LayoutsInv, BaseInv, VariedInv
  <2>2. PICK i \in DOMAIN design.colorways :
          errors = ComposeFailures(design, design.colorways[i]) /\ errors # {}
    BY DEF LayoutsInv, FailedInv
  <2>3. ComposeFailures(base, base.colorways[i]) = {}  BY <2>1, <2>2 DEF Varied
  <2> QED  BY <2>1, <2>2, <2>3, LayoutStillDraws
<1> QED  BY <1>1, LayoutsInvariant, PTL

(* The base is always one of the layouts: validated again, it is accepted   *)
(* and its bands move by no more than the rounding of one repair.           *)
THEOREM LayoutsBaseSurvives == Spec => BaseSurvives
<1>1. LayoutsInv /\ [Next]_designVars
        => [stage = "variant" /\ design = base
              => stage' = "layout" /\ Settled(base, design')]_designVars
  <2> SUFFICES ASSUME LayoutsInv, Next, stage = "variant", design = base
               PROVE  stage' = "layout" /\ Settled(base, design')
    OBVIOUS
  <2>1. Check("layout", "dropped")
    BY DEF Next, Submit, ValidateBase, Vary, ValidateVariant, Draw
  <2>2. Fine(design)  BY DEF LayoutsInv, BaseInv
  <2>3. Validate(design) = [errors |-> {}, intent |-> Final(design)]
        /\ Settled(design, Final(design))
    BY <2>2, FineSettles
  <2>4. Seamless(Final(design))
    <3>1. Shaped(design) /\ Validate(design).errors = {}  BY <2>2, <2>3 DEF Fine
    <3>2. Fine(Final(design))  BY <3>1, AcceptedIsFine
    <3> QED  BY <3>2, FineIsSeamless
  <2>5. design' = Final(design) /\ errors' = {} /\ stage' = "layout"
    BY <2>1, <2>3, <2>4 DEF Check
  <2> QED  BY <2>3, <2>5
<1> QED  BY <1>1, LayoutsInvariant, PTL DEF Spec, BaseSurvives
=============================================================================
