----------------------------- MODULE TorusProofs -----------------------------
(***************************************************************************)
(* The clones of an instance, the walk along a lane, stripes, lattices,    *)
(* scatters and snapped directions, and the cloth, for every tile, motif,  *)
(* spacing, direction and design.                                          *)
(***************************************************************************)
EXTENDS TorusCalls, FiniteSetTheorems, NaturalsInduction, WellFoundedInduction, TLAPS

-----------------------------------------------------------------------------
\* Numbers

(* A set of naturals has a least member.                                    *)
LEMMA LeastNatural ==
  ASSUME NEW S, S \subseteq Nat, S # {}
  PROVE  \E x \in S : \A y \in S : x <= y
<1> DEFINE R == OpToRel(<, Nat)
<1>1. \A x, y \in Nat : <<x, y>> \in R <=> x < y  BY DEF OpToRel
<1>2. IsWellFoundedOn(R, Nat)  BY NatLessThanWellFounded
<1> HIDE DEF R
<1>3. PICK x \in S : \A y \in S : <<y, x>> \notin R  BY <1>2, WFMin
<1>4. ASSUME NEW y \in S PROVE x <= y
  <2>1. x \in Nat /\ y \in Nat /\ ~(y < x)  BY <1>1, <1>3
  <2> QED  BY <2>1
<1> QED  BY <1>4

LEMMA Distribute ==
  ASSUME NEW a \in Int, NEW x \in Int, NEW y \in Int
  PROVE  a * x \in Int /\ a * y \in Int /\ a * (x + y) = a * x + a * y
OBVIOUS

LEMMA Associate ==
  ASSUME NEW a \in Int, NEW b \in Int, NEW c \in Int
  PROVE  a * b * c = a * (b * c)
OBVIOUS

(* Induction: a set with 0 that is closed under the successor up to n.      *)
LEMMA UpTo ==
  ASSUME NEW n \in Nat, NEW P, 0 \in P, \A k \in 0..n - 1 : k \in P => k + 1 \in P
  PROVE  \A k \in 0..n : k \in P
<1> DEFINE bad == {k \in 0..n : k \notin P}
<1> SUFFICES ASSUME bad # {} PROVE FALSE  OBVIOUS
<1>1. bad \subseteq Nat  OBVIOUS
<1>2. \A k \in bad : k \in 0..n /\ k \notin P  OBVIOUS
<1>3. \A k \in 0..n : k \notin P => k \in bad  OBVIOUS
<1> HIDE DEF bad
<1>4. PICK m \in bad : \A j \in bad : m <= j  BY <1>1, LeastNatural
<1>5. m \in 1..n /\ m - 1 \in 0..n - 1 /\ m - 1 \in P  BY <1>1, <1>2, <1>3, <1>4
<1>6. (m - 1) + 1 = m  BY <1>5
<1> QED  BY <1>2, <1>4, <1>5, <1>6

(* round is within a half, and a half goes to the even one.                 *)
LEMMA RoundDivNear ==
  ASSUME NEW a \in Nat, NEW b \in Nat \ {0}
  PROVE  /\ RoundDiv(a, b) \in Nat
         /\ 2 * (RoundDiv(a, b) * b) <= 2 * a + b
         /\ 2 * a <= 2 * (RoundDiv(a, b) * b) + b
         /\ RoundDiv(a, b) >= 1 <=> 2 * a > b
<1> DEFINE d == a \div b
           r == a % b
           m == RoundDiv(a, b)
<1>1. d \in Nat /\ r \in 0..b - 1 /\ a = d * b + r  OBVIOUS
<1>2. m = IF 2 * r > b \/ (2 * r = b /\ d % 2 = 1) THEN d + 1 ELSE d  BY DEF RoundDiv
<1> HIDE DEF d, r, m
<1> DEFINE e == d * b
<1>3. e \in Nat /\ (d + 1) * b = e + b /\ (d = 0 => e = 0) /\ (d >= 1 => e >= b)
  <2>1. d >= 1 => (d - 1) * b >= 0  BY <1>1
  <2> QED  BY <1>1, <2>1
<1>4. d = 0 => d % 2 = 0  OBVIOUS
<1> HIDE DEF e
<1>5. CASE m = d
  <2>1. m * b = e  BY <1>5 DEF e
  <2>2. 2 * r <= b  BY <1>1, <1>2, <1>5
  <2>3. a = e + r  BY <1>1 DEF e
  <2> QED  BY <1>1, <1>3, <1>5, <2>1, <2>2, <2>3 DEF m
<1>6. CASE m = d + 1
  <2>1. m * b = e + b  BY <1>3, <1>6
  <2>2. 2 * r > b \/ (2 * r = b /\ d >= 1)  BY <1>1, <1>2, <1>4, <1>6
  <2>3. a = e + r  BY <1>1 DEF e
  <2> QED  BY <1>1, <1>3, <1>6, <2>1, <2>2, <2>3 DEF m
<1> QED  BY <1>2, <1>5, <1>6

(* No multiple of b is nearer to a than the one round finds.                *)
LEMMA RoundDivNearest ==
  ASSUME NEW a \in Nat, NEW b \in Nat \ {0}, NEW k \in Int
  PROVE  Abs(RoundDiv(a, b) * b - a) <= Abs(k * b - a)
<1> DEFINE m == RoundDiv(a, b)
<1>1. m \in Nat /\ 2 * (m * b) <= 2 * a + b /\ 2 * a <= 2 * (m * b) + b  BY RoundDivNear
<1> HIDE DEF m
<1> DEFINE p == m * b
           q == k * b
<1>2. p \in Int /\ q \in Int  BY <1>1
<1>3. k = m \/ q >= p + b \/ q <= p - b
  <2>1. k >= m + 1 => (k - m - 1) * b >= 0  BY <1>1
  <2>2. k <= m - 1 => (m - 1 - k) * b >= 0  BY <1>1
  <2> QED  BY <1>1, <2>1, <2>2
<1>4. k = m => q = p  OBVIOUS
<1>5. 2 * p <= 2 * a + b /\ 2 * a <= 2 * p + b  BY <1>1
<1> HIDE DEF p, q
<1>6. Abs(p - a) <= Abs(q - a)  BY <1>2, <1>3, <1>4, <1>5 DEF Abs
<1> QED  BY <1>6 DEF p, q, m

LEMMA TimesPositive ==
  ASSUME NEW a \in Nat \ {0}, NEW b \in Nat \ {0}
  PROVE  a * b \in Nat \ {0}
<1>1. (a - 1) * b >= 0  OBVIOUS
<1> QED  BY <1>1

LEMMA Cancel ==
  ASSUME NEW t \in Nat \ {0}, NEW x \in Int, NEW y \in Int
  PROVE  /\ x * t <= y * t => x <= y
         /\ x * t < y * t => x < y
         /\ x * t = y * t => x = y
<1>1. x > y => (x - y - 1) * t >= 0  OBVIOUS
<1>2. x >= y => (x - y) * t >= 0  OBVIOUS
<1>3. y > x => (y - x - 1) * t >= 0  OBVIOUS
<1> QED  BY <1>1, <1>2, <1>3

LEMMA DivMod ==
  ASSUME NEW n \in Nat \ {0}, NEW x \in Int
  PROVE  x \div n \in Int /\ x % n \in 0..n - 1 /\ x = (x \div n) * n + (x % n)
<1> DEFINE q == x \div n
           r == x % n
<1>1. q \in Int /\ r \in 0..n - 1 /\ x = n * q + r  OBVIOUS
<1> HIDE DEF q, r
<1>2. n * q \in Int /\ n * q = q * n  BY <1>1
<1>3. x = q * n + r  BY <1>1, <1>2
<1> QED  BY <1>1, <1>3 DEF q, r

(* A multiple of n between -n and n is zero.                                *)
LEMMA SmallMultiple ==
  ASSUME NEW n \in Nat \ {0}, NEW k \in Int, -n < k * n, k * n < n
  PROVE  k = 0
<1>1. k >= 1 => (k - 1) * n >= 0  OBVIOUS
<1>2. k <= -1 => (-1 - k) * n >= 0  OBVIOUS
<1> QED  BY <1>1, <1>2

(* Quotient and rest are the only ones.                                     *)
LEMMA RestUnique ==
  ASSUME NEW n \in Nat \ {0}, NEW q \in Int, NEW r \in 0..n - 1
  PROVE  (q * n + r) % n = r /\ (q * n + r) \div n = q
<1> DEFINE x == q * n + r
           b == x \div n
           s == x % n
<1>1. q * n \in Int /\ x \in Int  OBVIOUS
<1>2. b \in Int /\ s \in 0..n - 1 /\ x = b * n + s
  <2> HIDE DEF x
  <2> QED  BY <1>1, DivMod
<1> HIDE DEF b, s
<1>3. b * n \in Int /\ (b - q) * n = b * n - q * n  BY <1>2
<1>4. b - q = 0
  <2>1. b * n - q * n = r - s  BY <1>1, <1>2, <1>3
  <2>2. -n < (b - q) * n /\ (b - q) * n < n  BY <1>1, <1>2, <1>3, <2>1
  <2> QED  BY <1>2, <2>2, SmallMultiple
<1>5. b = q  BY <1>2, <1>4
<1>6. s = r  BY <1>1, <1>2, <1>5
<1> QED  BY <1>5, <1>6 DEF b, s, x

LEMMA RestOf ==
  ASSUME NEW n \in Nat \ {0}, NEW q \in Int, NEW r \in 0..n - 1, NEW x, x = q * n + r
  PROVE  x % n = r /\ x \div n = q
BY RestUnique

(* Adding a multiple of n does not change the rest.                         *)
LEMMA RestShift ==
  ASSUME NEW n \in Nat \ {0}, NEW x \in Int, NEW k \in Int
  PROVE  (x + k * n) % n = x % n
<1> DEFINE q == x \div n
           r == x % n
<1>1. q \in Int /\ r \in 0..n - 1 /\ x = q * n + r  BY DivMod
<1> HIDE DEF q, r
<1>2. (q + k) * n = q * n + k * n  BY <1>1
<1>3. q + k \in Int /\ x + k * n = (q + k) * n + r  BY <1>1, <1>2
<1>4. (x + k * n) % n = r  BY <1>1, <1>3, RestOf
<1> QED  BY <1>4 DEF r

(* The same rest: a multiple of n apart.                                    *)
LEMMA SameRestApart ==
  ASSUME NEW n \in Nat \ {0}, NEW x \in Int, NEW y \in Int, x % n = y % n
  PROVE  \E k \in Int : x - y = k * n
<1> DEFINE q == x \div n
           p == y \div n
           r == x % n
<1>1. q \in Int /\ r \in 0..n - 1 /\ x = q * n + r  BY DivMod
<1>2. p \in Int /\ y = p * n + r  BY DivMod
<1> HIDE DEF q, p, r
<1>3. x - y = (q - p) * n /\ q - p \in Int  BY <1>1, <1>2
<1> QED  BY <1>3

LEMMA NoRest ==
  ASSUME NEW n \in Nat \ {0}, NEW x \in Int
  PROVE  /\ x % n = 0 => x = (x \div n) * n
         /\ \A k \in Int : x = k * n => x % n = 0 /\ x \div n = k
<1>1. x % n = 0 => x = (x \div n) * n
  <2>1. x \div n \in Int /\ x = (x \div n) * n + (x % n)  BY DivMod
  <2> QED  BY <2>1
<1>2. ASSUME NEW k \in Int, x = k * n PROVE x % n = 0 /\ x \div n = k
  <2>1. x = k * n + 0 /\ 0 \in 0..n - 1  BY <1>2
  <2> QED  BY <2>1, RestOf
<1> QED  BY <1>1, <1>2

LEMMA MultipleOf ==
  ASSUME NEW n \in Nat \ {0}, NEW k \in Int
  PROVE  (k * n) % n = 0
<1>1. k * n \in Int  OBVIOUS
<1> QED  BY <1>1, NoRest

(* Numbers below n are their own rests.                                     *)
LEMMA OwnRest ==
  ASSUME NEW n \in Nat \ {0}, NEW r \in 0..n - 1
  PROVE  r % n = r
<1>1. r = 0 * n + r  OBVIOUS
<1> QED  BY <1>1, RestOf

LEMMA RestAdd ==
  ASSUME NEW n \in Nat \ {0}, NEW x \in Int, NEW y \in Int
  PROVE  ((x % n) + y) % n = (x + y) % n
<1> DEFINE q == x \div n
           r == x % n
<1>1. q \in Int /\ r \in 0..n - 1 /\ x = q * n + r  BY DivMod
<1> HIDE DEF q, r
<1>2. x + y = (r + y) + q * n /\ r + y \in Int
  <2> DEFINE p == q * n
  <2>1. p \in Int /\ r \in Int /\ x = p + r  BY <1>1
  <2> HIDE DEF p
  <2>2. x + y = (r + y) + p /\ r + y \in Int  BY <2>1
  <2> QED  BY <2>2 DEF p
<1>3. (x + y) % n = (r + y) % n
  <2> DEFINE u == x + y
             v == r + y
  <2>1. u \in Int /\ v \in Int /\ u = v + q * n  BY <1>2
  <2> HIDE DEF u, v
  <2>2. u % n = v % n  BY <1>1, <2>1, RestShift
  <2> QED  BY <2>2 DEF u, v
<1> QED  BY <1>3 DEF r

(* Numbers without a common divisor combine to 1.                           *)
LEMMA Bezout ==
  ASSUME NEW p \in Nat, NEW q \in Nat \ {0}, Coprime(p, q)
  PROVE  \E a, b \in Int : a * p + b * q = 1
<1> DEFINE S == {x \in Nat \ {0} : \E a, b \in Int : x = a * p + b * q}
<1>1. q \in S
  <2>1. q = 0 * p + 1 * q  OBVIOUS
  <2> QED  BY <2>1
<1>2. PICK d \in S : \A y \in S : d <= y
  <2>1. S \subseteq Nat /\ S # {}  BY <1>1
  <2> HIDE DEF S
  <2> QED  BY <2>1, LeastNatural
<1>3. PICK a, b \in Int : d = a * p + b * q  BY <1>2
<1>4. d \in Nat \ {0}  BY <1>2
<1>5. ASSUME NEW x \in Int, \E e, f \in Int : x = e * p + f * q PROVE x % d = 0
  <2> PICK e, f \in Int : x = e * p + f * q  BY <1>5
  <2> DEFINE k == x \div d
             r == x % d
  <2>1. k \in Int /\ r \in 0..d - 1 /\ x = k * d + r  BY <1>4, DivMod
  <2> HIDE DEF k, r
  <2>2. k * d = k * (a * p) + k * (b * q)  BY <1>3, <2>1
  <2>3. k * (a * p) = (k * a) * p /\ k * (b * q) = (k * b) * q  BY <2>1
  <2>4. (e - k * a) * p = e * p - (k * a) * p /\ (f - k * b) * q = f * q - (k * b) * q  BY <2>1
  <2>5. r = (e - k * a) * p + (f - k * b) * q
    <3> DEFINE A == e * p
               B == f * q
               C == (k * a) * p
               D == (k * b) * q
    <3>1. A \in Int /\ B \in Int /\ C \in Int /\ D \in Int  BY <2>1
    <3>2. x = A + B /\ k * d = C + D  BY <2>2, <2>3
    <3>3. (e - k * a) * p + (f - k * b) * q = (A - C) + (B - D)  BY <2>4
    <3>4. k * d \in Int  BY <2>1, <1>4
    <3> HIDE DEF A, B, C, D
    <3>5. r = (A - C) + (B - D)  BY <2>1, <3>1, <3>2, <3>4
    <3> QED  BY <3>3, <3>5
  <2>6. e - k * a \in Int /\ f - k * b \in Int  BY <2>1
  <2>7. ASSUME r # 0 PROVE r \in S
    <3>1. r \in Nat \ {0}  BY <1>4, <2>1, <2>7
    <3>2. \E g, h \in Int : r = g * p + h * q  BY <2>5, <2>6
    <3> QED  BY <3>1, <3>2
  <2>8. r \in S => d <= r  BY <1>2
  <2>9. r = 0  BY <1>4, <2>1, <2>7, <2>8
  <2> QED  BY <2>9 DEF r
<1>6. p % d = 0
  <2>1. p = 1 * p + 0 * q  OBVIOUS
  <2>2. p \in Int /\ \E e, f \in Int : p = e * p + f * q  BY <2>1
  <2> QED  BY <1>5, <2>2
<1>7. q % d = 0
  <2>1. q = 0 * p + 1 * q  OBVIOUS
  <2>2. q \in Int /\ \E e, f \in Int : q = e * p + f * q  BY <2>1
  <2> QED  BY <1>5, <2>2
<1>8. d <= q
  <2>1. d <= q  BY <1>1, <1>2
  <2> QED  BY <2>1
<1>9. d = 1
  <2>1. d \notin 2..Larger(p, q)  BY <1>6, <1>7 DEF Coprime
  <2>2. d <= Larger(p, q) /\ Larger(p, q) \in Nat  BY <1>4, <1>8 DEF Larger
  <2> QED  BY <1>4, <2>1, <2>2
<1> QED  BY <1>3, <1>9

(* What is prime to q and divides with it a product, divides the other.     *)
LEMMA Gauss ==
  ASSUME NEW p \in Nat, NEW q \in Nat \ {0}, Coprime(p, q), NEW x \in Int, (x * p) % q = 0
  PROVE  x % q = 0
<1>1. PICK a, b \in Int : a * p + b * q = 1  BY Bezout
<1>2. PICK k \in Int : x * p = k * q
  <2> DEFINE y == x * p
  <2>1. y \in Int /\ y % q = 0  OBVIOUS
  <2> HIDE DEF y
  <2>2. y \div q \in Int /\ y = (y \div q) * q  BY <2>1, DivMod, NoRest
  <2> QED  BY <2>2 DEF y
<1>3. x = x * (a * p) + x * (b * q)
  <2>1. x * (a * p + b * q) = x * (a * p) + x * (b * q)  OBVIOUS
  <2> QED  BY <1>1, <2>1
<1>4. x * (a * p) = a * (x * p) /\ x * (b * q) = (x * b) * q  OBVIOUS
<1>5. a * (x * p) = (a * k) * q  BY <1>2
<1>6. x = (a * k + x * b) * q
  <2>1. (a * k + x * b) * q = (a * k) * q + (x * b) * q  OBVIOUS
  <2> QED  BY <1>3, <1>4, <1>5, <2>1
<1> DEFINE j == a * k + x * b
<1>7. j \in Int /\ x = j * q  BY <1>6
<1> HIDE DEF j
<1> QED  BY <1>7, NoRest

-----------------------------------------------------------------------------
\* What is called

(* Each operation names its own call.                                       *)
LEMMA CallsAreNamed ==
  /\ CallClones => call'.op = "clone_instances"
  /\ CallLattice => call'.op = "place_lattice"
  /\ CallSateen => call'.op = "place_sateen"
  /\ CallPoisson => call'.op = "place_poisson"
  /\ CallPath => call'.op = "place_path_following"
  /\ CallSnap => call'.op = "snap_angle"
  /\ CallStripe => call'.op = "render_stripe"
  /\ CallThreads => call'.op = "motif_thread_mask"
  /\ CallFabric => call'.op = "render_fabric"
<1>1. CallClones => call'.op = "clone_instances"  BY DEF CallClones
<1>2. CallLattice => call'.op = "place_lattice"  BY DEF CallLattice
<1>3. CallSateen => call'.op = "place_sateen"  BY DEF CallSateen
<1>4. CallPoisson => call'.op = "place_poisson"  BY DEF CallPoisson
<1>5. CallPath => call'.op = "place_path_following"  BY DEF CallPath
<1>6. CallSnap => call'.op = "snap_angle"  BY DEF CallSnap
<1>7. CallStripe => call'.op = "render_stripe"  BY DEF CallStripe
<1>8. CallThreads => call'.op = "motif_thread_mask"  BY DEF CallThreads
<1>9. CallFabric => call'.op = "render_fabric"  BY DEF CallFabric
<1> QED  BY <1>1, <1>2, <1>3, <1>4, <1>5, <1>6, <1>7, <1>8, <1>9

(* A box not much wider than half the tile is seen at most one tile away.   *)
LEMMA OneTileAway ==
  ASSUME NEW tile \in Nat \ {0}, NEW e \in Nat, Fits(e, tile), NEW x \in 0..tile - 1,
         NEW d \in Int, x - e + d * tile < tile, 0 < x + e + d * tile
  PROVE  d \in Offsets
<1>1. e < tile  BY DEF Fits
<1>2. ASSUME d >= 2 PROVE FALSE
  <2>1. (d - 2) * tile >= 0  BY <1>2
  <2>2. d * tile >= 2 * tile  BY <2>1
  <2> QED  BY <1>1, <2>2
<1>3. ASSUME d <= -2 PROVE FALSE
  <2>1. (-2 - d) * tile >= 0  BY <1>3
  <2>2. d * tile <= -2 * tile  BY <2>1
  <2> QED  BY <1>1, <2>2
<1> QED  BY <1>2, <1>3 DEF Offsets

(* A copy one tile away that shows is a copy of a box that crosses an edge. *)
LEMMA SeenMeansCrossed ==
  ASSUME NEW tile \in Nat \ {0}, NEW lo \in Int, NEW hi \in Int,
         NEW d \in {-1, 1}, lo + d * tile < tile, 0 < hi + d * tile
  PROVE  lo < 0 \/ hi > tile
<1>1. CASE d = 1  BY <1>1
<1>2. CASE d = -1  BY <1>2
<1> QED  BY <1>1, <1>2

LEMMA ClonesAreAllSeen ==
  ASSUME NEW tile \in Nat \ {0}, NEW ex \in Nat, NEW ey \in Nat, Fits(ex, tile), Fits(ey, tile),
         NEW x \in 0..tile - 1, NEW y \in 0..tile - 1, NEW d \in Int \X Int,
         d # <<0, 0>>, Visible(Box(x, y, ex, ey), d, tile)
  PROVE  d \in Clones(Box(x, y, ex, ey), tile)
<1> DEFINE box == Box(x, y, ex, ey)
<1>1. box.x0 = x - ex /\ box.x1 = x + ex /\ box.y0 = y - ey /\ box.y1 = y + ey  BY DEF Box
<1> HIDE DEF box
<1>2. /\ box.x0 + d[1] * tile < tile /\ 0 < box.x1 + d[1] * tile
      /\ box.y0 + d[2] * tile < tile /\ 0 < box.y1 + d[2] * tile
  BY DEF Visible, box
<1>3. d[1] \in Offsets  BY <1>1, <1>2, OneTileAway
<1>4. d[2] \in Offsets  BY <1>1, <1>2, OneTileAway
<1>5. Crosses(box, tile)
  <2>1. CASE d[1] # 0
    <3>1. d[1] \in {-1, 1}  BY <1>3, <2>1 DEF Offsets
    <3> QED  BY <1>1, <1>2, <3>1, SeenMeansCrossed DEF Crosses
  <2>2. CASE d[1] = 0
    <3>1. d[2] # 0  BY <2>2
    <3>2. d[2] \in {-1, 1}  BY <1>4, <3>1 DEF Offsets
    <3> QED  BY <1>1, <1>2, <3>2, SeenMeansCrossed DEF Crosses
  <2> QED  BY <2>1, <2>2
<1>6. ~Outside(box, d[1], d[2], tile)
  <2> DEFINE across == d[1] * tile
             down   == d[2] * tile
  <2>1. across \in Int /\ down \in Int  OBVIOUS
  <2>2. box.x0 + across < tile /\ 0 < box.x1 + across /\ box.y0 + down < tile /\ 0 < box.y1 + down
    BY <1>2
  <2>3. Outside(box, d[1], d[2], tile) <=>
          \/ box.x1 + across < 0 \/ box.y1 + down < 0
          \/ box.x0 + across > tile \/ box.y0 + down > tile
    BY DEF Outside
  <2> HIDE DEF across, down
  <2> QED  BY <1>1, <2>1, <2>2, <2>3
<1>7. d \in (Offsets \X Offsets) \ {<<0, 0>>}  BY <1>3, <1>4
<1>8. d \in Clones(box, tile)  BY <1>5, <1>6, <1>7 DEF Clones
<1> QED  BY <1>8 DEF box

LEMMA CallClonesComplete == ASSUME CallClones PROVE ClonesComplete'
<1>1. PICK tile \in Tiles, ex, ey \in Lengths : \E x, y \in 0..tile - 1 :
         /\ Fits(ex, tile) /\ Fits(ey, tile)
         /\ call' = [op |-> "clone_instances", tile |-> tile, ex |-> ex, ey |-> ey,
                     box |-> Box(x, y, ex, ey), out |-> Clones(Box(x, y, ex, ey), tile)]
  BY DEF CallClones
<1>2. PICK x, y \in 0..tile - 1 :
         /\ Fits(ex, tile) /\ Fits(ey, tile)
         /\ call' = [op |-> "clone_instances", tile |-> tile, ex |-> ex, ey |-> ey,
                     box |-> Box(x, y, ex, ey), out |-> Clones(Box(x, y, ex, ey), tile)]
  BY <1>1
<1>3. tile \in Nat \ {0} /\ ex \in Nat /\ ey \in Nat /\ Reach \in Nat  BY LengthsAssumption
<1>4. call'.tile = tile /\ call'.box = Box(x, y, ex, ey) /\ call'.out = Clones(Box(x, y, ex, ey), tile)
  BY <1>2
<1>5. ASSUME NEW d \in (-Reach..Reach) \X (-Reach..Reach), d # <<0, 0>>,
             Visible(Box(x, y, ex, ey), d, tile)
      PROVE  d \in Clones(Box(x, y, ex, ey), tile)
  <2>1. d \in Int \X Int  BY <1>3
  <2> QED  BY <1>2, <1>3, <1>5, <2>1, ClonesAreAllSeen
<1> QED  BY <1>4, <1>5 DEF ClonesComplete

(* Whatever part of an instance a neighbouring tile shows here is drawn, at *)
(* any distance and for every place and size of the instance.               *)
THEOREM TorusClonesComplete == CallSpec => []ClonesComplete
<1>1. CallInit => ClonesComplete  BY DEF CallInit, NoCall, ClonesComplete
<1>2. ClonesComplete /\ [CallNext]_call => ClonesComplete'
  <2> SUFFICES ASSUME ClonesComplete, [CallNext]_call PROVE ClonesComplete'  OBVIOUS
  <2>1. CASE CallClones  BY <2>1, CallClonesComplete
  <2>2. CASE call'.op # "clone_instances"  BY <2>2 DEF ClonesComplete
  <2>3. CASE UNCHANGED call  BY <2>3 DEF ClonesComplete
  <2>4. ASSUME CallNext, ~CallClones PROVE call'.op # "clone_instances"
    BY <2>4, CallsAreNamed DEF CallNext
  <2> QED  BY <2>1, <2>2, <2>3, <2>4
<1> QED  BY <1>1, <1>2, PTL DEF CallSpec

-----------------------------------------------------------------------------
LEMMA SnapCountPositive ==
  ASSUME NEW closure \in Nat \ {0}, NEW spacing \in Nat \ {0}
  PROVE  SnapCount(closure, spacing) \in Nat \ {0}
<1>1. RoundDiv(closure, spacing) \in Int  BY DEF RoundDiv
<1> QED  BY <1>1 DEF SnapCount, Larger

(* The walk from the phase, in steps of one closure length.                 *)
LEMMA WalkSpaced ==
  ASSUME NEW c \in Nat \ {0}, NEW n \in Nat \ {0}, NEW r \in 0..c - 1, NEW out,
         out = {s \in {n * r + k * c : k \in 0..n} : s < n * c}
  PROVE  /\ out # {}
         /\ \A s, t \in out : s < t => t - s >= c /\ s + n * c - t >= c
<1>1. n * r \in Nat /\ n * r < n * c
  <2>1. n * r >= 0 /\ n * (c - r) > 0  OBVIOUS
  <2> QED  BY <2>1
<1> DEFINE start == n * r
           round == n * c
<1>2. start \in Nat /\ round \in Nat /\ start < round  BY <1>1
<1>3. out = {s \in {start + k * c : k \in 0..n} : s < round}  OBVIOUS
<1>4. out # {}
  <2>1. start = start + 0 * c  BY <1>2
  <2>2. start \in {start + k * c : k \in 0..n}  BY <2>1
  <2> QED  BY <1>2, <1>3, <2>2
<1>5. ASSUME NEW s \in out, NEW t \in out, s < t
      PROVE  t - s >= c /\ s + round - t >= c
  <2>1. PICK i \in 0..n : s = start + i * c  BY <1>3
  <2>2. PICK j \in 0..n : t = start + j * c /\ t < round  BY <1>3
  <2>3. i * c \in Nat /\ j * c \in Nat  OBVIOUS
  <2>4. j - i >= 1
    <3> SUFFICES ASSUME j - i <= 0 PROVE FALSE  OBVIOUS
    <3>1. (i - j) * c >= 0  OBVIOUS
    <3>2. i * c >= j * c  BY <3>1
    <3> HIDE DEF start
    <3> QED  BY <1>2, <1>5, <2>1, <2>2, <2>3, <3>2
  <2>5. j <= n - 1
    <3> SUFFICES ASSUME j = n PROVE FALSE  OBVIOUS
    <3> QED  BY <1>2, <2>2
  <2>6. (j - i - 1) * c >= 0 /\ (n - 1 - j + i) * c >= 0  BY <2>4, <2>5
  <2>7. j * c - i * c >= c /\ round + i * c - j * c >= c  BY <2>6
  <2> HIDE DEF start, round
  <2> QED  BY <1>2, <2>1, <2>2, <2>3, <2>7
<1> QED  BY <1>4, <1>5

LEMMA CallPathSpaced == ASSUME CallPath PROVE LaneSpaced'
<1>1. PICK closure, spacing \in Lengths, phase \in Phases :
         call' = [op |-> "place_path_following", closure |-> closure, spacing |-> spacing,
                  out |-> PlacePath(closure, spacing, phase)]
  BY DEF CallPath
<1> DEFINE n == SnapCount(closure, spacing)
           r == phase % closure
<1>2. closure \in Nat \ {0} /\ spacing \in Nat \ {0} /\ phase \in Int  BY LengthsAssumption
<1>3. n \in Nat \ {0}  BY <1>2, SnapCountPositive
<1>4. r \in 0..closure - 1  BY <1>2
<1>5. PlacePath(closure, spacing, phase) = {s \in {n * r + k * closure : k \in 0..n} : s < n * closure}
  BY DEF PlacePath
<1>6. call'.closure = closure /\ call'.spacing = spacing /\ call'.out = PlacePath(closure, spacing, phase)
  BY <1>1
<1>7. SnapCount(call'.closure, call'.spacing) = n  BY <1>6
<1> DEFINE out == PlacePath(closure, spacing, phase)
<1> HIDE DEF n, r, out
<1>8. out = {s \in {n * r + k * closure : k \in 0..n} : s < n * closure}  BY <1>5 DEF out
<1>9. out # {} /\ \A s, t \in out : s < t => t - s >= closure /\ s + n * closure - t >= closure
  BY <1>2, <1>3, <1>4, <1>8, WalkSpaced
<1>10. /\ call'.out # {}
      /\ \A s, t \in call'.out : s < t => t - s >= closure /\ s + n * closure - t >= closure
  BY <1>6, <1>9 DEF out
<1> QED  BY <1>6, <1>7, <1>10 DEF LaneSpaced

(* Instances on a lane are never closer than one snapped step, nor is a     *)
(* lane empty, whatever its length, the spacing and the phase.              *)
THEOREM TorusLaneSpaced == CallSpec => []LaneSpaced
<1>1. CallInit => LaneSpaced  BY DEF CallInit, NoCall, LaneSpaced
<1>2. LaneSpaced /\ [CallNext]_call => LaneSpaced'
  <2> SUFFICES ASSUME LaneSpaced, [CallNext]_call PROVE LaneSpaced'  OBVIOUS
  <2>1. CASE CallPath  BY <2>1, CallPathSpaced
  <2>2. CASE call'.op # "place_path_following"  BY <2>2 DEF LaneSpaced
  <2>3. CASE UNCHANGED call  BY <2>3 DEF LaneSpaced
  <2>4. ASSUME CallNext, ~CallPath PROVE call'.op # "place_path_following"
    BY <2>4, CallsAreNamed DEF CallNext
  <2> QED  BY <2>1, <2>2, <2>3, <2>4
<1> QED  BY <1>1, <1>2, PTL DEF CallSpec

(* m places from start on, one closure apart; those of n and one that are on *)
(* the lane.                                                                *)
Walk(start, c, m)  == {start + k * c : k \in 0..m - 1}
OnLane(start, c, n) == {s \in {start + k * c : k \in 0..n} : s < n * c}

(* The walk stops short of the closure by the steps the phase is into it.   *)
LEMMA WalkReaches ==
  ASSUME NEW c \in Nat \ {0}, NEW n \in Nat \ {0}, NEW start \in Nat, start < n * c
  PROVE  /\ n - (start \div c) \in 1..n
         /\ OnLane(start, c, n) = Walk(start, c, n - (start \div c))
<1> DEFINE q == start \div c
           rest == start % c
<1>1. q \in Int /\ rest \in 0..c - 1 /\ start = q * c + rest  BY DivMod
<1> HIDE DEF q, rest
<1>2. q >= 0
  <2>1. q <= -1 => (-1 - q) * c >= 0  BY <1>1
  <2> QED  BY <1>1, <2>1
<1>3. ASSUME NEW k \in Int
      PROVE  start + k * c < n * c <=> k <= n - q - 1
  <2> DEFINE a == q * c
             b == k * c
             d == n * c
  <2>1. a \in Int /\ b \in Int /\ d \in Int /\ start = a + rest  BY <1>1
  <2>2. k <= n - q - 1 => d - a - b >= c
    <3>1. k <= n - q - 1 => (n - q - 1 - k) * c >= 0  BY <1>1
    <3> QED  BY <1>1, <3>1
  <2>3. k >= n - q => a + b - d >= 0
    <3>1. k >= n - q => (k + q - n) * c >= 0  BY <1>1
    <3> QED  BY <1>1, <3>1
  <2> HIDE DEF a, b, d
  <2>4. start + b < d <=> k <= n - q - 1  BY <1>1, <2>1, <2>2, <2>3
  <2> QED  BY <2>4 DEF b, d
<1>4. q <= n - 1
  <2>1. start + 0 * c < n * c  OBVIOUS
  <2>2. 0 <= n - q - 1  BY <1>3, <2>1
  <2> QED  BY <1>1, <2>2
<1>5. n - q \in 1..n  BY <1>1, <1>2, <1>4
<1>6. \A k \in 0..n : start + k * c < n * c <=> k \in 0..(n - q) - 1
  BY <1>1, <1>2, <1>3
<1>7. 0..(n - q) - 1 \subseteq 0..n  BY <1>1, <1>2
<1>8. OnLane(start, c, n) = Walk(start, c, n - q)
  BY <1>6, <1>7 DEF OnLane, Walk
<1> QED  BY <1>5, <1>8 DEF q

(* A walk of m steps has m places.                                          *)
LEMMA WalkCount ==
  ASSUME NEW c \in Nat \ {0}, NEW m \in Nat \ {0}, NEW start \in Nat
  PROVE  Cardinality(Walk(start, c, m)) = m
<1> USE DEF Walk
<1> DEFINE W == Walk(start, c, m)
           f == [k \in 0..m - 1 |-> start + k * c]
<1>1. IsFiniteSet(0..m - 1) /\ Cardinality(0..m - 1) = m  BY FS_Interval
<1>2. f \in [0..m - 1 -> W]  OBVIOUS
<1>3. ASSUME NEW i \in 0..m - 1, NEW j \in 0..m - 1, f[i] = f[j]
      PROVE  i = j
  <2>1. i * c \in Int /\ j * c \in Int /\ start + i * c = start + j * c  BY <1>3
  <2>2. i * c = j * c  BY <2>1
  <2>3. i < j => (j - i - 1) * c >= 0  OBVIOUS
  <2>4. j < i => (i - j - 1) * c >= 0  OBVIOUS
  <2>5. i < j => j * c - i * c >= c  BY <2>3
  <2>6. j < i => i * c - j * c >= c  BY <2>4
  <2> QED  BY <2>1, <2>2, <2>5, <2>6
<1>4. \A w \in W : \E k \in 0..m - 1 : f[k] = w  OBVIOUS
<1>5. f \in Bijection(0..m - 1, W)
  BY <1>2, <1>3, <1>4 DEF Bijection, Injection, Surjection, IsInjective
<1>6. ExistsBijection(0..m - 1, W)  BY <1>5 DEF ExistsBijection
<1> HIDE DEF W, f
<1>7. Cardinality(W) = m  BY <1>1, <1>6, FS_Bijection
<1> QED  BY <1>7 DEF W

(* What a lane loses: with the phase within the closure, every whole step   *)
(* that lies before it has no instance (path_following.py: the walk starts  *)
(* at the phase and stops at the closure).  So the rhythm that              *)
(* engine/units.py promises is kept exactly when the phase is less than one *)
(* step, for every closure and every spacing.                               *)
THEOREM LaneLosesWholeSteps ==
  ASSUME NEW closure \in Nat \ {0}, NEW spacing \in Nat \ {0}, NEW phase \in Int
  PROVE  LET n == SnapCount(closure, spacing)
             held == Cardinality(PlacePath(closure, spacing, phase))
         IN  /\ held = n - ((n * (phase % closure)) \div closure)
             /\ held = n <=> n * (phase % closure) < closure
<1> DEFINE n == SnapCount(closure, spacing)
           r == phase % closure
           start == n * r
           lost == start \div closure
           rest == start % closure
           held == Cardinality(PlacePath(closure, spacing, phase))
<1>1. n \in Nat \ {0}  BY SnapCountPositive
<1>2. r \in 0..closure - 1  OBVIOUS
<1>3. PlacePath(closure, spacing, phase)
        = OnLane(start, closure, n)
  BY DEF PlacePath, OnLane
<1> HIDE DEF n, r
<1>4. start \in Nat /\ start < n * closure
  <2>1. n * r >= 0 /\ n * (closure - r) > 0  BY <1>1, <1>2
  <2> QED  BY <1>1, <1>2, <2>1
<1> HIDE DEF start
<1>5. /\ n - lost \in 1..n
      /\ OnLane(start, closure, n) = Walk(start, closure, n - lost)
  BY <1>1, <1>4, WalkReaches
<1>6. lost \in Int /\ rest \in 0..closure - 1 /\ start = lost * closure + rest
  BY <1>4, DivMod
<1> HIDE DEF lost, rest
<1>7. n - lost \in Nat \ {0}  BY <1>1, <1>5, <1>6
<1>8. Cardinality(Walk(start, closure, n - lost)) = n - lost
  BY <1>4, <1>7, WalkCount
<1>9. held = n - lost  BY <1>3, <1>5, <1>8
<1>10. lost = 0 <=> start < closure
  <2>1. lost >= 0  BY <1>1, <1>5, <1>6
  <2>2. lost = 0 => start = rest  BY <1>6
  <2>3. lost >= 1 => start >= closure
    <3>1. lost >= 1 => (lost - 1) * closure >= 0  BY <1>6
    <3>2. lost >= 1 => lost * closure >= closure  BY <1>6, <3>1
    <3> QED  BY <1>6, <3>2
  <2> QED  BY <1>6, <2>1, <2>2, <2>3
<1>11. held = n <=> start < closure  BY <1>1, <1>6, <1>9, <1>10
<1> QED  BY <1>9, <1>11 DEF n, r, start, lost

-----------------------------------------------------------------------------
\* Stripes

(* No multiple of step is nearer to x than the smaller of the two rests.    *)
LEMMA RestIsNearest ==
  ASSUME NEW step \in Nat \ {0}, NEW x \in Int, NEW m \in Int
  PROVE  Smaller(x % step, step - (x % step)) <= Abs(x - m * step)
<1> DEFINE q == x \div step
           r == x % step
           u == q * step
           v == m * step
<1>1. q \in Int /\ r \in 0..step - 1 /\ x = u + r  BY DivMod
<1> HIDE DEF q, r
<1>2. u \in Int /\ v \in Int  BY <1>1
<1>3. v <= u \/ v >= u + step
  <2>1. m <= q => (q - m) * step >= 0  BY <1>1
  <2>2. m >= q + 1 => (m - q - 1) * step >= 0  BY <1>1
  <2> QED  BY <1>1, <2>1, <2>2
<1> HIDE DEF u, v
<1>4. Smaller(r, step - r) <= Abs(x - v)  BY <1>1, <1>2, <1>3 DEF Smaller, Abs
<1> QED  BY <1>4 DEF r, v

LEMMA AbsTimes ==
  ASSUME NEW n \in Nat, NEW x \in Int
  PROVE  Abs(n * x) = n * Abs(x)
<1>1. CASE x < 0
  <2>1. n * (-x) >= 0 /\ n * (-x) = -(n * x)  BY <1>1
  <2> QED  BY <1>1, <2>1 DEF Abs
<1>2. CASE x >= 0
  <2>1. n * x >= 0  BY <1>2
  <2> QED  BY <1>2, <2>1 DEF Abs
<1> QED  BY <1>1, <1>2

(* Moved by a side of the tile, an accepted stripe is on its place but for  *)
(* the tolerance.                                                           *)
LEMMA AcceptedRepeats ==
  ASSUME NEW step \in Nat \ {0}, NEW tile \in Nat \ {0}, NEW k \in Nat, NEW n \in Nat,
         Tol * Abs(k * step - tile) <= Larger(step, tile)
  PROVE  Tol * Smaller((n * tile) % step, step - ((n * tile) % step)) <= n * Larger(step, tile)
<1> DEFINE x    == n * tile
           off  == Smaller(x % step, step - (x % step))
           away == Abs(k * step - tile)
           big  == Larger(step, tile)
<1>1. x \in Int /\ n * k \in Int /\ k * step \in Int  OBVIOUS
<1>2. off <= Abs(x - (n * k) * step)  BY <1>1, RestIsNearest
<1>3. off \in Nat
  <2>1. x % step \in 0..step - 1  BY <1>1, DivMod
  <2> QED  BY <2>1 DEF Smaller
<1>4. Abs(x - (n * k) * step) = n * away
  <2>1. (n * k) * step = n * (k * step)  BY Associate
  <2>2. n * (k * step - tile) = n * (k * step) - x
    <3>1. \A z \in Int : n * (z - tile) = n * z - n * tile  OBVIOUS
    <3> QED  BY <1>1, <3>1
  <2>3. Abs(n * (k * step - tile)) = n * away  BY <1>1, AbsTimes
  <2>4. n * (k * step) \in Int  BY <1>1
  <2>5. Abs(x - n * (k * step)) = Abs(n * (k * step) - x)  BY <1>1, <2>4 DEF Abs
  <2> QED  BY <2>1, <2>2, <2>3, <2>5
<1>5. away \in Nat /\ big \in Nat /\ Tol \in Nat  BY <1>1, UnitAssumption DEF Abs, Larger
<1>6. Tol * away <= big  OBVIOUS
<1> HIDE DEF x, off, away, big
<1>7. Tol * off <= Tol * (n * away)
  <2>1. off <= n * away /\ n * away \in Nat  BY <1>2, <1>4, <1>5
  <2>2. Tol * (n * away - off) >= 0  BY <1>3, <1>5, <2>1
  <2> QED  BY <1>3, <1>5, <2>1, <2>2
<1>8. Tol * (n * away) = n * (Tol * away)  BY <1>5
<1>9. n * (Tol * away) <= n * big
  <2>1. n * (big - Tol * away) >= 0  BY <1>5, <1>6
  <2> QED  BY <1>5, <2>1
<1>10. Tol * off \in Int /\ Tol * (n * away) \in Int /\ n * big \in Int  BY <1>3, <1>5
<1>11. Tol * off <= n * big  BY <1>7, <1>8, <1>9, <1>10
<1> QED  BY <1>11 DEF off, big, x

(* If both sides of the tile are multiples of step along a direction in its *)
(* lowest terms, the tile itself is.                                        *)
LEMMA BothSidesTile ==
  ASSUME NEW step \in Nat \ {0}, NEW tile \in Int, NEW p \in Int, NEW q \in Nat,
         p # 0 \/ q # 0, Coprime(Abs(p), q), (p * tile) % step = 0, (q * tile) % step = 0
  PROVE  \E j \in Int : tile = j * step
<1> DEFINE i == (p * tile) \div step
           j == (q * tile) \div step
<1>1. p * tile \in Int /\ q * tile \in Int  OBVIOUS
<1>2. i \in Int /\ p * tile = i * step  BY <1>1, DivMod, NoRest
<1>3. j \in Int /\ q * tile = j * step  BY <1>1, DivMod, NoRest
<1> HIDE DEF i, j
<1>4. CASE q = 0
  <2>1. Abs(p) \in Nat \ {0}  BY <1>4 DEF Abs
  <2>2. Abs(p) % Abs(p) = 0 /\ 0 % Abs(p) = 0
    <3>1. Abs(p) = 1 * Abs(p) /\ 0 = 0 * Abs(p) /\ Abs(p) \in Int  BY <2>1
    <3> QED  BY <2>1, <3>1, NoRest
  <2>3. Larger(Abs(p), 0) = Abs(p)  BY <2>1 DEF Larger
  <2>4. Abs(p) \notin 2..Abs(p)  BY <1>4, <2>2, <2>3 DEF Coprime
  <2>5. Abs(p) = 1  BY <2>1, <2>4
  <2>6. p = 1 \/ p = -1  BY <2>5 DEF Abs
  <2>7. p * tile = tile \/ p * tile = -tile  BY <2>6
  <2>8. tile = i * step \/ tile = (-i) * step  BY <1>2, <2>7
  <2>9. CASE tile = i * step  BY <1>2, <2>9
  <2>10. CASE tile = (-i) * step
    <3>1. -i \in Int  BY <1>2
    <3> QED  BY <2>10, <3>1
  <2> QED  BY <2>8, <2>9, <2>10
<1>5. CASE q # 0
  <2>1. q \in Nat \ {0} /\ Abs(p) \in Nat  BY <1>5 DEF Abs
  <2>2. PICK a, b \in Int : a * Abs(p) + b * q = 1  BY <2>1, Bezout
  <2>3. PICK c \in Int : c * p + b * q = 1
    <3>1. Abs(p) = p \/ Abs(p) = -p  BY DEF Abs
    <3>2. a * (-p) = (-a) * p /\ -a \in Int  OBVIOUS
    <3>3. CASE Abs(p) = p  BY <2>2, <3>3
    <3>4. CASE Abs(p) = -p
      <4>1. (-a) * p + b * q = 1  BY <2>2, <3>2, <3>4
      <4> QED  BY <3>2, <4>1
    <3> QED  BY <3>1, <3>3, <3>4
  <2>4. (c * p + b * q) * tile = c * (p * tile) + b * (q * tile)  OBVIOUS
  <2>5. c * (i * step) + b * (j * step) = (c * i + b * j) * step  BY <1>2, <1>3
  <2>6. tile = (c * i + b * j) * step  BY <1>2, <1>3, <2>3, <2>4, <2>5
  <2>7. c * i + b * j \in Int  BY <1>2, <1>3
  <2> QED  BY <2>6, <2>7
<1> QED  BY <1>4, <1>5

(* A whole number of steps: round finds it.                                 *)
LEMMA ExactRound ==
  ASSUME NEW step \in Nat \ {0}, NEW tile \in Nat, NEW j \in Int, tile = j * step
  PROVE  RoundDiv(tile, step) = j
<1> DEFINE k == RoundDiv(tile, step)
<1>1. k \in Nat  BY RoundDivNear
<1>2. Abs(k * step - tile) <= Abs(j * step - tile)  BY RoundDivNearest
<1> HIDE DEF k
<1>3. k * step \in Int /\ j * step \in Int  BY <1>1
<1>4. k * step = j * step  BY <1>2, <1>3 DEF Abs
<1>5. k = j  BY <1>1, <1>4, Cancel
<1> QED  BY <1>5 DEF k

LEMMA StripeDoesRepeat ==
  ASSUME NEW step \in Nat \ {0}, NEW tile \in Nat \ {0}, NEW p \in Int, NEW q \in Nat,
         p # 0 \/ q # 0, Coprime(Abs(p), q), NEW ok,
         ok <=> /\ RoundDiv(tile, step) >= 1
                /\ Tol * Abs(RoundDiv(tile, step) * step - tile) <= Larger(step, tile)
  PROVE  LET off(n) == Smaller((n * tile) % step, step - ((n * tile) % step))
         IN /\ ok => \A n \in {Abs(p), q} : Tol * off(n) <= n * Larger(step, tile)
            /\ (off(p) = 0 /\ off(q) = 0) => ok
<1> DEFINE off(n) == Smaller((n * tile) % step, step - ((n * tile) % step))
<1>1. ASSUME ok, NEW n \in {Abs(p), q} PROVE Tol * off(n) <= n * Larger(step, tile)
  <2>1. n \in Nat  BY DEF Abs
  <2>2. RoundDiv(tile, step) \in Nat  BY RoundDivNear
  <2> QED  BY <1>1, <2>1, <2>2, AcceptedRepeats
<1>2. ASSUME off(p) = 0, off(q) = 0 PROVE ok
  <2>1. ASSUME NEW n \in Int, off(n) = 0 PROVE (n * tile) % step = 0
    <3>1. n * tile \in Int  OBVIOUS
    <3>2. (n * tile) % step \in 0..step - 1  BY <3>1, DivMod
    <3> QED  BY <2>1, <3>2 DEF Smaller
  <2>2. (p * tile) % step = 0 /\ (q * tile) % step = 0
    <3>1. p \in Int /\ q \in Int  OBVIOUS
    <3> QED  BY <1>2, <2>1, <3>1
  <2>3. PICK j \in Int : tile = j * step
    <3>1. tile \in Int  OBVIOUS
    <3> QED  BY <2>2, <3>1, BothSidesTile
  <2>4. RoundDiv(tile, step) = j  BY <2>3, ExactRound
  <2>5. j >= 1
    <3>1. j <= 0 => (-j) * step >= 0  OBVIOUS
    <3> QED  BY <2>3, <3>1
  <2>6. Abs(j * step - tile) = 0  BY <2>3 DEF Abs
  <2>7. Tol * 0 <= Larger(step, tile)  BY UnitAssumption DEF Larger
  <2> QED  BY <2>4, <2>5, <2>6, <2>7
<1> QED  BY <1>1, <1>2

(* What stripe_tiles asks, with the closing step for a number.              *)
LEMMA StripeTilesIs ==
  ASSUME NEW tile \in Nat \ {0}, NEW period \in Nat \ {0}, NEW slope \in Slopes
  PROVE  LET p    == slope[1]
             q    == slope[2]
             step == slope[3] * period
         IN /\ p \in Int /\ q \in Nat /\ step \in Nat \ {0}
            /\ p # 0 \/ q # 0
            /\ Coprime(Abs(p), q)
            /\ StripeTiles(tile, period, slope) <=>
                 /\ RoundDiv(tile, step) >= 1
                 /\ Tol * Abs(RoundDiv(tile, step) * step - tile) <= Larger(step, tile)
<1> DEFINE h    == slope[3]
           step == h * period
           k    == RoundDiv(tile, period * h)
<1>1. /\ slope[1] \in Int /\ slope[2] \in Nat /\ h \in Nat \ {0}
      /\ slope[1] * slope[1] + slope[2] * slope[2] = h * h
      /\ Coprime(Abs(slope[1]), slope[2])
  BY SlopesAssumption
<1>2. slope[1] # 0 \/ slope[2] # 0
  <2>1. h * h \in Nat \ {0}  BY <1>1, TimesPositive
  <2> QED  BY <1>1, <2>1
<1>3. StripeTiles(tile, period, slope) <=>
        k >= 1 /\ Tol * Abs(k * period * h - tile) <= Larger(period * h, tile)
  BY DEF StripeTiles
<1> HIDE DEF h
<1>4. step \in Nat \ {0} /\ period * h = step  BY <1>1, TimesPositive
<1>5. k \in Int  BY <1>4, RoundDivNear
<1> HIDE DEF k
<1>6. k * period * h = k * step
  <2>1. k * period * h = k * (period * h)  BY <1>1, <1>5, Associate
  <2> QED  BY <1>4, <2>1
<1>7. k = RoundDiv(tile, step)  BY <1>4 DEF k
<1>8. StripeTiles(tile, period, slope) <=>
        /\ RoundDiv(tile, step) >= 1
        /\ Tol * Abs(RoundDiv(tile, step) * step - tile) <= Larger(step, tile)
  BY <1>3, <1>4, <1>6, <1>7
<1> QED  BY <1>1, <1>2, <1>4, <1>8 DEF h

(* The corners of the tile bound the projections of its places.             *)
LEMMA ProjectionsBound ==
  ASSUME NEW slope \in Int \X Nat \X Nat, NEW tile \in Nat
  PROVE  /\ \E lo, hi \in Projections(slope, tile) :
              \A u \in Projections(slope, tile) : lo <= u /\ u <= hi
         /\ Projections(slope, tile) \subseteq Int
         /\ \A lo, hi \in Projections(slope, tile) :
              (\A u \in Projections(slope, tile) : lo <= u /\ u <= hi) =>
                \A x, y \in 0..tile :
                  lo <= 2 * (slope[2] * y - slope[1] * x) /\ 2 * (slope[2] * y - slope[1] * x) <= hi
<1> DEFINE p == slope[1]
           q == slope[2]
           a == p * tile
           b == q * tile
           P == Projections(slope, tile)
<1>1. p \in Int /\ q \in Nat  OBVIOUS
<1>2. a \in Int /\ b \in Nat /\ (q - p) * tile = b - a  BY <1>1
<1>3. P = {0, -2 * a, 2 * b, 2 * (b - a)}
  <2>1. -2 * p * tile = -2 * a /\ 2 * q * tile = 2 * b  BY <1>1
  <2>2. 2 * (q - p) * tile = 2 * ((q - p) * tile)  BY <1>1
  <2> QED  BY <1>2, <2>1, <2>2 DEF Projections
<1>4. \A x \in 0..tile : \/ 0 <= p * x /\ p * x <= a
                         \/ a <= p * x /\ p * x <= 0
  <2> TAKE x \in 0..tile
  <2>1. CASE p >= 0
    <3>1. p * x >= 0 /\ p * (tile - x) >= 0  BY <1>1, <2>1
    <3> QED  BY <1>1, <3>1
  <2>2. CASE p <= 0
    <3>1. (-p) * x >= 0 /\ (-p) * (tile - x) >= 0  BY <1>1, <2>2
    <3> QED  BY <1>1, <3>1
  <2> QED  BY <1>1, <2>1, <2>2
<1>5. \A y \in 0..tile : 0 <= q * y /\ q * y <= b
  <2> TAKE y \in 0..tile
  <2>1. q * y >= 0 /\ q * (tile - y) >= 0  BY <1>1
  <2> QED  BY <1>1, <2>1
<1>6. \A x, y \in 0..tile : p * x \in Int /\ q * y \in Int  BY <1>1
<1> HIDE DEF a, b, p, q
<1>7. P \subseteq Int  BY <1>2, <1>3
<1>8. \E lo, hi \in P : \A u \in P : lo <= u /\ u <= hi
  <2> HIDE DEF P
  <2>1. CASE a >= 0
    <3>1. 2 * (b - a) <= 2 * b /\ -2 * a <= 0  BY <1>2, <2>1
    <3>2. -2 * a \in P /\ 2 * b \in P /\ \A u \in P : -2 * a <= u /\ u <= 2 * b  BY <1>2, <1>3, <2>1
    <3> QED  BY <3>2
  <2>2. CASE a < 0
    <3>1. 0 \in P /\ 2 * (b - a) \in P /\ \A u \in P : 0 <= u /\ u <= 2 * (b - a)  BY <1>2, <1>3, <2>2
    <3> QED  BY <3>1
  <2> QED  BY <1>2, <2>1, <2>2
<1>9. ASSUME NEW lo \in P, NEW hi \in P, \A u \in P : lo <= u /\ u <= hi,
             NEW x \in 0..tile, NEW y \in 0..tile
      PROVE  lo <= 2 * (q * y - p * x) /\ 2 * (q * y - p * x) <= hi
  <2> HIDE DEF P
  <2>1. /\ lo <= 0 /\ lo <= -2 * a /\ lo <= 2 * b /\ lo <= 2 * (b - a)
        /\ 0 <= hi /\ -2 * a <= hi /\ 2 * b <= hi /\ 2 * (b - a) <= hi
    BY <1>3, <1>9
  <2>2. lo \in Int /\ hi \in Int  BY <1>7
  <2> DEFINE px == p * x
             qy == q * y
  <2>3. px \in Int /\ qy \in Int /\ 0 <= qy /\ qy <= b
          /\ ((0 <= px /\ px <= a) \/ (a <= px /\ px <= 0))
    BY <1>4, <1>5, <1>6
  <2> HIDE DEF px, qy
  <2>4. lo <= 2 * (qy - px) /\ 2 * (qy - px) <= hi  BY <1>2, <2>1, <2>2, <2>3
  <2> QED  BY <2>4 DEF px, qy
<1> QED  BY <1>7, <1>8, <1>9 DEF p, q

(* The line of index k or, beyond the first and the last one that are drawn,*)
(* that one, is as near as it is.                                           *)
LEMMA SomeLineCovers ==
  ASSUME NEW step \in Nat \ {0}, NEW c \in Int, NEW lo \in Int, NEW hi \in Int, NEW t \in Int,
         lo <= t, t <= hi, NEW half \in Int, NEW k \in Int, Abs(t - (c + k * step)) <= half
  PROVE  \E j \in ((lo - c) \div step)..CeilDiv(hi - c, step) : Abs(t - (c + j * step)) <= half
<1> DEFINE a == (lo - c) \div step
           b == CeilDiv(hi - c, step)
<1>1. a \in Int /\ a * step <= lo - c
  <2>1. lo - c \in Int  OBVIOUS
  <2>2. a \in Int /\ (lo - c) % step \in 0..step - 1 /\ lo - c = a * step + ((lo - c) % step)
    BY <2>1, DivMod
  <2>3. a * step \in Int  BY <2>2
  <2> QED  BY <2>2, <2>3
<1>2. b \in Int /\ b * step >= hi - c
  <2> DEFINE d == (-(hi - c)) \div step
  <2>1. -(hi - c) \in Int  OBVIOUS
  <2>2. d \in Int /\ (-(hi - c)) % step \in 0..step - 1 /\ -(hi - c) = d * step + ((-(hi - c)) % step)
    BY <2>1, DivMod
  <2>3. b = -d  BY DEF CeilDiv
  <2> HIDE DEF d, b
  <2>4. d * step \in Int /\ b * step = -(d * step)  BY <2>2, <2>3
  <2> QED  BY <2>2, <2>3, <2>4
<1> HIDE DEF a, b
<1> DEFINE A == a * step
           B == b * step
           K == k * step
<1>3. A \in Int /\ B \in Int /\ K \in Int /\ A <= lo - c /\ hi - c <= B  BY <1>1, <1>2
<1>4. (k < a => K <= A) /\ (k > b => B <= K) /\ (b < a => B < A)
  <2>1. k < a => (a - k) * step >= 0  BY <1>1
  <2>2. k > b => (k - b) * step >= 0  BY <1>2
  <2>3. b < a => (a - b - 1) * step >= 0  BY <1>1, <1>2
  <2> QED  BY <1>1, <1>2, <2>1, <2>2, <2>3
<1>5. Abs(t - (c + K)) <= half  OBVIOUS
<1> HIDE DEF A, B, K
<1>6. a <= b  BY <1>1, <1>2, <1>3, <1>4
<1>7. CASE k < a
  <2>1. Abs(t - (c + A)) <= half  BY <1>3, <1>4, <1>5, <1>7 DEF Abs
  <2>2. Abs(t - (c + a * step)) <= half  BY <2>1 DEF A
  <2> QED  BY <1>1, <1>2, <1>6, <2>2 DEF a, b
<1>8. CASE k > b
  <2>1. Abs(t - (c + B)) <= half  BY <1>3, <1>4, <1>5, <1>8 DEF Abs
  <2>2. Abs(t - (c + b * step)) <= half  BY <2>1 DEF B
  <2> QED  BY <1>1, <1>2, <1>6, <2>2 DEF a, b
<1>9. CASE k \in a..b  BY <1>9 DEF a, b
<1> QED  BY <1>1, <1>2, <1>7, <1>8, <1>9

LEMMA StripeDoesCover ==
  ASSUME NEW tile \in Nat \ {0}, NEW period \in Nat \ {0}, NEW slope \in Slopes,
         NEW offset \in Int, NEW width \in Nat,
         call'.tile = tile, call'.band = [offset |-> offset, width |-> width],
         call'.slope = slope, call'.period = period,
         call'.out = BandLines([offset |-> offset, width |-> width], period, slope, tile)
  PROVE  StripeCovers'
<1> DEFINE band == [offset |-> offset, width |-> width]
           step == 2 * slope[3] * period
           half == slope[3] * width
           c    == BandCenter(band, slope)
           P    == Projections(slope, tile)
           lo   == CHOOSE t \in P : \A u \in P : t <= u
           hi   == CHOOSE t \in P : \A u \in P : t >= u
           out  == {c + k * step : k \in ((lo - c) \div step)..CeilDiv(hi - c, step)}
<1>1. slope \in Int \X Nat \X Nat /\ slope[1] \in Int /\ slope[2] \in Nat /\ slope[3] \in Nat \ {0}
  BY SlopesAssumption
<1>2. step \in Nat \ {0}
  <2>1. slope[3] * period \in Nat \ {0}  BY <1>1, TimesPositive
  <2>2. step = 2 * (slope[3] * period)  BY <1>1
  <2> QED  BY <2>1, <2>2
<1>3. c \in Int /\ half \in Int
  <2>1. band.offset = offset /\ band.width = width  OBVIOUS
  <2>2. 2 * offset + width \in Int  OBVIOUS
  <2> QED  BY <1>1, <2>1, <2>2 DEF BandCenter
<1>4. BandLines(band, period, slope, tile) = out  BY DEF BandLines
<1>5. lo \in P /\ hi \in P /\ \A u \in P : lo <= u /\ u <= hi
  <2>1. P \subseteq Int /\ \E l, h \in P : \A u \in P : l <= u /\ u <= h  BY <1>1, ProjectionsBound
  <2> HIDE DEF P
  <2> QED  BY <2>1
<1>6. lo \in Int /\ hi \in Int
        /\ \A x, y \in 0..tile : lo <= 2 * (slope[2] * y - slope[1] * x)
                                   /\ 2 * (slope[2] * y - slope[1] * x) <= hi
  <2> HIDE DEF lo, hi
  <2> QED  BY <1>1, <1>5, ProjectionsBound
<1> HIDE DEF step, half, c, lo, hi
<1>7. ASSUME NEW x \in 0..tile, NEW y \in 0..tile, NEW k \in Int,
             Abs(2 * (slope[2] * y - slope[1] * x) - (c + k * step)) <= half
      PROVE  \E line \in out : Abs(2 * (slope[2] * y - slope[1] * x) - line) <= half
  <2> DEFINE t == 2 * (slope[2] * y - slope[1] * x)
  <2>1. t \in Int  BY <1>1
  <2>2. lo <= t /\ t <= hi  BY <1>6
  <2>3. Abs(t - (c + k * step)) <= half  BY <1>7
  <2> HIDE DEF t
  <2>4. PICK j \in ((lo - c) \div step)..CeilDiv(hi - c, step) : Abs(t - (c + j * step)) <= half
    BY <1>2, <1>3, <1>6, <2>1, <2>2, <2>3, SomeLineCovers
  <2>5. c + j * step \in out  OBVIOUS
  <2>6. \E line \in out : Abs(t - line) <= half  BY <2>4, <2>5
  <2> QED  BY <2>6 DEF t
<1>8. /\ call'.out = out /\ call'.slope = slope /\ 2 * call'.slope[3] * call'.period = step
      /\ call'.slope[3] * call'.band.width = half /\ BandCenter(call'.band, call'.slope) = c
      /\ call'.tile = tile
  BY <1>4 DEF step, half, c
<1>9. \A k \in -Reach..Reach : k \in Int  BY LengthsAssumption
<1> HIDE DEF out
<1> QED  BY <1>7, <1>8, <1>9 DEF StripeCovers

LEMMA CallStripesTile == ASSUME CallStripe PROVE StripesTile'
<1>1. PICK tile \in Tiles, period, width \in Lengths, offset \in BandOffsets, slope \in Slopes :
         call' = [op |-> "render_stripe", tile |-> tile,
                  band |-> [offset |-> offset, width |-> width], slope |-> slope,
                  period |-> period, ok |-> StripeTiles(tile, period, slope),
                  out |-> BandLines([offset |-> offset, width |-> width], period, slope, tile)]
  BY DEF CallStripe
<1>2. tile \in Nat \ {0} /\ period \in Nat \ {0} /\ width \in Nat /\ offset \in Int
  BY LengthsAssumption
<1>3. /\ call'.tile = tile /\ call'.band = [offset |-> offset, width |-> width]
      /\ call'.slope = slope /\ call'.period = period
      /\ call'.ok = StripeTiles(tile, period, slope)
      /\ call'.out = BandLines([offset |-> offset, width |-> width], period, slope, tile)
  BY <1>1
<1>4. StripeRepeats'
  <2> DEFINE p    == slope[1]
             q    == slope[2]
             step == slope[3] * period
             ok   == StripeTiles(tile, period, slope)
             off(n) == Smaller((n * tile) % step, step - ((n * tile) % step))
  <2>1. /\ p \in Int /\ q \in Nat /\ step \in Nat \ {0}
        /\ p # 0 \/ q # 0
        /\ Coprime(Abs(p), q)
        /\ ok <=> /\ RoundDiv(tile, step) >= 1
                  /\ Tol * Abs(RoundDiv(tile, step) * step - tile) <= Larger(step, tile)
    BY <1>2, StripeTilesIs
  <2> HIDE DEF p, q, step, ok
  <2>2. /\ ok => \A n \in {Abs(p), q} : Tol * off(n) <= n * Larger(step, tile)
        /\ (off(p) = 0 /\ off(q) = 0) => ok
    BY <1>2, <2>1, StripeDoesRepeat
  <2>3. /\ call'.slope[1] = p /\ call'.slope[2] = q /\ call'.slope[3] * call'.period = step
        /\ call'.ok = ok /\ call'.tile = tile
    BY <1>3 DEF p, q, step, ok
  <2> QED  BY <2>2, <2>3 DEF StripeRepeats
<1>5. StripeCovers'  BY <1>2, <1>3, StripeDoesCover
<1> QED  BY <1>4, <1>5 DEF StripesTile

(* A stripe that validation accepts repeats with the tile, one that repeats *)
(* exactly is accepted, and no part of its bands is left out, for every     *)
(* period, direction, band and tile.                                        *)
THEOREM TorusStripesTile == CallSpec => []StripesTile
<1>1. CallInit => StripesTile  BY DEF CallInit, NoCall, StripesTile
<1>2. StripesTile /\ [CallNext]_call => StripesTile'
  <2> SUFFICES ASSUME StripesTile, [CallNext]_call PROVE StripesTile'  OBVIOUS
  <2>1. CASE CallStripe  BY <2>1, CallStripesTile
  <2>2. CASE call'.op # "render_stripe"  BY <2>2 DEF StripesTile
  <2>3. CASE UNCHANGED call  BY <2>3 DEF StripesTile, StripeRepeats, StripeCovers
  <2>4. ASSUME CallNext, ~CallStripe PROVE call'.op # "render_stripe"
    BY <2>4, CallsAreNamed DEF CallNext
  <2> QED  BY <2>1, <2>2, <2>3, <2>4
<1> QED  BY <1>1, <1>2, PTL DEF CallSpec

-----------------------------------------------------------------------------
\* Lattices

\* A lattice on a torus of side D: its point in row j and column i is i * A
\* along one axis and i * s + j * B along the other.
OnTorus(D, A, s, B, i, j) == <<(i * A) % D, (i * s + j * B) % D>>

\* n columns and m rows close, the n columns with r rows of shear.
Closing(D, A, s, B, n, m, r) ==
  /\ D \in Nat \ {0} /\ A \in Nat \ {0} /\ B \in Nat \ {0} /\ s \in Nat
  /\ n \in Nat \ {0} /\ m \in Nat \ {0} /\ r \in Int
  /\ n * A = D /\ m * B = D /\ n * s = r * B

LEMMA MultiplesApart ==
  ASSUME NEW n \in Nat \ {0}, NEW A \in Nat \ {0}, NEW i \in 0..n - 1, NEW j \in 0..n - 1,
         NEW x \in Int, (x + i * A) % (n * A) = (x + j * A) % (n * A)
  PROVE  i = j
<1> DEFINE D == n * A
           u == x + i * A
           v == x + j * A
<1>1. D \in Nat \ {0}  BY TimesPositive
<1>2. u \in Int /\ v \in Int /\ u % D = v % D  OBVIOUS
<1>3. u - v = (i - j) * A  OBVIOUS
<1> HIDE DEF D, u, v
<1>4. PICK k \in Int : u - v = k * D  BY <1>1, <1>2, SameRestApart
<1>5. k * D = (k * n) * A /\ k * n \in Int  BY Associate DEF D
<1>6. i - j = k * n
  <2>1. (i - j) * A = (k * n) * A /\ i - j \in Int  BY <1>3, <1>4, <1>5
  <2> QED  BY <1>5, <2>1, Cancel
<1>7. k = 0
  <2>1. -n < k * n /\ k * n < n  BY <1>6
  <2> QED  BY <2>1, SmallMultiple
<1> QED  BY <1>6, <1>7

LEMMA PointsDiffer ==
  ASSUME NEW D, NEW A, NEW s, NEW B, NEW n, NEW m, NEW r, Closing(D, A, s, B, n, m, r),
         NEW i \in 0..n - 1, NEW h \in 0..n - 1, NEW j \in 0..m - 1, NEW k \in 0..m - 1,
         OnTorus(D, A, s, B, i, j) = OnTorus(D, A, s, B, h, k)
  PROVE  i = h /\ j = k
<1> USE DEF Closing
<1>1. (i * A) % D = (h * A) % D /\ (i * s + j * B) % D = (h * s + k * B) % D  BY DEF OnTorus
<1>2. i = h
  <2>1. i * A = 0 + i * A /\ h * A = 0 + h * A /\ 0 \in Int  OBVIOUS
  <2>2. (0 + i * A) % (n * A) = (0 + h * A) % (n * A)  BY <1>1, <2>1
  <2> QED  BY <2>1, <2>2, MultiplesApart
<1>3. j = k
  <2>1. i * s \in Int  OBVIOUS
  <2>2. (i * s + j * B) % (m * B) = (i * s + k * B) % (m * B)  BY <1>1, <1>2
  <2> QED  BY <2>1, <2>2, MultiplesApart
<1> QED  BY <1>2, <1>3

\* It is one of the first n columns and m rows.
IsPoint(D, A, s, B, n, m, p) == \E i \in 0..n - 1, j \in 0..m - 1 : p = OnTorus(D, A, s, B, i, j)

(* Every point of the endless lattice is on the torus one of the n by m.    *)
LEMMA PointsReach ==
  ASSUME NEW D, NEW A, NEW s, NEW B, NEW n, NEW m, NEW r, Closing(D, A, s, B, n, m, r),
         NEW a \in Int, NEW b \in Int
  PROVE  IsPoint(D, A, s, B, n, m, OnTorus(D, A, s, B, a, b))
<1>0. /\ D \in Nat \ {0} /\ A \in Nat \ {0} /\ B \in Nat \ {0} /\ s \in Nat
      /\ n \in Nat \ {0} /\ m \in Nat \ {0} /\ r \in Int
  BY DEF Closing
<1>9. n * A = D /\ m * B = D /\ n * s = r * B  BY DEF Closing
<1>10. D \in Nat \ {0}  BY <1>0
<1> DEFINE q == a \div n
           i == a % n
           c == b + q * r
           k == c \div m
           j == c % m
<1>1. q \in Int /\ i \in 0..n - 1 /\ a = q * n + i  BY <1>0, DivMod
<1> HIDE DEF q, i
<1>2. c \in Int /\ c - b = q * r  BY <1>0, <1>1
<1> HIDE DEF c
<1>3. k \in Int /\ j \in 0..m - 1 /\ c = k * m + j  BY <1>0, <1>2, DivMod
<1> HIDE DEF k, j
<1>4. (a * A) % D = (i * A) % D
  <2> DEFINE u == a * A
             v == i * A
  <2>1. u = q * (n * A) + v  BY <1>0, <1>1
  <2>2. u \in Int /\ v \in Int /\ q * D \in Int  BY <1>0, <1>1
  <2> HIDE DEF u, v
  <2>3. u = v + q * D  BY <1>9, <2>1, <2>2
  <2>4. u % D = v % D  BY <1>1, <1>10, <2>2, <2>3, RestShift
  <2> QED  BY <2>4 DEF u, v
<1>5. (a * s + b * B) % D = (i * s + j * B) % D
  <2>1. a * s = q * (n * s) + i * s  BY <1>0, <1>1
  <2>2. q * (n * s) = (q * r) * B
    <3>1. q * (r * B) = (q * r) * B  BY <1>0, <1>1
    <3> QED  BY <1>9, <3>1
  <2>3. (q * r) * B + b * B = c * B  BY <1>0, <1>1, <1>2
  <2>4. c * B = k * (m * B) + j * B  BY <1>0, <1>3
  <2>5. k * (m * B) = k * D  BY <1>9
  <2> DEFINE u == a * s
             v == b * B
             w == i * s
             x == j * B
             y == k * D
             z == (q * r) * B
             t == c * B
  <2>6. /\ u \in Int /\ v \in Int /\ w \in Int /\ x \in Int /\ y \in Int /\ z \in Int /\ t \in Int
        /\ u = z + w /\ z + v = t /\ t = y + x
    BY <1>0, <1>1, <1>2, <1>3, <2>1, <2>2, <2>3, <2>4, <2>5
  <2> HIDE DEF u, v, w, x, z, t
  <2>7. u + v = (w + x) + k * D /\ w + x \in Int
    <3> HIDE DEF y
    <3>1. /\ u \in Int /\ v \in Int /\ w \in Int /\ x \in Int /\ y \in Int /\ z \in Int
          /\ u = z + w /\ z + v = y + x
      BY <2>6
    <3>2. u + v = (w + x) + y /\ w + x \in Int  BY <3>1
    <3> QED  BY <3>2 DEF y
  <2>8. (u + v) % D = (w + x) % D
    <3> DEFINE to == u + v
               from == w + x
    <3>1. to = from + k * D /\ from \in Int  BY <2>7
    <3> HIDE DEF to, from
    <3>2. to % D = from % D  BY <1>3, <1>10, <3>1, RestShift
    <3> QED  BY <3>2 DEF to, from
  <2> QED  BY <2>8 DEF u, v, w, x
<1> QED  BY <1>1, <1>3, <1>4, <1>5 DEF OnTorus, IsPoint

(* One step along either vector of the basis leads to such a point again.   *)
LEMMA PointsClose ==
  ASSUME NEW D, NEW A, NEW s, NEW B, NEW n, NEW m, NEW r, Closing(D, A, s, B, n, m, r),
         NEW i \in 0..n - 1, NEW j \in 0..m - 1, NEW p, p = OnTorus(D, A, s, B, i, j)
  PROVE  /\ IsPoint(D, A, s, B, n, m, <<(p[1] + A) % D, (p[2] + s) % D>>)
         /\ IsPoint(D, A, s, B, n, m, <<(p[1] + 0) % D, (p[2] + B) % D>>)
<1>0. /\ D \in Nat \ {0} /\ A \in Int /\ B \in Int /\ s \in Int
      /\ n \in Nat \ {0} /\ m \in Nat \ {0}
  BY DEF Closing
<1>8. i \in Int /\ j \in Int  BY <1>0
<1> DEFINE x == i * A
           y == i * s + j * B
<1>1. x \in Int /\ y \in Int /\ p[1] = x % D /\ p[2] = y % D  BY <1>0, <1>8 DEF OnTorus
<1>2. /\ (i + 1) * A = x + A /\ (i + 1) * s + j * B = y + s
      /\ i * s + (j + 1) * B = y + B /\ x = x + 0
  BY <1>0, <1>8
<1>3. <<(p[1] + A) % D, (p[2] + s) % D>> = OnTorus(D, A, s, B, i + 1, j)
  <2> HIDE DEF x, y
  <2>1. ((x % D) + A) % D = (x + A) % D /\ ((y % D) + s) % D = (y + s) % D  BY <1>0, <1>1, RestAdd
  <2> QED  BY <1>1, <1>2, <2>1 DEF OnTorus
<1>4. <<(p[1] + 0) % D, (p[2] + B) % D>> = OnTorus(D, A, s, B, i, j + 1)
  <2>1. OnTorus(D, A, s, B, i, j + 1) = <<x % D, (y + B) % D>>  BY <1>2 DEF OnTorus
  <2> HIDE DEF x, y
  <2>2. ((y % D) + B) % D = (y + B) % D  BY <1>0, <1>1, RestAdd
  <2>5. x % D \in 0..D - 1  BY <1>0, <1>1, DivMod
  <2>3. p[1] + 0 = x % D /\ x % D \in 0..D - 1
    <3> DEFINE z == x % D
    <3>1. z \in Int /\ p[1] = z  BY <1>0, <1>1, <2>5
    <3> HIDE DEF z
    <3>2. p[1] + 0 = z  BY <3>1
    <3> QED  BY <2>5, <3>2 DEF z
  <2>4. (p[1] + 0) % D = x % D  BY <1>0, <2>3, OwnRest
  <2> QED  BY <1>1, <2>1, <2>2, <2>4
<1>5. i \in Int /\ j \in Int /\ i + 1 \in Int /\ j + 1 \in Int  BY <1>8
<1>6. IsPoint(D, A, s, B, n, m, OnTorus(D, A, s, B, i + 1, j))
  BY <1>5, PointsReach
<1>7. IsPoint(D, A, s, B, n, m, OnTorus(D, A, s, B, i, j + 1))
  BY <1>5, PointsReach
<1> QED  BY <1>3, <1>4, <1>6, <1>7

\* A lattice spec, and its cells divide the tile.
IsSpec(spec) ==
  /\ spec.cw \in Nat \ {0} /\ spec.ch \in Nat \ {0} /\ spec.axis \in {"row", "column"}
  /\ spec.drop = None \/ spec.drop \in AllowedDrops

LEMMA CellsDivide ==
  ASSUME NEW tile \in Nat \ {0}, NEW c \in Nat \ {0}, tile % c = 0
  PROVE  /\ RoundDiv(tile, c) \in Nat \ {0}
         /\ RoundDiv(tile, c) * c = tile
<1>1. tile \div c \in Int /\ tile = (tile \div c) * c  BY DivMod, NoRest
<1> DEFINE k == tile \div c
<1> HIDE DEF k
<1>2. k \in Int /\ tile = k * c  BY <1>1 DEF k
<1>3. RoundDiv(tile, c) = k  BY <1>2, ExactRound
<1>4. k <= 0 => (-k) * c >= 0  BY <1>2
<1> QED  BY <1>2, <1>3, <1>4

LEMMA DropOf ==
  ASSUME NEW spec, IsSpec(spec)
  PROVE  /\ Drop(spec)[1] \in Nat /\ Drop(spec)[2] \in Nat \ {0} /\ Drop(spec)[2] < Tol + 1
         /\ spec.drop = None => Drop(spec)[1] = 0
         /\ spec.drop # None => Drop(spec) = spec.drop /\ Drop(spec)[2] < Tol
<1>1. CASE spec.drop = None
  <2>1. Drop(spec) = <<0, 1>>  BY <1>1 DEF Drop
  <2> QED  BY <1>1, <2>1, UnitAssumption
<1>2. CASE spec.drop # None
  <2>1. Drop(spec) = spec.drop /\ spec.drop \in AllowedDrops  BY <1>2 DEF Drop, IsSpec
  <2>2. Drop(spec)[2] < Tol  BY <2>1, ToleranceAssumption, UnitAssumption DEF AllowedDrops
  <2>3. Drop(spec)[1] \in Nat /\ Drop(spec)[2] \in Nat \ {0}  BY <2>1 DEF AllowedDrops
  <2> QED  BY <1>2, <2>1, <2>2, <2>3, UnitAssumption
<1> QED  BY <1>1, <1>2

(* The dropped rows or columns close, exactly.                              *)
LEMMA DropClosesExactly ==
  ASSUME NEW spec, IsSpec(spec), NEW tile \in Nat \ {0}, spec.drop # None => DropCloses(spec, tile),
         NEW n \in Nat \ {0}, n * (IF spec.axis = "column" THEN spec.cw ELSE spec.ch) = tile
  PROVE  \E r \in Int : n * Drop(spec)[1] = r * Drop(spec)[2]
<1> DEFINE cell == IF spec.axis = "column" THEN spec.cw ELSE spec.ch
           num  == Drop(spec)[1]
           den  == Drop(spec)[2]
           a    == tile * num
           b    == cell * den
           k    == RoundDiv(a, b)
<1>1. num \in Nat /\ den \in Nat \ {0} /\ cell \in Nat \ {0} /\ n * cell = tile  BY DropOf DEF IsSpec
<1>2. spec.drop = None => num = 0  BY DropOf
<1>3. spec.drop # None => den < Tol /\ Tol * Abs(k * b - a) <= b  BY DropOf DEF DropCloses
<1> HIDE DEF cell, num, den
<1>4. a \in Nat /\ b \in Nat \ {0}  BY <1>1, TimesPositive
<1>5. k \in Nat
  <2> HIDE DEF a, b
  <2> QED  BY <1>4, RoundDivNear
<1>6. CASE spec.drop = None
  <2>1. n * num = 0 * den  BY <1>1, <1>2, <1>6
  <2> QED  BY <2>1 DEF num, den
<1>7. CASE spec.drop # None
  <2> DEFINE d == k * den - n * num
  <2> HIDE DEF k
  <2>1. d \in Int /\ k * b - a = cell * d
    <3>1. k * b = cell * (k * den)  BY <1>1, <1>5
    <3>2. a = cell * (n * num)  BY <1>1
    <3>3. \A x, y \in Int : cell * (x - y) = cell * x - cell * y  BY <1>1
    <3>4. k * den \in Int /\ n * num \in Int  BY <1>1, <1>5
    <3> DEFINE u == k * den
               v == n * num
    <3>5. k * b = cell * u /\ a = cell * v /\ u \in Int /\ v \in Int /\ d = u - v
      BY <3>1, <3>2, <3>4
    <3> HIDE DEF u, v, a, b, d
    <3>6. cell * (u - v) = cell * u - cell * v  BY <3>3, <3>5
    <3> QED  BY <3>5, <3>6
  <2>2. Abs(k * b - a) = cell * Abs(d)  BY <1>1, <2>1, AbsTimes
  <2> HIDE DEF d
  <2>3. Abs(d) \in Nat  BY <2>1 DEF Abs
  <2>4. Tol * (cell * Abs(d)) <= cell * den /\ den < Tol /\ Tol \in Nat
    BY <1>3, <1>7, <2>2, UnitAssumption
  <2>5. Abs(d) = 0
    <3> SUFFICES ASSUME Abs(d) >= 1 PROVE FALSE  BY <2>3
    <3> DEFINE e == Abs(d) - 1
    <3>1. e \in Nat /\ Abs(d) = e + 1  BY <2>3
    <3> HIDE DEF e
    <3>2. Tol * (cell * (e + 1)) = cell * (Tol * e) + cell * Tol  BY <1>1, <2>4, <3>1
    <3>3. Tol * e \in Nat  BY <2>4, <3>1
    <3>4. cell * (Tol * e) >= 0  BY <1>1, <3>3
    <3>5. cell * (Tol - den) > 0  BY <1>1, <2>4
    <3>6. cell * (Tol - den) = cell * Tol - cell * den  BY <1>1, <2>4
    <3>7. cell * (Tol * e) \in Int /\ cell * Tol \in Int /\ cell * den \in Int  BY <1>1, <2>4, <3>3
    <3>8. cell * (Tol * e) + cell * Tol <= cell * den  BY <2>4, <3>1, <3>2
    <3> QED  BY <3>4, <3>5, <3>6, <3>7, <3>8
  <2>6. d = 0  BY <2>1, <2>5 DEF Abs
  <2>7. k * den = n * num  BY <1>1, <1>5, <2>6 DEF d
  <2> QED  BY <1>5, <2>7 DEF num, den
<1> QED  BY <1>6, <1>7

(* As many values as arguments, when no two arguments have the same value.  *)
LEMMA OntoCount ==
  ASSUME NEW S, IsFiniteSet(S), NEW T, NEW f \in [S -> T],
         \A x, y \in S : f[x] = f[y] => x = y,
         \A t \in T : \E x \in S : f[x] = t
  PROVE  Cardinality(T) = Cardinality(S)
<1>1. f \in Surjection(S, T)  BY DEF Surjection
<1>2. f \in Injection(S, T)  BY DEF Injection, IsInjective
<1> QED  BY <1>1, <1>2, FS_Surjection

LEMMA GridCount ==
  ASSUME NEW n \in Nat, NEW m \in Nat
  PROVE  /\ IsFiniteSet((0..n - 1) \X (0..m - 1))
         /\ Cardinality((0..n - 1) \X (0..m - 1)) = n * m
<1>1. \A k \in Nat : IsFiniteSet(0..k - 1) /\ Cardinality(0..k - 1) = k
  <2> TAKE k \in Nat
  <2>1. 0 \in Int /\ k - 1 \in Int  OBVIOUS
  <2>2. IsFiniteSet(0..k - 1) /\ Cardinality(0..k - 1) = IF 0 > k - 1 THEN 0 ELSE k - 1 - 0 + 1
    BY <2>1, FS_Interval
  <2> QED  BY <2>2
<1> DEFINE N == 0..n - 1
           M == 0..m - 1
<1>2. IsFiniteSet(N) /\ Cardinality(N) = n /\ IsFiniteSet(M) /\ Cardinality(M) = m  BY <1>1
<1> HIDE DEF N, M
<1>3. IsFiniteSet(N \X M) /\ Cardinality(N \X M) = Cardinality(N) * Cardinality(M)
  BY <1>2, FS_Product
<1> QED  BY <1>2, <1>3 DEF N, M

LEMMA ColumnsClose ==
  ASSUME NEW tile \in Nat \ {0}, NEW cw \in Nat \ {0}, NEW ch \in Nat \ {0}, NEW num \in Nat,
         NEW den \in Nat \ {0}, NEW n \in Nat \ {0}, NEW m \in Nat \ {0}, NEW r \in Int,
         n * cw = tile, m * ch = tile, n * num = r * den
  PROVE  Closing(tile * den, den * cw, num * ch, den * ch, n, m, r)
<1>1. tile * den \in Nat \ {0} /\ den * cw \in Nat \ {0} /\ den * ch \in Nat \ {0} /\ num * ch \in Nat
  BY TimesPositive
<1>2. n * (den * cw) = (n * cw) * den /\ m * (den * ch) = (m * ch) * den  OBVIOUS
<1>3. n * (num * ch) = (n * num) * ch /\ r * (den * ch) = (r * den) * ch  OBVIOUS
<1> QED  BY <1>1, <1>2, <1>3 DEF Closing

\* Where its lattice has the point in column i and row j.
Swapped(p) == <<p[2], p[1]>>

LEMMA LatticePointIs ==
  ASSUME NEW spec, IsSpec(spec), NEW tile \in Nat \ {0}, NEW i \in Int, NEW j \in Int
  PROVE  LET num == Drop(spec)[1]
             den == Drop(spec)[2]
             D   == tile * den
         IN /\ spec.axis = "column" =>
                 LatticePoint(spec, tile, i, j)
                   = OnTorus(D, den * spec.cw, num * spec.ch, den * spec.ch, i, j)
            /\ spec.axis = "row" =>
                 LatticePoint(spec, tile, i, j)
                   = Swapped(OnTorus(D, den * spec.ch, num * spec.cw, den * spec.cw, j, i))
<1> DEFINE num == Drop(spec)[1]
           den == Drop(spec)[2]
           D   == tile * den
           b   == LatticeBasis(spec)
<1>1. num \in Nat /\ den \in Nat /\ spec.cw \in Nat /\ spec.ch \in Nat  BY DropOf DEF IsSpec
<1>2. LatticePoint(spec, tile, i, j)
        = <<(i * b[1][1] + j * b[2][1]) % D, (i * b[1][2] + j * b[2][2]) % D>>
  BY DEF LatticePoint
<1>3. ASSUME spec.axis = "column"
      PROVE  LatticePoint(spec, tile, i, j)
               = OnTorus(D, den * spec.cw, num * spec.ch, den * spec.ch, i, j)
  <2>1. b[1] = <<den * spec.cw, num * spec.ch>> /\ b[2] = <<0, den * spec.ch>>
    BY <1>3 DEF LatticeBasis
  <2> DEFINE x == i * (den * spec.cw)
             y == i * (num * spec.ch) + j * (den * spec.ch)
  <2>2. x \in Int /\ j * 0 = 0 /\ x + 0 = x  BY <1>1
  <2>3. i * b[1][1] + j * b[2][1] = x  BY <2>1, <2>2
  <2>4. i * b[1][2] + j * b[2][2] = y  BY <2>1
  <2> HIDE DEF b, D
  <2> QED  BY <1>2, <2>3, <2>4 DEF OnTorus
<1>4. ASSUME spec.axis = "row"
      PROVE  LatticePoint(spec, tile, i, j)
               = Swapped(OnTorus(D, den * spec.ch, num * spec.cw, den * spec.cw, j, i))
  <2>1. b[1] = <<den * spec.cw, 0>> /\ b[2] = <<num * spec.cw, den * spec.ch>>
    BY <1>4 DEF LatticeBasis
  <2> DEFINE x == j * (num * spec.cw) + i * (den * spec.cw)
             y == j * (den * spec.ch)
  <2>2. y \in Int /\ i * 0 = 0 /\ 0 + y = y  BY <1>1
  <2>3. i * (den * spec.cw) \in Int /\ j * (num * spec.cw) \in Int  BY <1>1
  <2>4. i * b[1][1] + j * b[2][1] = x  BY <2>1, <2>3
  <2>5. i * b[1][2] + j * b[2][2] = y  BY <2>1, <2>2
  <2> HIDE DEF b, D
  <2>6. LatticePoint(spec, tile, i, j) = <<x % D, y % D>>  BY <1>2, <2>4, <2>5
  <2>7. OnTorus(D, den * spec.ch, num * spec.cw, den * spec.cw, j, i) = <<y % D, x % D>>
    BY DEF OnTorus
  <2> HIDE DEF x, y
  <2> QED  BY <2>6, <2>7 DEF Swapped
<1> QED  BY <1>3, <1>4

\* What LatticeCloses says of the points of a lattice.
LatticeIsFine(spec, tile, n, m) ==
  LET point(i, j) == LatticePoint(spec, tile, i, j)
      side == tile * Drop(spec)[2]
  IN /\ \A i, h \in 0..n - 1, j, k \in 0..m - 1 : point(i, j) = point(h, k) => i = h /\ j = k
     /\ \A i \in 0..n - 1, j \in 0..m - 1, b \in {LatticeBasis(spec)[1], LatticeBasis(spec)[2]} :
          \E h \in 0..n - 1, k \in 0..m - 1 :
            <<(point(i, j)[1] + b[1]) % side, (point(i, j)[2] + b[2]) % side>> = point(h, k)

LEMMA ColumnLattice ==
  ASSUME NEW spec, IsSpec(spec), NEW tile \in Nat \ {0}, spec.axis = "column",
         NEW n \in Nat \ {0}, NEW m \in Nat \ {0}, NEW r \in Int,
         n * spec.cw = tile, m * spec.ch = tile, n * Drop(spec)[1] = r * Drop(spec)[2]
  PROVE  LatticeIsFine(spec, tile, n, m)
<1> DEFINE num == Drop(spec)[1]
           den == Drop(spec)[2]
           D   == tile * den
           A   == den * spec.cw
           s   == num * spec.ch
           B   == den * spec.ch
           point(i, j) == LatticePoint(spec, tile, i, j)
<1>1. num \in Nat /\ den \in Nat \ {0} /\ spec.cw \in Nat \ {0} /\ spec.ch \in Nat \ {0}
  BY DropOf DEF IsSpec
<1>2. Closing(D, A, s, B, n, m, r)
  <2> HIDE DEF num, den
  <2>1. n * num = r * den  BY DEF num, den
  <2> QED  BY <1>1, <2>1, ColumnsClose
<1>3. \A i, j \in Int : point(i, j) = OnTorus(D, A, s, B, i, j)  BY LatticePointIs
<1>4. LatticeBasis(spec)[1] = <<A, s>> /\ LatticeBasis(spec)[2] = <<0, B>>  BY DEF LatticeBasis
<1>5. (\A i \in 0..n - 1 : i \in Int) /\ (\A j \in 0..m - 1 : j \in Int)  OBVIOUS
<1> HIDE DEF num, den, A, s, B, D, point
<1>6. ASSUME NEW i \in 0..n - 1, NEW h \in 0..n - 1, NEW j \in 0..m - 1, NEW k \in 0..m - 1,
             point(i, j) = point(h, k)
      PROVE  i = h /\ j = k
  <2>1. OnTorus(D, A, s, B, i, j) = OnTorus(D, A, s, B, h, k)  BY <1>3, <1>5, <1>6
  <2> QED  BY <1>2, <2>1, PointsDiffer
<1>7. ASSUME NEW i \in 0..n - 1, NEW j \in 0..m - 1, NEW b \in {<<A, s>>, <<0, B>>}
      PROVE  \E h \in 0..n - 1, k \in 0..m - 1 :
               <<(point(i, j)[1] + b[1]) % D, (point(i, j)[2] + b[2]) % D>> = point(h, k)
  <2> DEFINE p == OnTorus(D, A, s, B, i, j)
  <2>1. point(i, j) = p  BY <1>3, <1>5
  <2>2. /\ IsPoint(D, A, s, B, n, m, <<(p[1] + A) % D, (p[2] + s) % D>>)
        /\ IsPoint(D, A, s, B, n, m, <<(p[1] + 0) % D, (p[2] + B) % D>>)
    <3>1. p = OnTorus(D, A, s, B, i, j)  OBVIOUS
    <3> HIDE DEF p
    <3> QED  BY <1>2, <3>1, PointsClose
  <2> HIDE DEF p
  <2>3. CASE b = <<A, s>>
    <3>1. b[1] = A /\ b[2] = s  BY <2>3
    <3>2. PICK h \in 0..n - 1, k \in 0..m - 1 :
             <<(p[1] + A) % D, (p[2] + s) % D>> = OnTorus(D, A, s, B, h, k)
      BY <2>2 DEF IsPoint
    <3>3. point(h, k) = OnTorus(D, A, s, B, h, k)  BY <1>3, <1>5
    <3> QED  BY <2>1, <3>1, <3>2, <3>3
  <2>4. CASE b = <<0, B>>
    <3>1. b[1] = 0 /\ b[2] = B  BY <2>4
    <3>2. PICK h \in 0..n - 1, k \in 0..m - 1 :
             <<(p[1] + 0) % D, (p[2] + B) % D>> = OnTorus(D, A, s, B, h, k)
      BY <2>2 DEF IsPoint
    <3>3. point(h, k) = OnTorus(D, A, s, B, h, k)  BY <1>3, <1>5
    <3> QED  BY <2>1, <3>1, <3>2, <3>3
  <2> QED  BY <2>3, <2>4
<1>8. D = tile * Drop(spec)[2]  BY DEF D, den
<1> USE DEF point
<1> QED  BY <1>4, <1>6, <1>7, <1>8 DEF LatticeIsFine

LEMMA RowLattice ==
  ASSUME NEW spec, IsSpec(spec), NEW tile \in Nat \ {0}, spec.axis = "row",
         NEW n \in Nat \ {0}, NEW m \in Nat \ {0}, NEW r \in Int,
         n * spec.cw = tile, m * spec.ch = tile, m * Drop(spec)[1] = r * Drop(spec)[2]
  PROVE  LatticeIsFine(spec, tile, n, m)
<1> DEFINE num == Drop(spec)[1]
           den == Drop(spec)[2]
           D   == tile * den
           A   == den * spec.ch
           s   == num * spec.cw
           B   == den * spec.cw
           point(i, j) == LatticePoint(spec, tile, i, j)
<1>1. num \in Nat /\ den \in Nat \ {0} /\ spec.cw \in Nat \ {0} /\ spec.ch \in Nat \ {0}
  BY DropOf DEF IsSpec
<1>2. Closing(D, A, s, B, m, n, r)
  <2> HIDE DEF num, den
  <2>1. m * num = r * den  BY DEF num, den
  <2> QED  BY <1>1, <2>1, ColumnsClose
<1>3. \A i, j \in Int : point(i, j) = Swapped(OnTorus(D, A, s, B, j, i))  BY LatticePointIs
<1>4. LatticeBasis(spec)[1] = <<B, 0>> /\ LatticeBasis(spec)[2] = <<s, A>>  BY DEF LatticeBasis
<1>5. (\A i \in 0..n - 1 : i \in Int) /\ (\A j \in 0..m - 1 : j \in Int)  OBVIOUS
<1> HIDE DEF num, den, A, s, B, D, point
<1>6. ASSUME NEW i \in 0..n - 1, NEW h \in 0..n - 1, NEW j \in 0..m - 1, NEW k \in 0..m - 1,
             point(i, j) = point(h, k)
      PROVE  i = h /\ j = k
  <2>1. Swapped(OnTorus(D, A, s, B, j, i)) = Swapped(OnTorus(D, A, s, B, k, h))  BY <1>3, <1>5, <1>6
  <2>2. OnTorus(D, A, s, B, j, i) = OnTorus(D, A, s, B, k, h)  BY <2>1 DEF Swapped, OnTorus
  <2> QED  BY <1>2, <2>2, PointsDiffer
<1>7. ASSUME NEW i \in 0..n - 1, NEW j \in 0..m - 1, NEW b \in {<<B, 0>>, <<s, A>>}
      PROVE  \E h \in 0..n - 1, k \in 0..m - 1 :
               <<(point(i, j)[1] + b[1]) % D, (point(i, j)[2] + b[2]) % D>> = point(h, k)
  <2> DEFINE p == OnTorus(D, A, s, B, j, i)
  <2>1. point(i, j) = <<p[2], p[1]>>  BY <1>3, <1>5 DEF Swapped
  <2>2. /\ IsPoint(D, A, s, B, m, n, <<(p[1] + A) % D, (p[2] + s) % D>>)
        /\ IsPoint(D, A, s, B, m, n, <<(p[1] + 0) % D, (p[2] + B) % D>>)
    <3>1. p = OnTorus(D, A, s, B, j, i)  OBVIOUS
    <3> HIDE DEF p
    <3> QED  BY <1>2, <3>1, PointsClose
  <2> HIDE DEF p
  <2>5. \A x, y, z, w : <<x, y>> = OnTorus(D, A, s, B, z, w) => Swapped(OnTorus(D, A, s, B, z, w)) = <<y, x>>
    BY DEF Swapped
  <2>3. CASE b = <<s, A>>
    <3>1. b[1] = s /\ b[2] = A  BY <2>3
    <3>2. PICK h \in 0..m - 1, k \in 0..n - 1 :
             <<(p[1] + A) % D, (p[2] + s) % D>> = OnTorus(D, A, s, B, h, k)
      BY <2>2 DEF IsPoint
    <3>3. point(k, h) = <<(p[2] + s) % D, (p[1] + A) % D>>  BY <1>3, <1>5, <2>5, <3>2
    <3> QED  BY <2>1, <3>1, <3>3
  <2>4. CASE b = <<B, 0>>
    <3>1. b[1] = B /\ b[2] = 0  BY <2>4
    <3>2. PICK h \in 0..m - 1, k \in 0..n - 1 :
             <<(p[1] + 0) % D, (p[2] + B) % D>> = OnTorus(D, A, s, B, h, k)
      BY <2>2 DEF IsPoint
    <3>3. point(k, h) = <<(p[2] + B) % D, (p[1] + 0) % D>>  BY <1>3, <1>5, <2>5, <3>2
    <3> QED  BY <2>1, <3>1, <3>3
  <2> QED  BY <2>3, <2>4
<1>8. D = tile * Drop(spec)[2]  BY DEF D, den
<1> USE DEF point
<1> QED  BY <1>4, <1>6, <1>7, <1>8 DEF LatticeIsFine

LEMMA ValidLatticeIsFine ==
  ASSUME NEW spec, IsSpec(spec), NEW tile \in Nat \ {0}, LatticeValid(spec, tile),
         tile % spec.cw = 0, tile % spec.ch = 0
  PROVE  LET n == RoundDiv(tile, spec.cw)
             m == RoundDiv(tile, spec.ch)
         IN n \in Nat \ {0} /\ m \in Nat \ {0} /\ LatticeIsFine(spec, tile, n, m)
<1> DEFINE n == RoundDiv(tile, spec.cw)
           m == RoundDiv(tile, spec.ch)
<1>1. n \in Nat \ {0} /\ n * spec.cw = tile  BY CellsDivide DEF IsSpec
<1>2. m \in Nat \ {0} /\ m * spec.ch = tile  BY CellsDivide DEF IsSpec
<1>3. spec.drop # None => DropCloses(spec, tile)  BY DEF LatticeValid
<1>4. spec.axis = "column" \/ spec.axis = "row"  BY DEF IsSpec
<1> HIDE DEF n, m
<1>5. CASE spec.axis = "column"
  <2>1. n * (IF spec.axis = "column" THEN spec.cw ELSE spec.ch) = tile  BY <1>1, <1>5
  <2>2. PICK r \in Int : n * Drop(spec)[1] = r * Drop(spec)[2]  BY <1>1, <1>3, <2>1, DropClosesExactly
  <2>3. LatticeIsFine(spec, tile, n, m)  BY <1>1, <1>2, <1>5, <2>2, ColumnLattice
  <2> QED  BY <1>1, <1>2, <2>3 DEF n, m
<1>6. CASE spec.axis = "row"
  <2>1. m * (IF spec.axis = "column" THEN spec.cw ELSE spec.ch) = tile  BY <1>2, <1>6
  <2>2. PICK r \in Int : m * Drop(spec)[1] = r * Drop(spec)[2]  BY <1>2, <1>3, <2>1, DropClosesExactly
  <2>3. LatticeIsFine(spec, tile, n, m)  BY <1>1, <1>2, <1>6, <2>2, RowLattice
  <2> QED  BY <1>1, <1>2, <2>3 DEF n, m
<1> QED  BY <1>4, <1>5, <1>6

LEMMA PlacedLatticeCloses ==
  ASSUME NEW spec, IsSpec(spec), NEW tile \in Nat \ {0}, LatticeValid(spec, tile),
         tile % spec.cw = 0, tile % spec.ch = 0
  PROVE  LET out    == PlaceLattice(spec, tile)
             side   == tile * Drop(spec)[2]
             points == {out[at] : at \in DOMAIN out}
         IN /\ Cardinality(points) = LatticeCount(spec, tile)
            /\ \A p \in points, b \in {LatticeBasis(spec)[1], LatticeBasis(spec)[2]} :
                 <<(p[1] + b[1]) % side, (p[2] + b[2]) % side>> \in points
<1> DEFINE n == RoundDiv(tile, spec.cw)
           m == RoundDiv(tile, spec.ch)
           out    == PlaceLattice(spec, tile)
           side   == tile * Drop(spec)[2]
           points == {out[at] : at \in DOMAIN out}
           Basis  == {LatticeBasis(spec)[1], LatticeBasis(spec)[2]}
           point(i, j) == LatticePoint(spec, tile, i, j)
           G == (0..n - 1) \X (0..m - 1)
<1>1. n \in Nat \ {0} /\ m \in Nat \ {0} /\ LatticeIsFine(spec, tile, n, m)  BY ValidLatticeIsFine
<1>2. out = [at \in G |-> point(at[1], at[2])]  BY DEF PlaceLattice
<1>3. LatticeCount(spec, tile) = n * m  BY DEF LatticeCount
<1>4. \A i, h \in 0..n - 1, j, k \in 0..m - 1 : point(i, j) = point(h, k) => i = h /\ j = k
  BY <1>1 DEF LatticeIsFine
<1>5. \A i \in 0..n - 1, j \in 0..m - 1, b \in Basis :
        \E h \in 0..n - 1, k \in 0..m - 1 :
          <<(point(i, j)[1] + b[1]) % side, (point(i, j)[2] + b[2]) % side>> = point(h, k)
  BY <1>1 DEF LatticeIsFine
<1> HIDE DEF n, m, out, side, Basis, point
<1>6. DOMAIN out = G /\ \A i \in 0..n - 1, j \in 0..m - 1 : <<i, j>> \in G /\ out[<<i, j>>] = point(i, j)
  BY <1>2
<1>7. Cardinality(points) = n * m
  <2>1. \A x, y \in G : out[x] = out[y] => x = y
    <3> TAKE x, y \in G
    <3> HAVE out[x] = out[y]
    <3>1. x = <<x[1], x[2]>> /\ y = <<y[1], y[2]>> /\ x[1] \in 0..n - 1 /\ y[1] \in 0..n - 1
            /\ x[2] \in 0..m - 1 /\ y[2] \in 0..m - 1
      OBVIOUS
    <3>2. point(x[1], x[2]) = point(y[1], y[2])  BY <1>2
    <3>3. x[1] = y[1] /\ x[2] = y[2]  BY <1>4, <3>1, <3>2
    <3> QED  BY <3>1, <3>3
  <2>2. out \in [G -> points] /\ \A p \in points : \E x \in G : out[x] = p
    <3>1. out = [at \in G |-> out[at]] /\ points = {out[at] : at \in G}  BY <1>2, <1>6
    <3> HIDE DEF G, points
    <3>2. \A at \in G : out[at] \in points  BY <3>1
    <3>3. \A p \in points : \E x \in G : out[x] = p  BY <3>1
    <3> QED  BY <3>1, <3>2, <3>3
  <2>3. IsFiniteSet(G) /\ Cardinality(G) = n * m  BY <1>1, GridCount
  <2> HIDE DEF G, points
  <2>4. Cardinality(points) = Cardinality(G)  BY <2>1, <2>2, <2>3, OntoCount
  <2> QED  BY <2>3, <2>4
<1>8. \A i \in 0..n - 1, j \in 0..m - 1 : point(i, j) \in points  BY <1>6
<1>9. ASSUME NEW p \in points, NEW b \in Basis
      PROVE  <<(p[1] + b[1]) % side, (p[2] + b[2]) % side>> \in points
  <2>1. PICK at \in G : p = out[at]  BY <1>6
  <2>2. at[1] \in 0..n - 1 /\ at[2] \in 0..m - 1 /\ p = point(at[1], at[2])  BY <1>2, <2>1
  <2> HIDE DEF points
  <2>3. PICK h \in 0..n - 1, k \in 0..m - 1 :
           <<(point(at[1], at[2])[1] + b[1]) % side, (point(at[1], at[2])[2] + b[2]) % side>> = point(h, k)
    BY <1>5, <2>2
  <2> QED  BY <1>8, <2>2, <2>3
<1> QED  BY <1>3, <1>7, <1>9 DEF out, side, Basis

LEMMA CallLatticeCloses == ASSUME CallLattice PROVE LatticeCloses'
<1>1. PICK tile \in Tiles, spec \in LatticeSpecs :
         /\ LatticeValid(spec, tile)
         /\ call' = [op |-> "place_lattice", tile |-> tile, spec |-> spec,
                     out |-> PlaceLattice(spec, tile)]
  BY DEF CallLattice
<1>2. tile \in Nat \ {0}  BY LengthsAssumption
<1>3. IsSpec(spec)
  <2>1. spec.cw \in Lengths /\ spec.ch \in Lengths /\ spec.axis \in {"row", "column"}
    BY DEF LatticeSpecs
  <2>2. spec.drop = None \/ spec.drop \in AllowedDrops  BY <1>1 DEF LatticeValid
  <2> QED  BY <2>1, <2>2, LengthsAssumption DEF IsSpec
<1>4. call'.tile = tile /\ call'.spec = spec /\ call'.out = PlaceLattice(spec, tile)  BY <1>1
<1>5. ASSUME tile % spec.cw = 0, tile % spec.ch = 0
      PROVE  LET out    == PlaceLattice(spec, tile)
                 side   == tile * Drop(spec)[2]
                 points == {out[at] : at \in DOMAIN out}
             IN /\ Cardinality(points) = LatticeCount(spec, tile)
                /\ \A p \in points, b \in {LatticeBasis(spec)[1], LatticeBasis(spec)[2]} :
                     <<(p[1] + b[1]) % side, (p[2] + b[2]) % side>> \in points
  BY <1>1, <1>2, <1>3, <1>5, PlacedLatticeCloses
<1> QED  BY <1>4, <1>5 DEF LatticeCloses

\* LatticeCloses of the call c.
LatticeClosesOf(c) ==
  c.op = "place_lattice" /\ c.tile % c.spec.cw = 0 /\ c.tile % c.spec.ch = 0 =>
    LET side   == c.tile * Drop(c.spec)[2]
        points == {c.out[at] : at \in DOMAIN c.out}
    IN /\ Cardinality(points) = LatticeCount(c.spec, c.tile)
       /\ \A p \in points, b \in {LatticeBasis(c.spec)[1], LatticeBasis(c.spec)[2]} :
            <<(p[1] + b[1]) % side, (p[2] + b[2]) % side>> \in points

(* An accepted lattice whose cells divide the tile has all its points apart *)
(* and goes on across the edges as it does inside, for every cell, drop and *)
(* tile.                                                                    *)
THEOREM TorusLatticeCloses == CallSpec => []LatticeCloses
<1>1. CallInit => LatticeCloses  BY DEF CallInit, NoCall, LatticeCloses
<1>2. LatticeCloses /\ [CallNext]_call => LatticeCloses'
  <2> SUFFICES ASSUME LatticeCloses, [CallNext]_call PROVE LatticeCloses'  OBVIOUS
  <2>1. CASE CallLattice  BY <2>1, CallLatticeCloses
  <2>2. CASE call'.op # "place_lattice"  BY <2>2 DEF LatticeCloses
  <2>3. CASE UNCHANGED call
    <3>1. LatticeCloses = LatticeClosesOf(call)  BY DEF LatticeCloses, LatticeClosesOf
    <3>2. LatticeCloses' = LatticeClosesOf(call')  BY DEF LatticeCloses, LatticeClosesOf
    <3> QED  BY <2>3, <3>1, <3>2
  <2>4. ASSUME CallNext, ~CallLattice PROVE call'.op # "place_lattice"
    BY <2>4, CallsAreNamed DEF CallNext
  <2> QED  BY <2>1, <2>2, <2>3, <2>4
<1> QED  BY <1>1, <1>2, PTL DEF CallSpec

-----------------------------------------------------------------------------
\* Scatters

(* A step without a common divisor visits every row once.                   *)
LEMMA SateenRowsDiffer ==
  ASSUME NEW n \in Nat \ {0}, NEW step \in Nat, Coprime(step, n),
         NEW i \in 0..n - 1, NEW j \in 0..n - 1, (i * step) % n = (j * step) % n
  PROVE  i = j
<1> DEFINE u == i * step
           v == j * step
<1>1. u \in Int /\ v \in Int /\ u - v = (i - j) * step /\ u % n = v % n  OBVIOUS
<1> HIDE DEF u, v
<1>2. PICK k \in Int : u - v = k * n  BY <1>1, SameRestApart
<1>3. u - v \in Int /\ (u - v) % n = 0  BY <1>1, <1>2, NoRest
<1> DEFINE d == i - j
<1>7. d \in Int /\ (d * step) % n = 0  BY <1>1, <1>3
<1>8. d % n = 0
  <2> HIDE DEF d
  <2> QED  BY <1>7, Gauss
<1> DEFINE l == d \div n
<1>4. l \in Int /\ i - j = l * n
  <2>1. d = l * n /\ l \in Int
    <3> HIDE DEF d
    <3> QED  BY <1>7, <1>8, DivMod, NoRest
  <2> QED  BY <2>1
<1> HIDE DEF l
<1>5. -n < l * n /\ l * n < n  BY <1>4
<1>6. l = 0  BY <1>4, <1>5, SmallMultiple
<1> QED  BY <1>4, <1>6

\* Along one axis: the square of the distance to the copy i tiles away, and the
\* distance to the nearest one.
Copy2(x, y, i, tile) == (x - y + i * tile) * (x - y + i * tile)
Shortest(x, y, tile) == Smaller(Abs(x - y), tile - Abs(x - y))

(* Of the copies of a point along one axis the nearest is as far as the     *)
(* distance on the torus says.                                              *)
LEMMA NearestCopy ==
  ASSUME NEW tile \in Nat \ {0}, NEW x \in 0..tile - 1, NEW y \in 0..tile - 1
  PROVE  /\ Shortest(x, y, tile) \in Nat
         /\ \E i \in {-1, 0, 1} : Copy2(x, y, i, tile) = Shortest(x, y, tile) * Shortest(x, y, tile)
         /\ \A i \in {-1, 0, 1} : Shortest(x, y, tile) * Shortest(x, y, tile) <= Copy2(x, y, i, tile)
<1> DEFINE d == x - y
           m == Shortest(x, y, tile)
<1>1. d \in Int /\ -tile < d /\ d < tile  OBVIOUS
<1> HIDE DEF d, m
<1>2. m = IF Abs(d) < tile - Abs(d) THEN Abs(d) ELSE tile - Abs(d)  BY DEF d, m, Shortest, Smaller
<1>3. m \in Nat /\ (m = d \/ m = -d \/ m = tile - d \/ m = tile + d)  BY <1>1, <1>2 DEF Abs
<1>4. \A i \in {-1, 0, 1} : m <= d + i * tile \/ m <= -(d + i * tile)  BY <1>1, <1>2 DEF Abs
<1>5. \A i \in {-1, 0, 1} : m * m <= (d + i * tile) * (d + i * tile)
  <2> TAKE i \in {-1, 0, 1}
  <2> DEFINE e == d + i * tile
  <2>1. e \in Int /\ (m <= e \/ m <= -e)  BY <1>1, <1>4
  <2> HIDE DEF e
  <2>2. CASE m <= e
    <3>1. (e - m) * (e + m) >= 0  BY <1>3, <2>1, <2>2
    <3>2. (e - m) * (e + m) = e * e - m * m  BY <1>3, <2>1
    <3>3. e * e \in Int /\ m * m \in Int  BY <1>3, <2>1
    <3>4. m * m <= e * e  BY <3>1, <3>2, <3>3
    <3> QED  BY <3>4 DEF e
  <2>3. CASE m <= -e
    <3>1. (-e - m) * (m - e) >= 0  BY <1>3, <2>1, <2>3
    <3>2. (-e - m) * (m - e) = e * e - m * m  BY <1>3, <2>1
    <3>3. e * e \in Int /\ m * m \in Int  BY <1>3, <2>1
    <3>4. m * m <= e * e  BY <3>1, <3>2, <3>3
    <3> QED  BY <3>4 DEF e
  <2> QED  BY <2>1, <2>2, <2>3
<1>6. \E i \in {-1, 0, 1} : (d + i * tile) * (d + i * tile) = m * m
  <2>1. CASE m = d \/ m = -d
    <3>1. (d + 0 * tile) * (d + 0 * tile) = m * m
      <4>1. d + 0 * tile = d /\ (-d) * (-d) = d * d  BY <1>1
      <4> QED  BY <2>1, <4>1
    <3> QED  BY <3>1
  <2>2. CASE m = tile - d
    <3>1. (d + (-1) * tile) * (d + (-1) * tile) = m * m
      <4>1. d + (-1) * tile = -m /\ (-m) * (-m) = m * m  BY <1>1, <1>3, <2>2
      <4> QED  BY <4>1
    <3> QED  BY <3>1
  <2>3. CASE m = tile + d
    <3>1. (d + 1 * tile) * (d + 1 * tile) = m * m
      <4>1. d + 1 * tile = m  BY <1>1, <2>3
      <4> QED  BY <4>1
    <3> QED  BY <3>1
  <2> QED  BY <1>3, <2>1, <2>2, <2>3
<1> QED  BY <1>3, <1>5, <1>6 DEF d, m, Copy2

LEMMA NearMeans ==
  ASSUME NEW tile \in Nat \ {0}, NEW dist \in Nat \ {0},
         NEW a \in (0..tile - 1) \X (0..tile - 1), NEW b \in (0..tile - 1) \X (0..tile - 1)
  PROVE  /\ NearOnTorus(a, b, dist, tile) <=> TorusDist2(a, b, tile) < dist * dist
         /\ TorusDist2(a, b, tile) \in Nat
         /\ TorusDist2(a, b, tile) = TorusDist2(b, a, tile)
         /\ a = b => NearOnTorus(a, b, dist, tile)
<1> DEFINE m == Shortest(a[1], b[1], tile)
           n == Shortest(a[2], b[2], tile)
           X(i) == Copy2(a[1], b[1], i, tile)
           Y(i) == Copy2(a[2], b[2], i, tile)
<1>0. a[1] \in 0..tile - 1 /\ a[2] \in 0..tile - 1 /\ b[1] \in 0..tile - 1 /\ b[2] \in 0..tile - 1
        /\ a = <<a[1], a[2]>> /\ b = <<b[1], b[2]>>
  OBVIOUS
<1>1. /\ m \in Nat
      /\ \E i \in {-1, 0, 1} : X(i) = m * m
      /\ \A i \in {-1, 0, 1} : m * m <= X(i)
  BY <1>0, NearestCopy
<1>2. /\ n \in Nat
      /\ \E i \in {-1, 0, 1} : Y(i) = n * n
      /\ \A i \in {-1, 0, 1} : n * n <= Y(i)
  BY <1>0, NearestCopy
<1>3. TorusDist2(a, b, tile) = m * m + n * n  BY DEF TorusDist2, Shortest
<1>4. NearOnTorus(a, b, dist, tile) <=> \E i, j \in {-1, 0, 1} : X(i) + Y(j) < dist * dist
  BY DEF NearOnTorus, Copy2
<1>5. \A i \in {-1, 0, 1} : X(i) \in Int /\ Y(i) \in Int  BY <1>0 DEF Copy2
<1>6. TorusDist2(b, a, tile) = m * m + n * n
  <2>1. Abs(a[1] - b[1]) = Abs(b[1] - a[1]) /\ Abs(a[2] - b[2]) = Abs(b[2] - a[2])
    BY <1>0 DEF Abs
  <2> QED  BY <2>1 DEF TorusDist2, Shortest
<1>7. a = b => m = 0 /\ n = 0
  <2> SUFFICES ASSUME a = b PROVE m = 0 /\ n = 0  OBVIOUS
  <2>1. Abs(a[1] - b[1]) = 0 /\ Abs(a[2] - b[2]) = 0  BY <1>0 DEF Abs
  <2> QED  BY <2>1 DEF Smaller, Shortest
<1>8. dist * dist \in Nat \ {0}  BY TimesPositive
<1> HIDE DEF m, n, X, Y
<1> DEFINE mm == m * m
           nn == n * n
           dd == dist * dist
<1>9. mm \in Nat /\ nn \in Nat /\ dd \in Nat \ {0} /\ (a = b => mm = 0 /\ nn = 0)  BY <1>1, <1>2, <1>7, <1>8
<1>10. (\E i \in {-1, 0, 1} : X(i) = mm) /\ (\E j \in {-1, 0, 1} : Y(j) = nn)
        /\ \A i \in {-1, 0, 1} : mm <= X(i) /\ nn <= Y(i)
  BY <1>1, <1>2
<1>11. NearOnTorus(a, b, dist, tile) <=> \E i, j \in {-1, 0, 1} : X(i) + Y(j) < dd  BY <1>4
<1>12. TorusDist2(a, b, tile) = mm + nn /\ TorusDist2(b, a, tile) = mm + nn  BY <1>3, <1>6
<1> HIDE DEF mm, nn, dd
<1>13. NearOnTorus(a, b, dist, tile) <=> mm + nn < dd
  <2>1. ASSUME mm + nn < dd PROVE NearOnTorus(a, b, dist, tile)
    <3>1. PICK i \in {-1, 0, 1} : X(i) = mm  BY <1>10
    <3>2. PICK j \in {-1, 0, 1} : Y(j) = nn  BY <1>10
    <3>3. X(i) + Y(j) < dd  BY <2>1, <3>1, <3>2
    <3> QED  BY <1>11, <3>3
  <2>2. ASSUME NearOnTorus(a, b, dist, tile) PROVE mm + nn < dd
    <3>1. PICK i, j \in {-1, 0, 1} : X(i) + Y(j) < dd  BY <1>11, <2>2
    <3>2. mm <= X(i) /\ nn <= Y(j) /\ X(i) \in Int /\ Y(j) \in Int  BY <1>5, <1>10
    <3> QED  BY <1>9, <3>1, <3>2
  <2> QED  BY <2>1, <2>2
<1>14. a = b => NearOnTorus(a, b, dist, tile)  BY <1>9, <1>13
<1>15. NearOnTorus(a, b, dist, tile) <=> TorusDist2(a, b, tile) < dist * dist
  BY <1>12, <1>13 DEF dd
<1> QED  BY <1>9, <1>12, <1>14, <1>15

\* One dart: kept if there is room and it is far enough from those kept.
Throw(kept, dart, dist, count, tile) ==
  IF /\ Len(kept) < count
     /\ \A i \in DOMAIN kept : TorusDist2(dart, kept[i], tile) >= dist * dist
  THEN Append(kept, dart)
  ELSE kept

\* g has the darts that are kept of the first k, for each k up to n.
Thrown(g, n, darts, dist, count, tile) ==
  /\ g[0] = <<>>
  /\ \A k \in 1..n : g[k] = Throw(g[k - 1], darts[k], dist, count, tile)

(* What PlacePoisson computes: there is such a function.                    *)
LEMMA PlacePoissonIs ==
  ASSUME NEW n \in Nat, NEW darts, Len(darts) = n, NEW dist, NEW count, NEW tile
  PROVE  \E g : Thrown(g, n, darts, dist, count, tile)
                 /\ PlacePoisson(darts, dist, count, tile) = g[n]
<1> DEFINE Keeps(m, g) ==
             /\ g = [i \in 0..m |-> g[i]] /\ g[0] = <<>>
             /\ \A k \in 1..m : g[k] = Throw(g[k - 1], darts[k], dist, count, tile)
           good == {m \in 0..n : \E g : Keeps(m, g)}
<1>1. \A m \in 0..n : m \in good
  <2>1. 0 \in good
    <3>1. Keeps(0, [i \in 0..0 |-> <<>>])  OBVIOUS
    <3>2. 0 \in 0..n  OBVIOUS
    <3> HIDE DEF Keeps
    <3> QED  BY <3>1, <3>2
  <2>2. ASSUME NEW m \in 0..n - 1, m \in good PROVE m + 1 \in good
    <3>1. PICK g : Keeps(m, g)  BY <2>2
    <3> DEFINE last == Throw(g[m], darts[m + 1], dist, count, tile)
               h == [i \in 0..m + 1 |-> IF i = m + 1 THEN last ELSE g[i]]
    <3> HIDE DEF last
    <3>3. h = [i \in 0..m + 1 |-> h[i]] /\ h[0] = <<>>
      <4>1. 0 \in 0..m + 1 /\ 0 # m + 1  OBVIOUS
      <4>2. h[0] = g[0]  BY <4>1
      <4> QED  BY <3>1, <4>2
    <3>4. ASSUME NEW k \in 1..m + 1
          PROVE  h[k] = Throw(h[k - 1], darts[k], dist, count, tile)
      <4>1. k - 1 \in 0..m + 1 /\ k - 1 # m + 1  OBVIOUS
      <4>4. h[k - 1] = g[k - 1]  BY <4>1
      <4>2. CASE k = m + 1
        <5>1. h[k] = last /\ k - 1 = m  BY <4>2
        <5>2. h[k] = Throw(g[k - 1], darts[k], dist, count, tile)  BY <4>2, <5>1 DEF last
        <5> HIDE DEF h
        <5> QED  BY <4>4, <5>2
      <4>3. CASE k # m + 1
        <5>1. k \in 1..m /\ h[k] = g[k]  BY <4>3
        <5>2. g[k] = Throw(g[k - 1], darts[k], dist, count, tile)  BY <3>1, <5>1
        <5> HIDE DEF h
        <5> QED  BY <4>4, <5>1, <5>2
      <4> QED  BY <4>2, <4>3
    <3> HIDE DEF h
    <3>5. Keeps(m + 1, h)  BY <3>3, <3>4
    <3>6. m + 1 \in 0..n  OBVIOUS
    <3> HIDE DEF Keeps
    <3> QED  BY <3>5, <3>6
  <2> HIDE DEF good
  <2> QED  BY <2>1, <2>2, UpTo
<1>2. PICK g : Keeps(n, g)
  <2>1. n \in 0..n  OBVIOUS
  <2>2. n \in good  BY <1>1, <2>1
  <2> HIDE DEF Keeps
  <2> QED  BY <2>2
<1> DEFINE Next0(f) == [i \in 0..n |-> IF i = 0 THEN <<>>
                                      ELSE IF /\ Len(f[i - 1]) < count
                                              /\ \A j \in DOMAIN f[i - 1] :
                                                   TorusDist2(darts[i], f[i - 1][j], tile) >= dist * dist
                                           THEN Append(f[i - 1], darts[i])
                                           ELSE f[i - 1]]
           kept == CHOOSE f : f = Next0(f)
<1>4. PlacePoisson(darts, dist, count, tile) = kept[n]  BY DEF PlacePoisson
<1>5. \A f : Next0(f) = [i \in 0..n |-> IF i = 0 THEN <<>>
                                       ELSE Throw(f[i - 1], darts[i], dist, count, tile)]
  BY DEF Throw
<1> HIDE DEF Next0
<1>6. g = Next0(g)
  <2>1. g = [i \in 0..n |-> g[i]] /\ g[0] = <<>>
          /\ \A k \in 1..n : g[k] = Throw(g[k - 1], darts[k], dist, count, tile)
    BY <1>2
  <2>2. \A i \in 0..n : g[i] = IF i = 0 THEN <<>> ELSE Throw(g[i - 1], darts[i], dist, count, tile)
    <3> TAKE i \in 0..n
    <3>1. CASE i = 0  BY <2>1, <3>1
    <3>2. CASE i # 0
      <4>1. i \in 1..n  BY <3>2
      <4> QED  BY <2>1, <3>2, <4>1
    <3> QED  BY <3>1, <3>2
  <2> QED  BY <1>5, <2>1, <2>2
<1>7. kept = Next0(kept)  BY <1>6
<1> HIDE DEF kept
<1>8. kept[0] = <<>> /\ \A k \in 1..n : kept[k] = Throw(kept[k - 1], darts[k], dist, count, tile)
  <2>1. \A i \in 0..n : kept[i] = IF i = 0 THEN <<>>
                                  ELSE Throw(kept[i - 1], darts[i], dist, count, tile)
    BY <1>5, <1>7
  <2> QED  BY <2>1
<1> QED  BY <1>4, <1>8 DEF Thrown

\* What holds of the darts that are kept when k of them are thrown.
WellKept(kept, k, darts, dist, count, tile) ==
  /\ kept \in Seq((0..tile - 1) \X (0..tile - 1))
  /\ Len(kept) <= count
  /\ \A i, j \in 1..Len(kept) : i # j => TorusDist2(kept[i], kept[j], tile) >= dist * dist
  /\ Len(kept) < count =>
       \A h \in 1..k : \E i \in 1..Len(kept) : TorusDist2(darts[h], kept[i], tile) < dist * dist

LEMMA ThrowKeepsWell ==
  ASSUME NEW tile \in Nat \ {0}, NEW dist \in Nat \ {0}, NEW count \in Nat, NEW k \in Nat,
         NEW darts, NEW kept, WellKept(kept, k, darts, dist, count, tile),
         darts[k + 1] \in (0..tile - 1) \X (0..tile - 1)
  PROVE  WellKept(Throw(kept, darts[k + 1], dist, count, tile), k + 1, darts, dist, count, tile)
<1> DEFINE Pts  == (0..tile - 1) \X (0..tile - 1)
           dart == darts[k + 1]
           far  == dist * dist
           D(a, b) == TorusDist2(a, b, tile)
           new  == Throw(kept, dart, dist, count, tile)
<1>1. /\ kept \in Seq(Pts) /\ Len(kept) <= count
      /\ \A i, j \in 1..Len(kept) : i # j => D(kept[i], kept[j]) >= far
      /\ Len(kept) < count => \A h \in 1..k : \E i \in 1..Len(kept) : D(darts[h], kept[i]) < far
      /\ dart \in Pts
  BY DEF WellKept
<1>2. \A a, b \in Pts : D(a, b) \in Nat /\ D(a, b) = D(b, a) /\ (a = b => D(a, b) < far)
  BY NearMeans
<1>3. DOMAIN kept = 1..Len(kept) /\ Len(kept) \in Nat /\ far \in Nat /\ \A i \in 1..Len(kept) : kept[i] \in Pts
  BY <1>1
<1>4. WellKept(new, k + 1, darts, dist, count, tile) <=>
        /\ new \in Seq(Pts) /\ Len(new) <= count
        /\ \A i, j \in 1..Len(new) : i # j => D(new[i], new[j]) >= far
        /\ Len(new) < count => \A h \in 1..k + 1 : \E i \in 1..Len(new) : D(darts[h], new[i]) < far
  BY DEF WellKept
<1>5. new = IF Len(kept) < count /\ \A i \in 1..Len(kept) : D(dart, kept[i]) >= far
            THEN Append(kept, dart) ELSE kept
  BY <1>3 DEF Throw
<1> HIDE DEF Pts, far, D, new
<1>6. ASSUME Len(kept) < count /\ \A i \in 1..Len(kept) : D(dart, kept[i]) >= far
      PROVE  WellKept(new, k + 1, darts, dist, count, tile)
  <2> DEFINE n == Len(kept)
  <2>1. /\ new \in Seq(Pts) /\ Len(new) = n + 1 /\ new[n + 1] = dart
        /\ \A i \in 1..n : new[i] = kept[i]
    BY <1>1, <1>5, <1>6
  <2>2. n \in Nat /\ n + 1 <= count  BY <1>3, <1>6
  <2>3. \A i \in 1..n : kept[i] \in Pts /\ D(dart, kept[i]) >= far /\ D(kept[i], dart) >= far
    BY <1>1, <1>2, <1>3, <1>6
  <2>4. D(dart, dart) < far  BY <1>1, <1>2
  <2>5. n < count  BY <1>6
  <2> HIDE DEF n, dart
  <2>6. ASSUME NEW i \in 1..n + 1, NEW j \in 1..n + 1, i # j PROVE D(new[i], new[j]) >= far
    <3>1. CASE i = n + 1
      <4>1. j \in 1..n  BY <2>2, <2>6, <3>1
      <4> QED  BY <2>1, <2>3, <3>1, <4>1
    <3>2. CASE j = n + 1
      <4>1. i \in 1..n  BY <2>2, <2>6, <3>2
      <4> QED  BY <2>1, <2>3, <3>2, <4>1
    <3>3. CASE i # n + 1 /\ j # n + 1
      <4>1. i \in 1..n /\ j \in 1..n  BY <2>2, <3>3
      <4> QED  BY <1>1, <2>1, <2>6, <4>1 DEF n
    <3> QED  BY <3>1, <3>2, <3>3
  <2>7. ASSUME NEW h \in 1..k + 1 PROVE \E i \in 1..n + 1 : D(darts[h], new[i]) < far
    <3>1. CASE h = k + 1
      <4>1. darts[h] = dart /\ n + 1 \in 1..n + 1  BY <2>2, <3>1 DEF dart
      <4> QED  BY <2>1, <2>4, <4>1
    <3>2. CASE h # k + 1
      <4>1. h \in 1..k  BY <3>2
      <4>2. PICK i \in 1..n : D(darts[h], kept[i]) < far  BY <1>1, <1>6, <4>1 DEF n
      <4>3. i \in 1..n + 1 /\ new[i] = kept[i]  BY <2>1, <2>2
      <4> QED  BY <4>2, <4>3
    <3> QED  BY <3>1, <3>2
  <2> QED  BY <1>4, <2>1, <2>2, <2>6, <2>7
<1>7. ASSUME ~(Len(kept) < count /\ \A i \in 1..Len(kept) : D(dart, kept[i]) >= far)
      PROVE  WellKept(new, k + 1, darts, dist, count, tile)
  <2>1. new = kept  BY <1>5, <1>7
  <2>2. ASSUME Len(kept) < count, NEW h \in 1..k + 1
        PROVE  \E i \in 1..Len(kept) : D(darts[h], kept[i]) < far
    <3>1. CASE h = k + 1
      <4>1. PICK i \in 1..Len(kept) : ~(D(dart, kept[i]) >= far)  BY <1>7, <2>2
      <4>2. D(dart, kept[i]) \in Nat  BY <1>1, <1>2, <1>3
      <4>3. D(dart, kept[i]) < far  BY <1>3, <4>1, <4>2
      <4> QED  BY <3>1, <4>3
    <3>2. CASE h # k + 1
      <4>1. h \in 1..k  BY <3>2
      <4> QED  BY <1>1, <2>2, <4>1
    <3> QED  BY <3>1, <3>2
  <2> QED  BY <1>1, <1>4, <2>1, <2>2
<1>8. WellKept(new, k + 1, darts, dist, count, tile)  BY <1>6, <1>7
<1> QED  BY <1>8 DEF new

LEMMA PoissonWellKept ==
  ASSUME NEW tile \in Nat \ {0}, NEW dist \in Nat \ {0}, NEW count \in Nat, NEW n \in Nat,
         NEW darts \in [1..n -> (0..tile - 1) \X (0..tile - 1)]
  PROVE  WellKept(PlacePoisson(darts, dist, count, tile), n, darts, dist, count, tile)
<1> DEFINE Pts == (0..tile - 1) \X (0..tile - 1)
<1>0. Len(darts) = n
  <2>1. darts \in Seq(Pts)  OBVIOUS
  <2> QED  BY <2>1
<1>5. PICK g : Thrown(g, n, darts, dist, count, tile) /\ PlacePoisson(darts, dist, count, tile) = g[n]
  BY <1>0, PlacePoissonIs
<1>1. /\ g[0] = <<>>
      /\ \A k \in 1..n : g[k] = Throw(g[k - 1], darts[k], dist, count, tile)
      /\ PlacePoisson(darts, dist, count, tile) = g[n]
  BY <1>5 DEF Thrown
<1> DEFINE well == {k \in 0..n : WellKept(g[k], k, darts, dist, count, tile)}
<1>2. 0 \in well
  <2>1. WellKept(<<>>, 0, darts, dist, count, tile)  BY DEF WellKept
  <2> QED  BY <1>1, <2>1
<1>3. ASSUME NEW k \in 0..n - 1, k \in well PROVE k + 1 \in well
  <2>1. k \in Nat /\ k + 1 \in 1..n /\ (k + 1) - 1 = k  OBVIOUS
  <2>2. g[k + 1] = Throw(g[k], darts[k + 1], dist, count, tile)  BY <1>1, <2>1
  <2>3. darts[k + 1] \in (0..tile - 1) \X (0..tile - 1)  BY <2>1
  <2>4. WellKept(g[k], k, darts, dist, count, tile)  BY <1>3
  <2>5. WellKept(Throw(g[k], darts[k + 1], dist, count, tile), k + 1, darts, dist, count, tile)
    BY <2>1, <2>3, <2>4, ThrowKeepsWell
  <2>6. k + 1 \in 0..n  BY <2>1
  <2> QED  BY <2>2, <2>5, <2>6
<1>4. n \in well
  <2>1. n \in 0..n  OBVIOUS
  <2> HIDE DEF well
  <2> QED  BY <1>2, <1>3, <2>1, UpTo
<1> QED  BY <1>1, <1>4

LEMMA CallSateenSpread == ASSUME CallSateen PROVE ScatterSpread'
<1>1. PICK n \in 2..MaxSateen, step \in 1..2 * MaxSateen :
         /\ SateenValid(n, step)
         /\ call' = [op |-> "place_sateen", n |-> n, out |-> PlaceSateen(n, step)]
  BY DEF CallSateen
<1>2. n \in Nat \ {0} /\ step \in Nat /\ Coprime(step, n)  BY <1>1, LengthsAssumption DEF SateenValid
<1>3. DOMAIN call'.out = 0..n - 1 /\ \A i \in 0..n - 1 : call'.out[i] = (i * step) % n
  BY <1>1 DEF PlaceSateen
<1>4. \A i, j \in 0..n - 1 : (i * step) % n = (j * step) % n => i = j  BY <1>2, SateenRowsDiffer
<1>5. call'.op # "place_poisson"  BY <1>1
<1>6. \A i, j \in DOMAIN call'.out : call'.out[i] = call'.out[j] => i = j  BY <1>3, <1>4
<1> QED  BY <1>5, <1>6 DEF ScatterSpread

LEMMA CallPoissonSpread == ASSUME CallPoisson PROVE ScatterSpread'
<1> DEFINE Pts == (0..DartTile - 1) \X (0..DartTile - 1)
<1>1. PICK dist \in Lengths, count \in 1..MaxDarts, darts \in [1..MaxDarts -> Pts] :
         call' = [op |-> "place_poisson", tile |-> DartTile, dist |-> dist,
                  count |-> count, darts |-> darts,
                  out |-> PlacePoisson(darts, dist, count, DartTile)]
  BY DEF CallPoisson
<1> DEFINE out == PlacePoisson(darts, dist, count, DartTile)
           D(a, b) == TorusDist2(a, b, DartTile)
           near(a, b) == NearOnTorus(a, b, dist, DartTile)
<1>2. DartTile \in Nat \ {0} /\ dist \in Nat \ {0} /\ count \in Nat /\ MaxDarts \in Nat
  BY LengthsAssumption
<1>3. WellKept(out, MaxDarts, darts, dist, count, DartTile)  BY <1>2, PoissonWellKept
<1> HIDE DEF out
<1>4. /\ out \in Seq(Pts) /\ Len(out) <= count
      /\ \A i, j \in 1..Len(out) : i # j => D(out[i], out[j]) >= dist * dist
      /\ Len(out) < count =>
           \A h \in 1..MaxDarts : \E i \in 1..Len(out) : D(darts[h], out[i]) < dist * dist
  BY <1>3 DEF WellKept
<1>5. DOMAIN out = 1..Len(out) /\ \A i \in 1..Len(out) : out[i] \in Pts  BY <1>4
<1>6. DOMAIN darts = 1..MaxDarts /\ \A h \in 1..MaxDarts : darts[h] \in Pts  OBVIOUS
<1>7. \A a, b \in Pts : (near(a, b) <=> D(a, b) < dist * dist) /\ D(a, b) \in Nat
  BY <1>2, NearMeans
<1>8. dist * dist \in Nat  BY <1>2, TimesPositive
<1> HIDE DEF Pts, D, near
<1>9. ASSUME NEW i \in DOMAIN out, NEW j \in DOMAIN out, i # j PROVE ~near(out[i], out[j])
  <2>1. D(out[i], out[j]) >= dist * dist  BY <1>4, <1>5, <1>9
  <2>2. out[i] \in Pts /\ out[j] \in Pts  BY <1>5
  <2> QED  BY <1>7, <1>8, <2>1, <2>2
<1>10. ASSUME Len(out) < count, NEW k \in DOMAIN darts
       PROVE  \E p \in {out[i] : i \in DOMAIN out} : near(darts[k], p)
  <2>1. PICK i \in 1..Len(out) : D(darts[k], out[i]) < dist * dist  BY <1>4, <1>6, <1>10
  <2>2. near(darts[k], out[i])  BY <1>5, <1>6, <1>7, <2>1
  <2> QED  BY <1>5, <2>2
<1>11. /\ call'.op = "place_poisson" /\ call'.tile = DartTile /\ call'.dist = dist
       /\ call'.count = count /\ call'.darts = darts /\ call'.out = out
  BY <1>1 DEF out
<1> QED  BY <1>4, <1>9, <1>10, <1>11 DEF ScatterSpread, near

(* The points of a scatter are apart, on a torus of any size and for any    *)
(* darts, and no dart is given up without need.                             *)
THEOREM TorusScatterSpread == CallSpec => []ScatterSpread
<1>1. CallInit => ScatterSpread  BY DEF CallInit, NoCall, ScatterSpread
<1>2. ScatterSpread /\ [CallNext]_call => ScatterSpread'
  <2> SUFFICES ASSUME ScatterSpread, [CallNext]_call PROVE ScatterSpread'  OBVIOUS
  <2>1. CASE CallSateen  BY <2>1, CallSateenSpread
  <2>2. CASE CallPoisson  BY <2>2, CallPoissonSpread
  <2>3. CASE call'.op \notin {"place_sateen", "place_poisson"}  BY <2>3 DEF ScatterSpread
  <2>4. CASE UNCHANGED call  BY <2>4 DEF ScatterSpread
  <2>5. ASSUME CallNext, ~CallSateen, ~CallPoisson
        PROVE  call'.op \notin {"place_sateen", "place_poisson"}
    BY <2>5, CallsAreNamed DEF CallNext
  <2> QED  BY <2>1, <2>2, <2>3, <2>4, <2>5
<1> QED  BY <1>1, <1>2, PTL DEF CallSpec

-----------------------------------------------------------------------------
\* Snapped directions

(* The parts of a fraction have no common divisor.                          *)
LEMMA FractionParts ==
  ASSUME NEW f \in Fractions
  PROVE  /\ f[1] \in Nat /\ f[2] \in Nat \ {0} /\ f[1] <= f[2] /\ f[2] <= MaxLanePeriodTiles
         /\ Coprime(f[1], f[2]) /\ Coprime(f[2], f[1])
         /\ f = <<f[1], f[2]>>
<1>1. f \in (0..MaxLanePeriodTiles) \X (1..MaxLanePeriodTiles) /\ f[1] <= f[2]
        /\ (f = <<0, 1>> \/ Coprime(f[1], f[2]))
  BY DEF Fractions
<1>2. Coprime(0, 1)
  <2>1. Larger(0, 1) = 1  BY DEF Larger
  <2> QED  BY <2>1 DEF Coprime
<1>3. Coprime(f[1], f[2])
  <2>1. f = <<0, 1>> => f[1] = 0 /\ f[2] = 1  OBVIOUS
  <2> QED  BY <1>1, <1>2, <2>1
<1>4. f[1] \in Nat /\ f[2] \in Nat \ {0} /\ f[1] <= f[2] /\ f[2] <= MaxLanePeriodTiles /\ f = <<f[1], f[2]>>
  BY <1>1, CapsAssumption
<1>5. Coprime(f[2], f[1])
  <2>1. Larger(f[1], f[2]) = Larger(f[2], f[1])  BY <1>4 DEF Larger
  <2> QED  BY <1>3, <2>1 DEF Coprime
<1> QED  BY <1>3, <1>4, <1>5

(* Numbers that divide each other are equal.                                *)
LEMMA DivideEachOther ==
  ASSUME NEW a \in Nat \ {0}, NEW b \in Nat \ {0}, a % b = 0, b % a = 0
  PROVE  a = b
<1>1. \A x, y \in Nat \ {0} : x % y = 0 => y <= x
  <2> TAKE x, y \in Nat \ {0}
  <2> HAVE x % y = 0
  <2> DEFINE k == x \div y
  <2>1. k \in Int /\ x = k * y  BY DivMod, NoRest
  <2> HIDE DEF k
  <2>2. k <= 0 => (-k) * y >= 0  BY <2>1
  <2>3. k >= 1 => (k - 1) * y >= 0  BY <2>1
  <2> QED  BY <2>1, <2>2, <2>3
<1> QED  BY <1>1

(* A fraction in its lowest terms is written in one way.                    *)
LEMMA FractionUnique ==
  ASSUME NEW f \in Fractions, NEW g \in Fractions, f[1] * g[2] = g[1] * f[2]
  PROVE  f = g
<1> DEFINE a == f[1]
           b == f[2]
           c == g[1]
           d == g[2]
<1>1. /\ a \in Nat /\ b \in Nat \ {0} /\ Coprime(a, b) /\ f = <<a, b>>
      /\ c \in Nat /\ d \in Nat \ {0} /\ Coprime(c, d) /\ g = <<c, d>>
      /\ a * d = c * b
  BY FractionParts
<1> HIDE DEF a, b, c, d
<1>2. d % b = 0
  <2>1. d * a = c * b /\ d * a \in Int  BY <1>1
  <2> DEFINE x == d * a
  <2>2. x = c * b /\ x \in Int  BY <2>1
  <2>3. x % b = 0
    <3> HIDE DEF x
    <3> QED  BY <1>1, <2>2, MultipleOf
  <2> QED  BY <1>1, <2>3, Gauss
<1>3. b % d = 0
  <2>1. b * c = a * d /\ b * c \in Int  BY <1>1
  <2> DEFINE x == b * c
  <2>2. x = a * d /\ x \in Int  BY <2>1
  <2>3. x % d = 0
    <3> HIDE DEF x
    <3> QED  BY <1>1, <2>2, MultipleOf
  <2> QED  BY <1>1, <2>3, Gauss
<1>4. b = d  BY <1>1, <1>2, <1>3, DivideEachOther
<1>5. a = c  BY <1>1, <1>4, Cancel
<1> QED  BY <1>1, <1>4, <1>5

(* Every slope of at most 1 with a small denominator is such a fraction.    *)
LEMMA Reduced ==
  ASSUME NEW x \in Nat, NEW y \in Nat \ {0}, x <= y, y <= MaxLanePeriodTiles
  PROVE  \E f \in Fractions : f[1] * y = x * f[2] /\ f[2] <= y
<1> DEFINE S == {d \in Nat \ {0} : \E c \in Nat : c * y = x * d}
<1>1. PICK d \in S : \A e \in S : d <= e
  <2>1. y \in S  OBVIOUS
  <2>2. S \subseteq Nat /\ S # {}  BY <2>1
  <2> HIDE DEF S
  <2> QED  BY <2>2, LeastNatural
<1>2. PICK c \in Nat : c * y = x * d  BY <1>1
<1>3. d \in Nat \ {0} /\ d <= y  BY <1>1
<1>4. c <= d
  <2>1. (y - x) * d >= 0  BY <1>3
  <2>2. c * y <= d * y
    <3>1. (y - x) * d = d * y - x * d  BY <1>3
    <3>2. d * y \in Int /\ x * d \in Int  BY <1>3
    <3> QED  BY <1>2, <2>1, <3>1, <3>2
  <2> QED  BY <1>3, <2>2, Cancel
<1>5. Coprime(c, d)
  <2> SUFFICES ASSUME NEW e \in 2..Larger(c, d), c % e = 0, d % e = 0 PROVE FALSE  BY DEF Coprime
  <2>1. e \in Nat \ {0} /\ e >= 2  BY <1>3 DEF Larger
  <2> DEFINE i == c \div e
             j == d \div e
  <2>2. i \in Int /\ c = i * e /\ j \in Int /\ d = j * e  BY <1>3, <2>1, DivMod, NoRest
  <2> HIDE DEF i, j
  <2>3. i >= 0
    <3>1. i <= -1 => (-1 - i) * e >= 0  BY <2>1, <2>2
    <3> QED  BY <2>1, <2>2, <3>1
  <2>4. j >= 1 /\ j < d
    <3>1. j <= 0 => (-j) * e >= 0  BY <2>1, <2>2
    <3>2. j >= 1  BY <1>3, <2>1, <2>2, <3>1
    <3>3. j * (e - 2) >= 0 /\ j * (e - 2) = j * e - 2 * j  BY <2>1, <2>2, <3>2
    <3> QED  BY <1>3, <2>2, <3>2, <3>3
  <2>5. i * y = x * j
    <3>1. (i * y) * e = (x * j) * e
      <4>1. (i * y) * e = (i * e) * y /\ (x * j) * e = x * (j * e)  BY <2>1, <2>2
      <4> QED  BY <1>2, <2>2, <4>1
    <3>2. i * y \in Int /\ x * j \in Int  BY <2>2
    <3> QED  BY <2>1, <3>1, <3>2, Cancel
  <2>6. j \in S  BY <2>2, <2>3, <2>4, <2>5
  <2>7. d <= j
    <3> HIDE DEF S
    <3> QED  BY <1>1, <2>6
  <2> QED  BY <1>3, <2>2, <2>4, <2>7
<1> DEFINE f == <<c, d>>
<1>6. f \in Fractions  BY <1>3, <1>4, <1>5, CapsAssumption DEF Fractions
<1>7. f[1] = c /\ f[2] = d  OBVIOUS
<1> HIDE DEF f
<1> QED  BY <1>2, <1>3, <1>6, <1>7

(* Some number is a multiple of every small one.                            *)
LEMMA CommonMultiple ==
  ASSUME NEW n \in Nat
  PROVE  \E m \in Nat \ {0} : \A d \in 1..n : m % d = 0
<1> DEFINE good == {k \in 0..n : \E m \in Nat \ {0} : \A d \in 1..k : m % d = 0}
<1>1. 0 \in good
  <2>1. 1 \in Nat \ {0} /\ \A d \in 1..0 : 1 % d = 0  OBVIOUS
  <2>2. \E m \in Nat \ {0} : \A d \in 1..0 : m % d = 0  BY <2>1
  <2> QED  BY <2>2
<1>2. ASSUME NEW k \in 0..n - 1, k \in good PROVE k + 1 \in good
  <2>1. PICK m \in Nat \ {0} : \A d \in 1..k : m % d = 0  BY <1>2
  <2> DEFINE l == m * (k + 1)
  <2>2. k + 1 \in Nat \ {0} /\ l \in Nat \ {0}  BY TimesPositive
  <2>3. ASSUME NEW d \in 1..k + 1 PROVE l % d = 0
    <3>1. CASE d = k + 1  BY <2>2, <3>1, MultipleOf
    <3>2. CASE d # k + 1
      <4>0. d \in 1..k  BY <2>3, <3>2
      <4>1. d \in Nat \ {0} /\ m % d = 0  BY <2>1, <4>0
      <4> DEFINE j == m \div d
      <4>2. j \in Int /\ m = j * d  BY <4>1, DivMod, NoRest
      <4> HIDE DEF j
      <4>3. l = (j * (k + 1)) * d /\ j * (k + 1) \in Int  BY <2>2, <4>1, <4>2
      <4> HIDE DEF l
      <4> QED  BY <4>1, <4>3, MultipleOf
    <3> QED  BY <3>1, <3>2
  <2>4. k + 1 \in 0..n  OBVIOUS
  <2> HIDE DEF l
  <2> QED  BY <2>2, <2>3, <2>4
<1>3. n \in good
  <2>1. n \in 0..n  OBVIOUS
  <2> HIDE DEF good
  <2> QED  BY <1>1, <1>2, <2>1, UpTo
<1> QED  BY <1>3

LEMMA TimesOrder ==
  ASSUME NEW t \in Nat \ {0}, NEW x \in Int, NEW y \in Int
  PROVE  x * t <= y * t <=> x <= y
<1>1. x <= y => (y - x) * t >= 0  OBVIOUS
<1>2. x <= y => x * t <= y * t  BY <1>1
<1> QED  BY <1>2, Cancel

(* Two misses compare over a common denominator as they do crosswise.       *)
LEMMA CompareMisses ==
  ASSUME NEW F \in Nat, NEW G \in Nat, NEW c \in Nat \ {0}, NEW d \in Nat \ {0}, NEW i \in Int,
         NEW j \in Int, i * c = j * d, i * c \in Nat \ {0}
  PROVE  F * i <= G * j <=> F * d <= G * c
<1> DEFINE t == c * d
           m == i * c
           x == F * i
           y == G * j
           u == F * d
           v == G * c
<1>1. t \in Nat \ {0} /\ m \in Nat \ {0}  BY TimesPositive
<1>2. x \in Int /\ y \in Int /\ u \in Int /\ v \in Int  OBVIOUS
<1>3. x * t = u * m
  <2>1. (F * i) * (c * d) = (F * d) * (i * c)  OBVIOUS
  <2> QED  BY <2>1
<1>4. y * t = v * m
  <2>1. (G * j) * (c * d) = (G * c) * (j * d)  OBVIOUS
  <2> QED  BY <2>1
<1> HIDE DEF t, m, x, y, u, v
<1>5. x <= y <=> u <= v  BY <1>1, <1>2, <1>3, <1>4, TimesOrder
<1> QED  BY <1>5 DEF x, y, u, v

LEMMA MissNat ==
  ASSUME NEW f \in Fractions, NEW a \in Nat, NEW b \in Nat
  PROVE  Miss(f, a, b) \in Nat
<1>1. f[1] \in Nat /\ f[2] \in Nat  BY FractionParts
<1>2. f[1] * b - a * f[2] \in Int  BY <1>1
<1> QED  BY <1>2 DEF Miss, Abs

\* No fraction is nearer to a / b, and none as near is simpler.
IsClosest(f, a, b) ==
  /\ f \in Fractions
  /\ \A g \in Fractions :
       /\ Miss(f, a, b) * g[2] <= Miss(g, a, b) * f[2]
       /\ Miss(f, a, b) * g[2] = Miss(g, a, b) * f[2] => f[2] <= g[2]

LEMMA ClosestExists ==
  ASSUME NEW a \in Nat, NEW b \in Nat \ {0}
  PROVE  \E f : IsClosest(f, a, b)
<1>1. PICK m \in Nat \ {0} : \A d \in 1..MaxLanePeriodTiles : m % d = 0
  BY CapsAssumption, CommonMultiple
<1> DEFINE key == [f \in Fractions |-> Miss(f, a, b) * (m \div f[2])]
           Keys == {key[f] : f \in Fractions}
<1>2. \A f \in Fractions : /\ Miss(f, a, b) \in Nat /\ f[2] \in Nat \ {0}
                           /\ m \div f[2] \in Nat \ {0} /\ (m \div f[2]) * f[2] = m
  <2> TAKE f \in Fractions
  <2>1. Miss(f, a, b) \in Nat /\ f[2] \in Nat \ {0} /\ f[2] \in 1..MaxLanePeriodTiles
    BY MissNat, FractionParts, CapsAssumption
  <2> DEFINE c == f[2]
             i == m \div c
  <2>2. c \in Nat \ {0} /\ m % c = 0  BY <1>1, <2>1
  <2> HIDE DEF c
  <2>3. i \in Int /\ m = i * c  BY <2>2, DivMod, NoRest
  <2> HIDE DEF i
  <2>4. i <= 0 => (-i) * c >= 0  BY <2>2, <2>3
  <2>5. i \in Nat \ {0} /\ i * c = m  BY <2>2, <2>3, <2>4
  <2> QED  BY <2>1, <2>5 DEF i, c
<1>3. \A f \in Fractions : key[f] = Miss(f, a, b) * (m \div f[2]) /\ key[f] \in Nat
  <2> TAKE f \in Fractions
  <2>1. Miss(f, a, b) \in Nat /\ m \div f[2] \in Nat  BY <1>2
  <2>2. key[f] = Miss(f, a, b) * (m \div f[2])  OBVIOUS
  <2> DEFINE x == Miss(f, a, b)
             y == m \div f[2]
  <2>3. x * y \in Nat
    <3>1. x \in Nat /\ y \in Nat  BY <2>1
    <3> HIDE DEF x, y
    <3> QED  BY <3>1
  <2> QED  BY <2>2, <2>3
<1>4. \A f, g \in Fractions :
        key[f] <= key[g] <=> Miss(f, a, b) * g[2] <= Miss(g, a, b) * f[2]
  <2> TAKE f, g \in Fractions
  <2> DEFINE F == Miss(f, a, b)
             G == Miss(g, a, b)
             c == f[2]
             d == g[2]
             i == m \div c
             j == m \div d
  <2>1. /\ F \in Nat /\ G \in Nat /\ c \in Nat \ {0} /\ d \in Nat \ {0} /\ i \in Int /\ j \in Int
        /\ i * c = j * d /\ i * c \in Nat \ {0}
    BY <1>2
  <2>2. key[f] = F * i /\ key[g] = G * j  BY <1>3
  <2> HIDE DEF F, G, c, d, i, j, key
  <2>3. F * i <= G * j <=> F * d <= G * c  BY <2>1, CompareMisses
  <2> QED  BY <2>2, <2>3 DEF F, G, c, d
<1> HIDE DEF key
<1>5. PICK k \in Keys : \A l \in Keys : k <= l
  <2>1. <<0, 1>> \in Fractions
    <3>1. 0 \in 0..MaxLanePeriodTiles /\ 1 \in 1..MaxLanePeriodTiles  BY CapsAssumption
    <3> QED  BY <3>1 DEF Fractions
  <2>2. Keys \subseteq Nat /\ Keys # {}  BY <1>3, <2>1
  <2> HIDE DEF Keys
  <2> QED  BY <2>2, LeastNatural
<1> DEFINE Dens == {d \in Nat : \E f \in Fractions : key[f] = k /\ d = f[2]}
<1>6. PICK d \in Dens : \A e \in Dens : d <= e
  <2>1. PICK f \in Fractions : k = key[f]  BY <1>5
  <2>2. f[2] \in Dens  BY <1>2, <2>1
  <2>3. Dens \subseteq Nat /\ Dens # {}  BY <2>2
  <2> HIDE DEF Dens
  <2> QED  BY <2>3, LeastNatural
<1>7. PICK f \in Fractions : key[f] = k /\ d = f[2]  BY <1>6
<1>8. ASSUME NEW g \in Fractions
      PROVE  /\ Miss(f, a, b) * g[2] <= Miss(g, a, b) * f[2]
             /\ Miss(f, a, b) * g[2] = Miss(g, a, b) * f[2] => f[2] <= g[2]
  <2>1. key[f] <= key[g]  BY <1>5, <1>7
  <2>2. ASSUME Miss(f, a, b) * g[2] = Miss(g, a, b) * f[2] PROVE f[2] <= g[2]
    <3> DEFINE x == Miss(g, a, b) * f[2]
    <3>1. x \in Int  BY <1>2
    <3>2. x <= Miss(f, a, b) * g[2]
      <4>1. x = Miss(f, a, b) * g[2]  BY <2>2
      <4> HIDE DEF x
      <4> QED  BY <3>1, <4>1
    <3>3. key[g] <= key[f]  BY <1>4, <3>2
    <3>4. key[g] = k  BY <1>3, <1>7, <2>1, <3>3
    <3>5. g[2] \in Dens  BY <1>2, <3>4
    <3> HIDE DEF Dens
    <3> QED  BY <1>6, <1>7, <3>5
  <2>3. Miss(f, a, b) * g[2] <= Miss(g, a, b) * f[2]  BY <1>4, <2>1
  <2> QED  BY <2>2, <2>3
<1>9. IsClosest(f, a, b)  BY <1>7, <1>8 DEF IsClosest
<1> QED  BY <1>9

(* A target halfway between two fractions of denominator d is at least as   *)
(* near to one with a smaller denominator.                                  *)
LEMMA HalfwaySimpler ==
  ASSUME NEW l \in Nat, NEW e \in Nat \ {0}, NEW d \in Nat \ {0, 1}, l + e <= d,
         NEW a \in Nat, NEW b \in Nat \ {0}, (2 * l + e) * b = 2 * (a * d),
         NEW h \in Nat, NEW k \in Nat \ {0}, h * (d - 1) = l * k
  PROVE  Abs(h * b - a * k) * d <= Abs(l * b - a * d) * k
<1> DEFINE y == d - 1
           X == h * b - a * k
           Y == l * b - a * y
           Z == l * b - a * d
           w == 2 * l - e * y
<1>1. y \in Nat \ {0} /\ d = y + 1 /\ h * y = l * k  OBVIOUS
<1> HIDE DEF y
<1>2. X \in Int /\ Y \in Int /\ Z \in Int /\ w \in Int  BY <1>1
<1>3. y * X = k * Y
  <2>1. y * X = (h * y) * b - (a * k) * y  BY <1>1
  <2>2. k * Y = (l * k) * b - (a * k) * y  BY <1>1
  <2> QED  BY <1>1, <2>1, <2>2
<1>4. y * Abs(X) = k * Abs(Y)
  <2>1. y \in Nat /\ k \in Nat  BY <1>1
  <2> HIDE DEF X, Y
  <2>2. Abs(y * X) = y * Abs(X) /\ Abs(k * Y) = k * Abs(Y)  BY <1>2, <2>1, AbsTimes
  <2> QED  BY <1>3, <2>2
<1>5. (2 * d) * Y = b * w
  <2>1. (2 * d) * Y = 2 * (l * b * d) - y * (2 * (a * d))  BY <1>1
  <2>2. y * (2 * (a * d)) = y * ((2 * l + e) * b)  OBVIOUS
  <2>3. b * w = 2 * (l * b * d) - y * ((2 * l + e) * b)
    <3>1. 2 * (l * b * d) = 2 * (l * b * y) + 2 * (l * b)  BY <1>1
    <3>2. y * ((2 * l + e) * b) = 2 * (l * b * y) + y * e * b  BY <1>1
    <3>3. b * w = 2 * (l * b) - y * e * b  BY <1>1
    <3> QED  BY <1>1, <3>1, <3>2, <3>3
  <2> QED  BY <1>1, <2>1, <2>2, <2>3
<1>6. (2 * d) * Abs(Y) = b * Abs(w)
  <2>1. 2 * d \in Nat /\ b \in Nat  OBVIOUS
  <2> QED  BY <1>2, <1>5, <2>1, AbsTimes
<1>7. Abs(w) <= e * y
  <2>1. l <= y + 1 - e  BY <1>1
  <2>2. (e - 1) * y >= 0 /\ (e - 1) * y = e * y - y /\ e * y \in Int  BY <1>1
  <2>3. 2 * l <= 2 * (e * y)
    <3>1. CASE e = 1
      <4>1. l <= y /\ e * y = y  BY <1>1, <3>1
      <4> QED  BY <1>1, <4>1
    <3>2. CASE e >= 2
      <4>1. l <= y  BY <1>1, <2>1, <3>2
      <4> QED  BY <1>1, <2>2, <4>1
    <3> QED  BY <3>1, <3>2
  <2> QED  BY <1>1, <2>2, <2>3 DEF Abs
<1>8. 2 * Abs(Z) = e * b
  <2>1. 2 * Z = -(e * b)
    <3>1. (2 * l + e) * b = 2 * (l * b) + e * b /\ l * b \in Int /\ e * b \in Int /\ a * d \in Int
      OBVIOUS
    <3> QED  BY <3>1
  <2>2. e * b >= 0 /\ e * b \in Int  OBVIOUS
  <2> HIDE DEF Z
  <2> QED  BY <1>2, <2>1, <2>2 DEF Abs
<1> DEFINE AX == Abs(X)
           AY == Abs(Y)
           AZ == Abs(Z)
           AW == Abs(w)
<1>9. AX \in Nat /\ AY \in Nat /\ AZ \in Nat /\ AW \in Nat  BY <1>2 DEF Abs
<1>10. AX * d <= AZ * k
  <2> HIDE DEF AX, AY, AZ, AW, w
  <2>1. y * AX = k * AY /\ (2 * d) * AY = b * AW /\ AW <= e * y /\ 2 * AZ = e * b
    BY <1>4, <1>6, <1>7, <1>8 DEF AX, AY, AZ, AW
  <2>2. (AX * d) * (2 * y) = k * ((2 * d) * AY)
    <3>1. (AX * d) * (2 * y) = (2 * d) * (y * AX)  BY <1>1, <1>9
    <3>2. k * ((2 * d) * AY) = (2 * d) * (k * AY)  BY <1>9
    <3> QED  BY <2>1, <3>1, <3>2
  <2>3. (AZ * k) * (2 * y) = k * (b * (e * y))
    <3>1. (AZ * k) * (2 * y) = k * ((2 * AZ) * y)  BY <1>1, <1>9
    <3>2. k * ((e * b) * y) = k * (b * (e * y))  BY <1>1
    <3> QED  BY <2>1, <3>1, <3>2
  <2>4. k * (b * AW) <= k * (b * (e * y))
    <3> DEFINE v == e * y
    <3>1. v \in Int /\ AW <= v  BY <1>1, <2>1
    <3> HIDE DEF v
    <3>2. (k * b) * (v - AW) >= 0
      <4>1. k * b \in Nat \ {0}  BY TimesPositive
      <4> QED  BY <1>9, <3>1, <4>1
    <3>3. (k * b) * (v - AW) = k * (b * v) - k * (b * AW)  BY <1>9, <3>1
    <3>4. k * (b * AW) \in Int /\ k * (b * v) \in Int  BY <1>9, <3>1
    <3>5. k * (b * AW) <= k * (b * v)  BY <3>2, <3>3, <3>4
    <3> QED  BY <3>5 DEF v
  <2>5. (AX * d) * (2 * y) <= (AZ * k) * (2 * y)  BY <2>1, <2>2, <2>3, <2>4
  <2>6. 2 * y \in Nat \ {0} /\ AX * d \in Int /\ AZ * k \in Int  BY <1>1, <1>9
  <2> QED  BY <2>5, <2>6, Cancel
<1> QED  BY <1>10 DEF AX, AZ, X, Z

(* a / b is halfway between l / d and m / d. *)
Halfway(l, m, d, a, b) == (l + m) * b = 2 * (a * d)

(* A fraction of a smaller denominator is as near to a / b as l / d is. *)
Beaten(l, d, a, b) ==
  \E h \in Fractions : h[2] < d /\ Miss(h, a, b) * d <= Abs(l * b - a * d) * h[2]

(* Of two fractions of one denominator that are equally near, neither is    *)
(* the closest.                                                             *)
LEMMA TieIsBeaten ==
  ASSUME NEW l \in Nat, NEW m \in Nat, NEW d \in Nat \ {0, 1}, l < m, m <= d,
         d <= MaxLanePeriodTiles, NEW a \in Nat, NEW b \in Nat \ {0}, Halfway(l, m, d, a, b)
  PROVE  Beaten(l, d, a, b)
<1> DEFINE e == m - l
           y == d - 1
<1>1. e \in Nat \ {0} /\ l + e <= d /\ m = l + e /\ y \in Nat \ {0} /\ l <= y
      /\ y <= MaxLanePeriodTiles /\ y < d
  BY CapsAssumption
<1>2. PICK h \in Fractions : h[1] * y = l * h[2] /\ h[2] <= y
  <2> HIDE DEF y
  <2> QED  BY <1>1, Reduced
<1> DEFINE i == h[1]
           k == h[2]
<1>3. i \in Nat /\ k \in Nat \ {0} /\ k < d /\ i * (d - 1) = l * k
  <2>1. i \in Nat /\ k \in Nat \ {0}  BY FractionParts
  <2>2. i * (d - 1) = l * k  BY <1>2
  <2>3. k < d  BY <1>2, <1>1, <2>1
  <2> QED  BY <2>1, <2>2, <2>3
<1>4. (2 * l + e) * b = 2 * (a * d)  BY <1>1 DEF Halfway
<1> HIDE DEF e, i, k
<1>5. Abs(i * b - a * k) * d <= Abs(l * b - a * d) * k
  <2> HIDE DEF y
  <2> QED  BY <1>1, <1>3, <1>4, HalfwaySimpler
<1> QED  BY <1>3, <1>5 DEF i, k, Miss, Beaten

LEMMA NoTie ==
  ASSUME NEW a \in Nat, NEW b \in Nat \ {0}, NEW f, IsClosest(f, a, b), NEW g \in Fractions,
         Miss(f, a, b) * g[2] = Miss(g, a, b) * f[2], f[2] = g[2]
  PROVE  f = g
<1>1. f \in Fractions  BY DEF IsClosest
<1> DEFINE p == f[1]
           r == g[1]
           d == f[2]
           F == Miss(f, a, b)
           G == Miss(g, a, b)
<1>2. /\ p \in Nat /\ r \in Nat /\ d \in Nat \ {0} /\ p <= d /\ r <= d /\ d <= MaxLanePeriodTiles
      /\ f = <<p, d>> /\ g = <<r, d>>
  BY <1>1, FractionParts
<1>3. F \in Nat /\ G \in Nat  BY <1>1, MissNat
<1>4. F * d = G * d  OBVIOUS
<1>5. F = Abs(p * b - a * d) /\ G = Abs(r * b - a * d)  BY <1>2 DEF Miss
<1>6. ASSUME NEW h \in Fractions, h[2] < d, Miss(h, a, b) * d <= F * h[2] PROVE FALSE
  <2> DEFINE u == F * h[2]
             v == Miss(h, a, b) * d
             k == h[2]
  <2>1. k \in Nat /\ Miss(h, a, b) \in Nat  BY FractionParts, MissNat
  <2>2. u <= v /\ (u = v => d <= k)  BY DEF IsClosest
  <2>3. u \in Int /\ v \in Int
    <3> HIDE DEF F
    <3> QED  BY <1>2, <1>3, <2>1
  <2>4. v <= u /\ k < d  BY <1>6
  <2> HIDE DEF u, v, k, d
  <2> QED  BY <1>2, <2>1, <2>2, <2>3, <2>4
<1>7. CASE d = 1
  <2>1. <<1, 2>> \in Fractions
    <3>1. 1 \in 0..MaxLanePeriodTiles /\ 2 \in 1..MaxLanePeriodTiles  BY CapsAssumption
    <3>2. Coprime(1, 2)
      <4>1. Larger(1, 2) = 2  BY DEF Larger
      <4> QED  BY <4>1 DEF Coprime
    <3> QED  BY <3>1, <3>2 DEF Fractions
  <2>2. Miss(<<1, 2>>, a, b) = Abs(b - a * 2)  BY DEF Miss
  <2>3. F * 2 <= Abs(b - a * 2)
    <3>1. Miss(f, a, b) * <<1, 2>>[2] <= Miss(<<1, 2>>, a, b) * f[2]  BY <2>1 DEF IsClosest
    <3> QED  BY <1>7, <2>2, <3>1 DEF Abs
  <2>4. (p = 0 \/ p = 1) /\ (r = 0 \/ r = 1)  BY <1>2, <1>7
  <2>5. F = Abs(p * b - a) /\ G = Abs(r * b - a)  BY <1>5, <1>7
  <2>6. F = G  BY <1>3, <1>4, <1>7
  <2>7. p = r  BY <2>3, <2>4, <2>5, <2>6 DEF Abs
  <2> QED  BY <1>2, <2>7
<1>8. CASE d # 1
  <2> HIDE DEF p, r, d, F, G
  <2>1. F = G  BY <1>2, <1>3, <1>4, Cancel
  <2>2. p * b \in Int /\ r * b \in Int /\ a * d \in Int  BY <1>2
  <2>3. p * b = r * b \/ p * b + r * b = 2 * (a * d)
    <3> DEFINE u == p * b
               v == r * b
               w == a * d
    <3>1. u \in Int /\ v \in Int /\ w \in Int /\ Abs(u - w) = Abs(v - w)  BY <1>5, <2>1, <2>2
    <3> HIDE DEF u, v, w
    <3>2. u = v \/ u + v = 2 * w  BY <3>1 DEF Abs
    <3> QED  BY <3>2 DEF u, v, w
  <2>4. ASSUME p # r PROVE FALSE
    <3>1. p * b # r * b  BY <1>2, <2>4, Cancel
    <3>2. Halfway(p, r, d, a, b) /\ Halfway(r, p, d, a, b)  BY <1>2, <2>3, <3>1 DEF Halfway
    <3>3. d \in Nat \ {0, 1}  BY <1>2, <1>8
    <3>4. CASE p < r
      <4>1. Beaten(p, d, a, b)  BY <1>2, <3>2, <3>3, <3>4, TieIsBeaten
      <4> QED  BY <1>5, <1>6, <4>1 DEF Beaten
    <3>5. CASE r < p
      <4>1. Beaten(r, d, a, b)  BY <1>2, <3>2, <3>3, <3>5, TieIsBeaten
      <4> QED  BY <1>5, <1>6, <2>1, <4>1 DEF Beaten
    <3> QED  BY <1>2, <2>4, <3>4, <3>5
  <2> QED  BY <1>2, <2>4
<1> QED  BY <1>7, <1>8

(* limit_denominator has an answer, and it is the nearest, on a tie the     *)
(* simpler one.                                                             *)
IsNearest(f, a, b) ==
  /\ f \in Fractions
  /\ \A g \in Fractions \ {f} :
       \/ Miss(f, a, b) * g[2] < Miss(g, a, b) * f[2]
       \/ Miss(f, a, b) * g[2] = Miss(g, a, b) * f[2] /\ f[2] < g[2]

LEMMA NearestIs ==
  ASSUME NEW a \in Nat, NEW b \in Nat \ {0}
  PROVE  IsNearest(Nearest(a, b), a, b)
<1>1. PICK f : IsClosest(f, a, b)  BY ClosestExists
<1>2. f \in Fractions  BY <1>1 DEF IsClosest
<1>3. ASSUME NEW g \in Fractions \ {f}
      PROVE  \/ Miss(f, a, b) * g[2] < Miss(g, a, b) * f[2]
             \/ Miss(f, a, b) * g[2] = Miss(g, a, b) * f[2] /\ f[2] < g[2]
  <2> DEFINE u == Miss(f, a, b) * g[2]
             v == Miss(g, a, b) * f[2]
             c == f[2]
             d == g[2]
  <2>1. u <= v /\ (u = v => c <= d)  BY <1>1 DEF IsClosest
  <2>2. u = v => c # d  BY <1>1, <1>3, NoTie
  <2>3. c \in Nat /\ d \in Nat /\ Miss(f, a, b) \in Nat /\ Miss(g, a, b) \in Nat
    BY <1>2, FractionParts, MissNat
  <2>4. u \in Int /\ v \in Int
    <3> DEFINE x == Miss(f, a, b)
               z == Miss(g, a, b)
    <3> HIDE DEF x, z, c, d
    <3> QED  BY <2>3 DEF x, z, c, d
  <2>5. u < v \/ (u = v /\ c < d)
    <3> HIDE DEF u, v, c, d
    <3> QED  BY <2>1, <2>2, <2>3, <2>4
  <2> QED  BY <2>5
<1>4. \A g \in Fractions \ {f} :
         \/ Miss(f, a, b) * g[2] < Miss(g, a, b) * f[2]
         \/ Miss(f, a, b) * g[2] = Miss(g, a, b) * f[2] /\ f[2] < g[2]
  BY <1>3
<1> QED  BY <1>2, <1>4 DEF IsNearest, Nearest

(* A ratio with small parts is met exactly.                                 *)
LEMMA NearestExact ==
  ASSUME NEW a \in Nat, NEW b \in Nat \ {0}, a <= b, b <= MaxLanePeriodTiles
  PROVE  Nearest(a, b)[1] * b = a * Nearest(a, b)[2]
<1> DEFINE n == Nearest(a, b)
<1>1. IsNearest(n, a, b)  BY NearestIs
<1> HIDE DEF n
<1>2. n \in Fractions  BY <1>1 DEF IsNearest
<1>3. PICK h \in Fractions : h[1] * b = a * h[2] /\ h[2] <= b  BY Reduced
<1>4. CASE n = h  BY <1>3, <1>4 DEF n
<1>5. CASE n # h
  <2> DEFINE N == Miss(n, a, b)
             k == h[2]
             d == n[2]
             i == n[1]
  <2>1. Miss(h, a, b) = 0
    <3> DEFINE x == h[1] * b
               y == a * h[2]
    <3>1. h[1] \in Nat /\ h[2] \in Nat  BY FractionParts
    <3>2. x \in Int /\ x = y  BY <1>3, <3>1
    <3>3. Miss(h, a, b) = Abs(x - y)  BY DEF Miss
    <3> HIDE DEF x, y
    <3> QED  BY <3>2, <3>3 DEF Abs
  <2>2. /\ N \in Nat /\ k \in Nat \ {0} /\ d \in Nat /\ i \in Nat  BY <1>2, FractionParts, MissNat
  <2>3. N * k <= 0
    <3>1. N * k < Miss(h, a, b) * d \/ N * k = Miss(h, a, b) * d  BY <1>1, <1>5 DEF IsNearest
    <3>2. Miss(h, a, b) * d = 0 /\ N * k \in Int
      <4> HIDE DEF N, k, d
      <4> QED  BY <2>1, <2>2
    <3> QED  BY <3>1, <3>2
  <2>4. N = 0
    <3> HIDE DEF N, k
    <3>1. N >= 1 => (N - 1) * k >= 0  BY <2>2
    <3> QED  BY <2>2, <2>3, <3>1
  <2>5. i * b = a * d
    <3> DEFINE x == i * b
               y == a * d
    <3>1. N = Abs(x - y)  BY DEF Miss
    <3>2. x \in Int /\ y \in Int  BY <2>2
    <3> HIDE DEF N, x, y
    <3>3. x = y  BY <2>4, <3>1, <3>2 DEF Abs
    <3> QED  BY <3>3 DEF x, y
  <2> QED  BY <2>5 DEF n
<1> QED  BY <1>4, <1>5

(* A fraction with small parts is its own nearest.                          *)
LEMMA NearestSelf ==
  ASSUME NEW f \in Fractions
  PROVE  Nearest(f[1], f[2]) = f
<1> DEFINE a == f[1]
           b == f[2]
           n == Nearest(a, b)
<1>1. a \in Nat /\ b \in Nat \ {0} /\ a <= b /\ b <= MaxLanePeriodTiles  BY FractionParts
<1>2. n[1] * b = a * n[2]
  <2> HIDE DEF a, b
  <2> QED  BY <1>1, NearestExact
<1>3. n \in Fractions
  <2> HIDE DEF a, b
  <2> QED  BY <1>1, NearestIs DEF IsNearest
<1> HIDE DEF n
<1>4. n = f  BY <1>2, <1>3, FractionUnique
<1> QED  BY <1>4 DEF n

SignOf(a) == IF a < 0 THEN -1 ELSE 1

(* The two ways of snapping, each with what the property asks of it.        *)
IsSnapped(p, q, a, b) ==
  /\ p \in Int /\ q \in Nat /\ Abs(p) <= MaxLanePeriodTiles /\ q <= MaxLanePeriodTiles
  /\ p # 0 \/ q # 0
  /\ Coprime(Abs(p), q)
  /\ SnapAngle(p, q) = <<p, q>>
  /\ (Abs(a) <= MaxLanePeriodTiles /\ b <= MaxLanePeriodTiles) => p * b = q * a

LEMMA SignTimes ==
  ASSUME NEW a \in Int, NEW n \in Nat
  PROVE  /\ SignOf(a) * n \in Int /\ Abs(SignOf(a) * n) = n
         /\ SignOf(a) * Abs(a) = a
         /\ n # 0 => SignOf(SignOf(a) * n) = SignOf(a)
         /\ SignOf(a) \in Int
BY DEF SignOf, Abs

LEMMA UprightStays == SnapAngle(1, 0) = <<1, 0>> /\ Coprime(Abs(1), 0) /\ Abs(1) = 1
<1>1. SnapAngle(1, 0) = <<1, 0>>  BY DEF SnapAngle
<1>2. Abs(1) = 1 /\ Larger(1, 0) = 1  BY DEF Abs, Larger
<1> QED  BY <1>1, <1>2 DEF Coprime

LEMMA FlatStays ==
  ASSUME NEW f \in Fractions, NEW a \in Int
  PROVE  SnapAngle(SignOf(a) * f[1], f[2]) = <<SignOf(a) * f[1], f[2]>>
<1> DEFINE p == SignOf(a) * f[1]
           q == f[2]
<1>1. f[1] \in Nat /\ q \in Nat \ {0} /\ f[1] <= q  BY FractionParts
<1>2. p \in Int /\ Abs(p) = f[1]  BY <1>1, SignTimes
<1>3. SnapAngle(p, q) = <<SignOf(p) * Nearest(f[1], q)[1], Nearest(f[1], q)[2]>>
  <2> HIDE DEF p, q
  <2>1. q # 0 /\ Abs(p) <= q  BY <1>1, <1>2
  <2> QED  BY <1>2, <2>1 DEF SnapAngle, SignOf
<1>4. Nearest(f[1], q) = f  BY NearestSelf
<1>5. SignOf(p) * f[1] = p
  <2>1. CASE f[1] = 0
    <3>1. p = 0  BY <2>1 DEF SignOf
    <3> QED  BY <2>1, <3>1 DEF SignOf
  <2>2. CASE f[1] # 0
    <3>1. SignOf(p) = SignOf(a)  BY <1>1, <2>2, SignTimes
    <3> QED  BY <3>1
  <2> QED  BY <2>1, <2>2
<1> QED  BY <1>3, <1>4, <1>5

LEMMA SteepStays ==
  ASSUME NEW f \in Fractions, f[1] # 0, NEW a \in Int
  PROVE  SnapAngle(SignOf(a) * f[2], f[1]) = <<SignOf(a) * f[2], f[1]>>
<1> DEFINE p == SignOf(a) * f[2]
           q == f[1]
<1>1. f[2] \in Nat \ {0} /\ q \in Nat \ {0} /\ q <= f[2] /\ Coprime(f[1], f[2]) /\ f = <<f[1], f[2]>>
  BY FractionParts
<1>2. p \in Int /\ Abs(p) = f[2] /\ SignOf(p) = SignOf(a)  BY <1>1, SignTimes
<1>3. Nearest(q, f[2]) = f  BY NearestSelf
<1>4. CASE q < f[2]
  <2>1. SnapAngle(p, q) = <<SignOf(p) * Nearest(q, f[2])[2], Nearest(q, f[2])[1]>>
    <3> HIDE DEF p, q
    <3>1. q # 0 /\ ~(Abs(p) <= q) /\ Nearest(q, Abs(p)) = f  BY <1>1, <1>2, <1>3, <1>4
    <3>2. f[1] # 0  OBVIOUS
    <3> QED  BY <1>2, <1>3, <3>1, <3>2 DEF SnapAngle, SignOf
  <2> QED  BY <1>2, <1>3, <2>1
<1>5. CASE q = f[2]
  <2>1. f[1] = f[2]  BY <1>5
  <2> QED  BY <2>1, FlatStays
<1> QED  BY <1>1, <1>4, <1>5

LEMMA UprightSnapped ==
  ASSUME NEW a \in Int, NEW b \in Nat,
         (Abs(a) <= MaxLanePeriodTiles /\ b <= MaxLanePeriodTiles) => b = 0
  PROVE  IsSnapped(1, 0, a, b)
<1>1. (Abs(a) <= MaxLanePeriodTiles /\ b <= MaxLanePeriodTiles) => 1 * b = 0 * a  OBVIOUS
<1>2. 1 <= MaxLanePeriodTiles /\ 0 <= MaxLanePeriodTiles  BY CapsAssumption
<1> QED  BY <1>1, <1>2, UprightStays DEF IsSnapped

LEMMA FlatSnapped ==
  ASSUME NEW a \in Int, NEW b \in Nat \ {0}, Abs(a) <= b
  PROVE  LET f == Nearest(Abs(a), b) IN IsSnapped(SignOf(a) * f[1], f[2], a, b)
<1> DEFINE f == Nearest(Abs(a), b)
           i == f[1]
           q == f[2]
           s == SignOf(a)
           A == Abs(a)
<1>0. A \in Nat  BY DEF Abs
<1>1. f \in Fractions
  <2> HIDE DEF A
  <2>1. Nearest(A, b) \in Fractions  BY <1>0, NearestIs DEF IsNearest
  <2> QED  BY <2>1 DEF A
<1>2. b <= MaxLanePeriodTiles => i * b = A * q
  <2> HIDE DEF A
  <2>1. A <= b  BY DEF A
  <2>2. b <= MaxLanePeriodTiles => Nearest(A, b)[1] * b = A * Nearest(A, b)[2]
    BY <1>0, <2>1, NearestExact
  <2> QED  BY <2>2 DEF A
<1> HIDE DEF f
<1>3. i \in Nat /\ q \in Nat \ {0} /\ i <= q /\ q <= MaxLanePeriodTiles /\ Coprime(i, q)
  BY <1>1, FractionParts
<1>4. s * i \in Int /\ Abs(s * i) = i /\ s * A = a /\ s \in Int  BY <1>3, SignTimes
<1>5. SnapAngle(s * i, q) = <<s * i, q>>  BY <1>1, FlatStays
<1>6. b <= MaxLanePeriodTiles => (s * i) * b = q * a
  <2> HIDE DEF s, i, q, A
  <2>1. (s * i) * b = s * (i * b)  BY <1>3, <1>4
  <2>2. s * (A * q) = q * (s * A)  BY <1>0, <1>3, <1>4
  <2> QED  BY <1>2, <1>4, <2>1, <2>2
<1>7. IsSnapped(s * i, q, a, b)
  <2> DEFINE p == s * i
  <2> HIDE DEF p
  <2>1. /\ p \in Int /\ Abs(p) = i /\ SnapAngle(p, q) = <<p, q>>
        /\ b <= MaxLanePeriodTiles => p * b = q * a
    BY <1>4, <1>5, <1>6 DEF p
  <2>2. i <= MaxLanePeriodTiles  BY <1>3, CapsAssumption
  <2> HIDE DEF i, q
  <2>3. IsSnapped(p, q, a, b)  BY <1>3, <2>1, <2>2 DEF IsSnapped
  <2> QED  BY <2>3 DEF p
<1> QED  BY <1>7 DEF f

LEMMA SteepSnapped ==
  ASSUME NEW a \in Int, NEW b \in Nat \ {0}, b < Abs(a)
  PROVE  LET f == Nearest(b, Abs(a))
         IN IF f[1] = 0 THEN IsSnapped(1, 0, a, b) ELSE IsSnapped(SignOf(a) * f[2], f[1], a, b)
<1> DEFINE f == Nearest(b, Abs(a))
           i == f[2]
           q == f[1]
           s == SignOf(a)
           A == Abs(a)
<1>0. A \in Nat \ {0} /\ b <= A /\ b \in Nat  BY DEF Abs
<1>1. f \in Fractions
  <2> HIDE DEF A
  <2>1. Nearest(b, A) \in Fractions  BY <1>0, NearestIs DEF IsNearest
  <2> QED  BY <2>1 DEF A
<1>2. A <= MaxLanePeriodTiles => q * A = b * i
  <2> HIDE DEF A
  <2>1. A <= MaxLanePeriodTiles => Nearest(b, A)[1] * A = b * Nearest(b, A)[2]
    BY <1>0, NearestExact
  <2> QED  BY <2>1 DEF A
<1> HIDE DEF f
<1>3. /\ q \in Nat /\ i \in Nat \ {0} /\ q <= i /\ i <= MaxLanePeriodTiles /\ Coprime(i, q)
  BY <1>1, FractionParts
<1>4. s * i \in Int /\ Abs(s * i) = i /\ s * A = a /\ s \in Int  BY <1>3, SignTimes
<1>5. CASE q = 0
  <2>1. A <= MaxLanePeriodTiles => b = 0
    <3>1. b * i \in Nat \ {0}  BY <1>3, TimesPositive
    <3>2. 0 * A = 0  BY <1>0
    <3> QED  BY <1>2, <1>5, <3>1, <3>2
  <2>2. IsSnapped(1, 0, a, b)  BY <1>0, <2>1, UprightSnapped
  <2> QED  BY <1>5, <2>2 DEF f
<1>6. CASE q # 0
  <2>1. SnapAngle(s * i, q) = <<s * i, q>>  BY <1>1, <1>6, SteepStays
  <2>2. A <= MaxLanePeriodTiles => (s * i) * b = q * a
    <3> HIDE DEF s, i, q, A
    <3>1. (s * i) * b = s * (b * i)  BY <1>3, <1>4
    <3>2. s * (q * A) = q * (s * A)  BY <1>0, <1>3, <1>4
    <3> QED  BY <1>2, <1>4, <3>1, <3>2
  <2> DEFINE p == s * i
  <2> HIDE DEF p
  <2>3. /\ p \in Int /\ Abs(p) = i /\ SnapAngle(p, q) = <<p, q>>
        /\ A <= MaxLanePeriodTiles => p * b = q * a
    BY <1>4, <2>1, <2>2 DEF p
  <2>4. q <= MaxLanePeriodTiles  BY <1>3, CapsAssumption
  <2>5. IsSnapped(p, q, a, b)
    <3> HIDE DEF i, q
    <3> QED  BY <1>3, <1>6, <2>3, <2>4 DEF IsSnapped
  <2> QED  BY <1>6, <2>5 DEF p, f
<1> QED  BY <1>5, <1>6

(* The sides of a closed direction, walked t and u steps from the origin,   *)
(* meet again only after a whole tile.                                      *)
LEMMA LaneApart ==
  ASSUME NEW p \in Int, NEW q \in Nat, p # 0 \/ q # 0, Coprime(Abs(p), q),
         NEW tile \in Nat \ {0}, NEW t \in 0..tile - 1, NEW u \in 0..tile - 1,
         PointAt(<<p, q>>, 0, t, tile) = PointAt(<<p, q>>, 0, u, tile)
  PROVE  t = u
<1>1. t \in Int /\ u \in Int /\ t - u \in Int /\ t * q \in Int /\ u * q \in Int /\ t * p \in Int
        /\ u * p \in Int
  OBVIOUS
<1>2. (t * q) % tile = (u * q) % tile /\ (t * p) % tile = (u * p) % tile
  <2>1. \A v \in {t, u} : PointAt(<<p, q>>, 0, v, tile) = <<(v * q) % tile, (v * p) % tile>>
    <3> TAKE v \in {t, u}
    <3>1. v * q - 0 * p = v * q /\ v * p + 0 * q = v * p  OBVIOUS
    <3>2. PointAt(<<p, q>>, 0, v, tile) = <<(v * q - 0 * p) % tile, (v * p + 0 * q) % tile>>
      BY DEF PointAt
    <3> QED  BY <3>1, <3>2
  <2> QED  BY <2>1
<1>3. (q * (t - u)) % tile = 0
  <2>1. PICK k \in Int : t * q - u * q = k * tile  BY <1>1, <1>2, SameRestApart
  <2>2. q * (t - u) = k * tile
    <3>1. q * (t - u) = t * q - u * q  OBVIOUS
    <3> QED  BY <2>1, <3>1
  <2> QED  BY <2>2, MultipleOf
<1>4. (p * (t - u)) % tile = 0
  <2>1. PICK k \in Int : t * p - u * p = k * tile  BY <1>1, <1>2, SameRestApart
  <2>2. p * (t - u) = k * tile
    <3>1. p * (t - u) = t * p - u * p  OBVIOUS
    <3> QED  BY <2>1, <3>1
  <2> QED  BY <2>2, MultipleOf
<1>5. PICK j \in Int : t - u = j * tile  BY <1>1, <1>3, <1>4, BothSidesTile
<1>6. j = 0
  <2>1. -tile < t - u /\ t - u < tile  OBVIOUS
  <2>2. -tile < j * tile /\ j * tile < tile  BY <1>5, <2>1
  <2> QED  BY <2>2, SmallMultiple
<1>7. t - u = 0  BY <1>5, <1>6
<1> QED  BY <1>7

SnapClosesOf(c) ==
  LET p == c.out[1]
      q == c.out[2]
  IN /\ Abs(p) <= MaxLanePeriodTiles /\ q \in 0..MaxLanePeriodTiles
     /\ (Abs(c.rise[1]) <= MaxLanePeriodTiles /\ c.rise[2] <= MaxLanePeriodTiles) =>
          p * c.rise[2] = q * c.rise[1]
     /\ SnapAngle(p, q) = c.out
     /\ \A t, u \in 0..c.tile - 1 :
          PointAt(c.out, 0, t, c.tile) = PointAt(c.out, 0, u, c.tile) => t = u

LEMMA SnapClosesIs == SnapCloses <=> (call.op = "snap_angle" => SnapClosesOf(call))
BY DEF SnapCloses, SnapClosesOf

LEMMA SnappedCloses ==
  ASSUME NEW p, NEW q, NEW a \in Int, NEW b \in Nat, IsSnapped(p, q, a, b),
         NEW tile \in Nat \ {0}, NEW c, c.tile = tile, c.rise = <<a, b>>, c.out = <<p, q>>
  PROVE  SnapClosesOf(c)
<1>1. /\ p \in Int /\ q \in Nat /\ Abs(p) <= MaxLanePeriodTiles /\ q <= MaxLanePeriodTiles
      /\ p # 0 \/ q # 0
      /\ Coprime(Abs(p), q)
      /\ SnapAngle(p, q) = <<p, q>>
      /\ (Abs(a) <= MaxLanePeriodTiles /\ b <= MaxLanePeriodTiles) => p * b = q * a
  BY DEF IsSnapped
<1>2. q \in 0..MaxLanePeriodTiles  BY <1>1, CapsAssumption
<1>3. \A t, u \in 0..c.tile - 1 :
         PointAt(c.out, 0, t, c.tile) = PointAt(c.out, 0, u, c.tile) => t = u
  <2>1. \A t, u \in 0..tile - 1 :
           PointAt(<<p, q>>, 0, t, tile) = PointAt(<<p, q>>, 0, u, tile) => t = u
    BY <1>1, LaneApart
  <2> QED  BY <2>1
<1>4. c.out[1] = p /\ c.out[2] = q /\ c.rise[1] = a /\ c.rise[2] = b  OBVIOUS
<1> QED  BY <1>1, <1>2, <1>3, <1>4 DEF SnapClosesOf

LEMMA CallSnapCloses == ASSUME CallSnap PROVE SnapCloses'
<1>1. PICK rise \in Rises, tile \in Tiles :
         call' = [op |-> "snap_angle", tile |-> tile, rise |-> rise,
                  out |-> SnapAngle(rise[1], rise[2])]
  BY DEF CallSnap
<1> DEFINE a == rise[1]
           b == rise[2]
<1>2. a \in Int /\ b \in Nat /\ rise = <<a, b>> /\ tile \in Nat \ {0}
  BY RisesAssumption, LengthsAssumption
<1>3. call'.tile = tile /\ call'.rise = <<a, b>> /\ call'.out = SnapAngle(a, b)  BY <1>1, <1>2
<1> HIDE DEF a, b
<1>4. \E p, q : IsSnapped(p, q, a, b) /\ call'.out = <<p, q>>
  <2>1. CASE b = 0
    <3>1. SnapAngle(a, b) = <<1, 0>>  BY <2>1 DEF SnapAngle
    <3>2. IsSnapped(1, 0, a, b)  BY <1>2, <2>1, UprightSnapped
    <3> QED  BY <1>3, <3>1, <3>2
  <2>2. CASE b # 0 /\ Abs(a) <= b
    <3> DEFINE f == Nearest(Abs(a), b)
    <3>1. SnapAngle(a, b) = <<SignOf(a) * f[1], f[2]>>  BY <2>2 DEF SnapAngle, SignOf
    <3>2. IsSnapped(SignOf(a) * f[1], f[2], a, b)  BY <1>2, <2>2, FlatSnapped
    <3> QED  BY <1>3, <3>1, <3>2
  <2>3. CASE b # 0 /\ ~(Abs(a) <= b)
    <3> DEFINE f == Nearest(b, Abs(a))
    <3>1. SnapAngle(a, b) = IF f[1] = 0 THEN <<1, 0>> ELSE <<SignOf(a) * f[2], f[1]>>
      BY <2>3 DEF SnapAngle, SignOf
    <3>2. b < Abs(a) /\ b \in Nat \ {0}  BY <1>2, <2>3 DEF Abs
    <3>3. IF f[1] = 0 THEN IsSnapped(1, 0, a, b) ELSE IsSnapped(SignOf(a) * f[2], f[1], a, b)
      BY <1>2, <3>2, SteepSnapped
    <3>4. CASE f[1] = 0  BY <1>3, <3>1, <3>3, <3>4
    <3>5. CASE f[1] # 0  BY <1>3, <3>1, <3>3, <3>5
    <3> QED  BY <3>4, <3>5
  <2> QED  BY <2>1, <2>2, <2>3
<1>5. PICK p, q : IsSnapped(p, q, a, b) /\ call'.out = <<p, q>>  BY <1>4
<1>6. SnapClosesOf(call')  BY <1>2, <1>3, <1>5, SnappedCloses
<1>7. SnapClosesOf(call)'
  <2>1. SnapClosesOf(call)' = SnapClosesOf(call')  BY DEF SnapClosesOf
  <2> QED  BY <1>6, <2>1
<1> QED  BY <1>7, SnapClosesIs, PTL

(* A snapped direction closes within MAX_LANE_PERIOD_TILES tiles, is not    *)
(* turned by another snap, is the direction asked for when that closes in   *)
(* time, and its lane does not run over itself, for every direction, tile   *)
(* and cap of at least two tiles.                                           *)
THEOREM TorusSnapCloses == CallSpec => []SnapCloses
<1>1. CallInit => SnapCloses  BY DEF CallInit, NoCall, SnapCloses
<1>2. SnapCloses /\ [CallNext]_call => SnapCloses'
  <2> SUFFICES ASSUME SnapCloses, [CallNext]_call PROVE SnapCloses'  OBVIOUS
  <2>1. CASE CallSnap  BY <2>1, CallSnapCloses
  <2>2. CASE call'.op # "snap_angle"  BY <2>2 DEF SnapCloses
  <2>3. CASE UNCHANGED call  BY <2>3 DEF SnapCloses
  <2>4. ASSUME CallNext, ~CallSnap PROVE call'.op # "snap_angle"
    BY <2>4, CallsAreNamed DEF CallNext
  <2> QED  BY <2>1, <2>2, <2>3, <2>4
<1> QED  BY <1>1, <1>2, PTL DEF CallSpec

-----------------------------------------------------------------------------
\* Yarns

\* ceil and floor of a quotient, against a number.
LEMMA CeilDivBounds ==
  ASSUME NEW s \in Nat \ {0}, NEW x \in Int, NEW k \in Int
  PROVE  /\ CeilDiv(x, s) \in Int
         /\ k <= CeilDiv(x, s) - 1 <=> k * s < x
<1> DEFINE q == (-x) \div s
           r == (-x) % s
<1>1. q \in Int /\ r \in 0..s - 1 /\ -x = q * s + r
  <2>1. -x \in Int  OBVIOUS
  <2> QED  BY <2>1, DivMod
<1>2. CeilDiv(x, s) = -q  BY DEF CeilDiv
<1> HIDE DEF q, r
<1>3. k <= -q - 1 => k * s < x
  <2>1. k <= -q - 1 => (-q - 1 - k) * s >= 0  BY <1>1
  <2>2. (-q - 1 - k) * s = -(q * s) - s - k * s  BY <1>1
  <2>3. q * s \in Int /\ k * s \in Int  BY <1>1
  <2> QED  BY <1>1, <2>1, <2>2, <2>3
<1>4. k * s < x => k <= -q - 1
  <2>1. k >= -q => (k + q) * s >= 0  BY <1>1
  <2>2. (k + q) * s = q * s + k * s  BY <1>1
  <2>3. q * s \in Int /\ k * s \in Int  BY <1>1
  <2> QED  BY <1>1, <2>1, <2>2, <2>3
<1> QED  BY <1>1, <1>2, <1>3, <1>4

LEMMA StrandCountPositive ==
  ASSUME NEW side \in Nat \ {0}, NEW dpi \in Nat \ {0}
  PROVE  StrandCount(side, dpi) \in Nat \ {0}
<1>1. RoundDiv(side, 2) \in Nat  BY RoundDivNear
<1>2. RoundDiv(side * 254, 7 * dpi) \in Nat
  <2>1. side * 254 \in Nat /\ 7 * dpi \in Nat \ {0}  OBVIOUS
  <2> QED  BY <2>1, RoundDivNear
<1> QED  BY <1>1, <1>2 DEF StrandCount, Larger

(* A yarn is narrower than the tile.                                        *)
LEMMA WidthBounds ==
  ASSUME NEW side \in Nat \ {0}, NEW dpi \in Nat \ {0}
  PROVE  /\ ThreadWidth(side, dpi) \in Nat \ {0}
         /\ side >= 2 => ThreadWidth(side, dpi) <= side - 1
<1> DEFINE n == StrandCount(side, dpi)
           c == CeilDiv(side, n)
           d == RoundDiv(82 * side, 100 * n)
<1>1. n \in Nat \ {0}  BY StrandCountPositive
<1> HIDE DEF n
<1>2. d \in Nat
  <2>1. 82 * side \in Nat /\ 100 * n \in Nat \ {0}  BY <1>1
  <2> QED  BY <2>1, RoundDivNear
<1>3. c \in Int /\ c - 1 <= side - 1
  <2>1. side \in Int  OBVIOUS
  <2>2. c \in Int /\ (c - 1 <= c - 1 <=> (c - 1) * n < side)
    <3>1. c \in Int  BY <1>1, <2>1, CeilDivBounds
    <3>2. c - 1 \in Int  BY <3>1
    <3> HIDE DEF c
    <3>3. c - 1 <= CeilDiv(side, n) - 1 <=> (c - 1) * n < side  BY <1>1, <2>1, <3>2, CeilDivBounds
    <3> QED  BY <3>1, <3>3 DEF c
  <2> HIDE DEF c
  <2>3. (c - 1) * n < side  BY <2>2
  <2>4. c - 1 >= 1 => (c - 1) * (n - 1) >= 0  BY <1>1, <2>2
  <2>5. (c - 1) * (n - 1) = (c - 1) * n - (c - 1)  BY <1>1, <2>2
  <2>6. (c - 1) * n \in Int  BY <1>1, <2>2
  <2> QED  BY <2>2, <2>3, <2>4, <2>5, <2>6
<1>4. ThreadWidth(side, dpi) = Larger(1, Smaller(c - 1, d))
  BY DEF ThreadWidth, ThreadPeriod, n
<1> HIDE DEF c, d
<1> QED  BY <1>2, <1>3, <1>4 DEF Larger, Smaller

(* The cut at the end of a run is about a third of the width.               *)
LEMMA InsetBounds ==
  ASSUME NEW w \in Nat \ {0}
  PROVE  Inset(w) \in Nat \ {0} /\ 2 * Inset(w) <= w + 1
<1> DEFINE P(i) == 8 * i * i >= w * w /\ \A j \in 1..i - 1 : 8 * j * j < w * w
           S == {i \in Nat \ {0} : 8 * i * i >= w * w}
<1>1. PICK i \in S : \A j \in S : i <= j
  <2>1. w \in S
    <3>1. w * w \in Nat  OBVIOUS
    <3>2. 8 * w * w = 8 * (w * w)  OBVIOUS
    <3> QED  BY <3>1, <3>2
  <2>2. S \subseteq Nat /\ S # {}  BY <2>1
  <2> HIDE DEF S
  <2> QED  BY <2>2, LeastNatural
<1>2. i \in Nat \ {0} /\ 8 * i * i >= w * w  BY <1>1
<1>3. \A j \in Nat \ {0} : 8 * j * j >= w * w => i <= j
  <2> TAKE j \in Nat \ {0}
  <2> HAVE 8 * j * j >= w * w
  <2>1. j \in S  OBVIOUS
  <2> HIDE DEF S
  <2> QED  BY <1>1, <2>1
<1>4. i \in 1..w
  <2>1. w * w \in Nat /\ 8 * w * w = 8 * (w * w)  OBVIOUS
  <2> QED  BY <1>2, <1>3, <2>1
<1>5. P(i)
  <2>1. \A j \in 1..i - 1 : 8 * j * j < w * w
    <3> TAKE j \in 1..i - 1
    <3>1. j \in Nat \ {0} /\ ~(i <= j)  BY <1>2
    <3>2. 8 * j * j \in Int /\ w * w \in Int  BY <3>1
    <3> QED  BY <1>3, <3>1, <3>2
  <2> QED  BY <1>2, <2>1
<1> DEFINE m == Inset(w)
<1>6. m \in 1..w /\ P(m)
  <2>1. m = CHOOSE k \in 1..w : P(k)  BY DEF Inset
  <2> HIDE DEF P, m
  <2> QED  BY <1>4, <1>5, <2>1
<1> HIDE DEF m
<1> DEFINE j == (w + 1) \div 2
<1>7. j \in Nat \ {0} /\ 2 * j >= w /\ 2 * j <= w + 1  OBVIOUS
<1> HIDE DEF j
<1>8. 8 * j * j >= w * w
  <2>1. (2 * j - w) * (2 * j + w) >= 0
    <3> DEFINE x == 2 * j - w
               y == 2 * j + w
    <3>1. x \in Nat /\ y \in Nat  BY <1>7
    <3> HIDE DEF x, y
    <3>2. x * y >= 0  BY <3>1
    <3> QED  BY <3>2 DEF x, y
  <2>2. (2 * j - w) * (2 * j + w) = 4 * (j * j) - w * w /\ 8 * j * j = 8 * (j * j)  BY <1>7
  <2>3. j * j \in Nat /\ w * w \in Nat  BY <1>7
  <2> QED  BY <2>1, <2>2, <2>3
<1>9. m <= j
  <2> SUFFICES ASSUME j <= m - 1 PROVE FALSE  BY <1>6, <1>7
  <2>1. j \in 1..m - 1  BY <1>6, <1>7
  <2>2. 8 * j * j < w * w  BY <1>6, <2>1
  <2>3. 8 * j * j \in Int /\ w * w \in Int  BY <1>7
  <2> QED  BY <1>8, <2>2, <2>3
<1>10. m \in Nat \ {0} /\ 2 * m <= w + 1  BY <1>6, <1>7, <1>9
<1> QED  BY <1>10 DEF m

\* A run of the pixels of T along x + y = c, from a to b, in a picture of n by n.
Starts(T, c, a, n) == a \in 0..n - 1 /\ <<a, c - a>> \in T /\ <<a - 1, c - (a - 1)>> \notin T
Runs(T, c, a, b, n) ==
  b \in a..n - 1 /\ <<b + 1, c - (b + 1)>> \notin T /\ \A x \in a..b : <<x, c - x>> \in T
RunEnd(T, c, a, n) ==
  CHOOSE b \in a..n - 1 : <<b + 1, c - (b + 1)>> \notin T /\ \A x \in a..b : <<x, c - x>> \in T

LEMMA RunEndIs ==
  ASSUME NEW n \in Nat, NEW T, T \subseteq Pixels(n), NEW c \in Int, NEW a, Starts(T, c, a, n)
  PROVE  Runs(T, c, a, RunEnd(T, c, a, n), n)
<1>1. a \in 0..n - 1 /\ <<a, c - a>> \in T  BY DEF Starts
<1>2. \A x \in Int : <<x, c - x>> \in T => x \in 0..n - 1  BY DEF Pixels
<1> DEFINE S == {k \in Nat : <<a + k + 1, c - (a + k + 1)>> \notin T}
<1>3. PICK k \in S : \A j \in S : k <= j
  <2>1. n - a \in S
    <3>1. n - a \in Nat /\ a + (n - a) + 1 \in Int /\ a + (n - a) + 1 = n + 1  BY <1>1
    <3>2. <<a + (n - a) + 1, c - (a + (n - a) + 1)>> \notin T  BY <1>2, <3>1
    <3> QED  BY <3>1, <3>2
  <2>2. S \subseteq Nat /\ S # {}  BY <2>1
  <2> HIDE DEF S
  <2> QED  BY <2>2, LeastNatural
<1> DEFINE b == a + k
<1>4. k \in Nat /\ <<b + 1, c - (b + 1)>> \notin T  BY <1>3
<1>5. \A x \in a..b : <<x, c - x>> \in T
  <2> TAKE x \in a..b
  <2>1. CASE x = a  BY <1>1, <2>1
  <2>2. CASE x # a
    <3> DEFINE j == x - a - 1
    <3>1. j \in Nat /\ j < k /\ a + j + 1 = x  BY <1>1, <1>4, <2>2
    <3>2. <<a + j + 1, c - (a + j + 1)>> \notin T => j \in S  BY <3>1
    <3>3. j \notin S
      <4> HIDE DEF S, j
      <4> QED  BY <1>3, <1>4, <3>1
    <3>4. <<a + j + 1, c - (a + j + 1)>> \in T  BY <3>2, <3>3
    <3> QED  BY <3>1, <3>4
  <2> QED  BY <2>1, <2>2
<1>6. b \in a..n - 1
  <2>1. b \in a..b /\ b \in Int  BY <1>1, <1>4
  <2>2. <<b, c - b>> \in T  BY <1>5, <2>1
  <2>3. b \in 0..n - 1  BY <1>2, <2>1, <2>2
  <2> QED  BY <1>1, <1>4, <2>3
<1> HIDE DEF b
<1>7. Runs(T, c, a, b, n)  BY <1>4, <1>5, <1>6 DEF Runs
<1> DEFINE P(m) == <<m + 1, c - (m + 1)>> \notin T /\ \A x \in a..m : <<x, c - x>> \in T
<1>8. P(b)  BY <1>7 DEF Runs
<1> DEFINE e == RunEnd(T, c, a, n)
<1>9. e = CHOOSE m \in a..n - 1 : P(m)  BY DEF RunEnd
<1>10. e \in a..n - 1 /\ P(e)
  <2> HIDE DEF P, e
  <2> QED  BY <1>6, <1>8, <1>9
<1>11. Runs(T, c, a, e, n)
  <2> HIDE DEF e
  <2> QED  BY <1>10 DEF Runs
<1> QED  BY <1>11

\* The strand of such a run.
StrandOf(c, a, b, inset) == [c |-> c, from |-> a + inset, to |-> b - inset]

LEMMA StrandsAre ==
  ASSUME NEW mask, NEW side, NEW dpi, NEW s
  PROVE  s \in Strands(mask, side, dpi) <=>
           \E c \in Lines(side, dpi), a \in 0..3 * side - 1 :
             LET T == Tiled(mask, side)
                 inset == Inset(ThreadWidth(side, dpi))
                 b == RunEnd(T, c, a, 3 * side)
             IN Starts(T, c, a, 3 * side) /\ b - a >= 2 * inset /\ s = StrandOf(c, a, b, inset)
<1> DEFINE T == Tiled(mask, side)
           inset == Inset(ThreadWidth(side, dpi))
           b(c, a) == RunEnd(T, c, a, 3 * side)
           As(c) == {x \in {y \in 0..3 * side - 1 : <<y, c - y>> \in T /\ ~(<<y - 1, c - (y - 1)>> \in T)} :
                       b(c, x) - x >= 2 * inset}
           Of(c) == {StrandOf(c, a, b(c, a), inset) : a \in As(c)}
<1>1. Strands(mask, side, dpi) = UNION {Of(c) : c \in Lines(side, dpi)}
  BY DEF Strands, StrandOf, RunEnd
<1>2. s \in UNION {Of(c) : c \in Lines(side, dpi)} <=> \E c \in Lines(side, dpi) : s \in Of(c)
  <2> HIDE DEF Of
  <2> QED  OBVIOUS
<1>3. \A c : s \in Of(c) <=> \E a \in As(c) : s = StrandOf(c, a, b(c, a), inset)
  <2> HIDE DEF As
  <2> QED  OBVIOUS
<1>4. \A c, a : a \in As(c) <=> a \in 0..3 * side - 1 /\ Starts(T, c, a, 3 * side) /\ b(c, a) - a >= 2 * inset
  BY DEF Starts
<1> HIDE DEF T, inset, b, As, Of
<1>5. s \in Strands(mask, side, dpi) <=>
        \E c \in Lines(side, dpi), a \in 0..3 * side - 1 :
          Starts(T, c, a, 3 * side) /\ b(c, a) - a >= 2 * inset /\ s = StrandOf(c, a, b(c, a), inset)
  BY <1>1, <1>2, <1>3, <1>4
<1> QED  BY <1>5 DEF T, inset, b

\* A strand of one or two pixels, and the run it needs.
Short(c, t, e) == [c |-> c, from |-> t, to |-> t + e]
Window(T, c, t, e, inset) == \A x \in t - inset..t + e + inset : <<x, c - x>> \in T

\* How far a place is from the part of the line between first and last.
Over(along, first, last) ==
  IF along < first THEN first - along ELSE IF along > last THEN along - last ELSE 0

LEMMA CoversIs ==
  ASSUME NEW s, NEW p, NEW w
  PROVE  LET across == p[1] + p[2] - s.c
             over   == Over(p[1] - p[2], 2 * s.from - s.c, 2 * s.to - s.c)
         IN Covers(s, p, w) <=> 2 * (across * across + over * over) <= w * w
BY DEF Covers, Over

LEMMA OverNat ==
  ASSUME NEW along \in Int, NEW first \in Int, NEW last \in Int
  PROVE  Over(along, first, last) \in Nat
BY DEF Over

LEMMA SquareGrows ==
  ASSUME NEW x \in Nat, NEW y \in Nat, x <= y
  PROVE  x * x <= y * y
<1>1. (y - x) * (y + x) >= 0
  <2> DEFINE a == y - x
             b == y + x
  <2>1. a \in Nat /\ b \in Nat  OBVIOUS
  <2> HIDE DEF a, b
  <2>2. a * b >= 0  BY <2>1
  <2> QED  BY <2>2 DEF a, b
<1>2. (y - x) * (y + x) = y * y - x * x  OBVIOUS
<1>3. x * x \in Int /\ y * y \in Int  OBVIOUS
<1> QED  BY <1>1, <1>2, <1>3

(* A longer strand covers what a part of it covers.                         *)
LEMMA LongerCovers ==
  ASSUME NEW c \in Int, NEW f \in Int, NEW t \in Int, NEW g \in Int, NEW u \in Int,
         g <= f, f <= t, t <= u, NEW p \in Int \X Int, NEW w \in Nat,
         Covers([c |-> c, from |-> f, to |-> t], p, w)
  PROVE  Covers([c |-> c, from |-> g, to |-> u], p, w)
<1> DEFINE A == p[1] + p[2] - c
           L == p[1] - p[2]
           x == Over(L, 2 * f - c, 2 * t - c)
           y == Over(L, 2 * g - c, 2 * u - c)
<1>1. A \in Int /\ L \in Int  OBVIOUS
<1>2. x \in Nat /\ y \in Nat /\ y <= x
  <2> HIDE DEF L
  <2> QED  BY <1>1 DEF Over
<1>3. 2 * (A * A + x * x) <= w * w
  <2> DEFINE s == [c |-> c, from |-> f, to |-> t]
  <2>1. s.c = c /\ s.from = f /\ s.to = t  OBVIOUS
  <2> HIDE DEF s
  <2>2. Covers(s, p, w)  BY DEF s
  <2> QED  BY <2>1, <2>2, CoversIs
<1> HIDE DEF A, L, x, y
<1>4. y * y <= x * x  BY <1>2, SquareGrows
<1>5. 2 * (A * A + y * y) <= w * w
  <2>1. A * A \in Int /\ x * x \in Int /\ y * y \in Int /\ w * w \in Int  BY <1>1, <1>2
  <2> QED  BY <1>3, <1>4, <2>1
<1> DEFINE s == [c |-> c, from |-> g, to |-> u]
<1>6. s.c = c /\ s.from = g /\ s.to = u  OBVIOUS
<1> HIDE DEF s
<1>7. Covers(s, p, w)  BY <1>5, <1>6, CoversIs DEF A, L, y
<1> QED  BY <1>7 DEF s

(* A place that is covered is covered by one or two pixels of the strand;   *)
(* by two only if it is beside their middle.                                *)
LEMMA ShortCovers ==
  ASSUME NEW c \in Int, NEW f \in Int, NEW u \in Int, f <= u, NEW p \in Int \X Int, NEW w \in Nat,
         Covers([c |-> c, from |-> f, to |-> u], p, w)
  PROVE  \E t \in Int, e \in {0, 1} :
            /\ f <= t /\ t + e <= u /\ Covers(Short(c, t, e), p, w)
            /\ e = 1 => p[1] - p[2] = 2 * t - c + 1
<1> DEFINE A == p[1] + p[2] - c
           L == p[1] - p[2]
           x == Over(L, 2 * f - c, 2 * u - c)
<1>1. A \in Int /\ L \in Int  OBVIOUS
<1>2. 2 * (A * A + x * x) <= w * w
  <2> DEFINE s == [c |-> c, from |-> f, to |-> u]
  <2>1. s.c = c /\ s.from = f /\ s.to = u  OBVIOUS
  <2> HIDE DEF s
  <2>2. Covers(s, p, w)  BY DEF s
  <2> QED  BY <2>1, <2>2, CoversIs
<1> HIDE DEF A
<1>3. ASSUME NEW t \in Int, NEW e \in {0, 1}, Over(L, 2 * t - c, 2 * (t + e) - c) = x
      PROVE  Covers(Short(c, t, e), p, w)
  <2> DEFINE s == Short(c, t, e)
  <2>1. s.c = c /\ s.from = t /\ s.to = t + e  BY DEF Short
  <2> HIDE DEF s
  <2>2. Covers(s, p, w)  BY <1>2, <1>3, <2>1, CoversIs DEF A, L
  <2> QED  BY <2>2 DEF s
<1> HIDE DEF L, x
<1>4. \E t \in Int, e \in {0, 1} :
         /\ f <= t /\ t + e <= u /\ Over(L, 2 * t - c, 2 * (t + e) - c) = x
         /\ e = 1 => L = 2 * t - c + 1
  <2>1. CASE L < 2 * f - c
    <3>1. Over(L, 2 * f - c, 2 * (f + 0) - c) = x  BY <1>1, <2>1 DEF Over, x
    <3> QED  BY <3>1
  <2>2. CASE L > 2 * u - c
    <3>1. Over(L, 2 * u - c, 2 * (u + 0) - c) = x  BY <1>1, <2>2 DEF Over, x
    <3> QED  BY <3>1
  <2>3. CASE 2 * f - c <= L /\ L <= 2 * u - c
    <3>1. x = 0  BY <1>1, <2>3 DEF Over, x
    <3> DEFINE t == (L + c) \div 2
               e == (L + c) % 2
    <3>2. t \in Int /\ e \in {0, 1} /\ L + c = 2 * t + e  BY <1>1
    <3> HIDE DEF t, e
    <3>3. f <= t /\ t + e <= u /\ (e = 1 => L = 2 * t - c + 1)  BY <1>1, <2>3, <3>2
    <3>4. Over(L, 2 * t - c, 2 * (t + e) - c) = 0  BY <1>1, <3>2 DEF Over
    <3> QED  BY <3>1, <3>2, <3>3, <3>4
  <2> QED  BY <1>1, <2>1, <2>2, <2>3
<1>5. PICK t \in Int, e \in {0, 1} :
         /\ f <= t /\ t + e <= u /\ Over(L, 2 * t - c, 2 * (t + e) - c) = x
         /\ e = 1 => L = 2 * t - c + 1
  BY <1>4
<1>6. Covers(Short(c, t, e), p, w)  BY <1>3, <1>5
<1> QED  BY <1>5, <1>6 DEF L

LEMMA TiledInBox ==
  ASSUME NEW mask, NEW side \in Nat
  PROVE  Tiled(mask, side) \subseteq Pixels(3 * side) /\ 3 * side \in Nat
BY DEF Tiled

LEMMA LinesAreInt ==
  ASSUME NEW side \in Nat \ {0}, NEW dpi \in Nat \ {0}
  PROVE  Lines(side, dpi) \subseteq Int
<1> DEFINE n == StrandCount(side, dpi)
           f == ThreadWidth(side, dpi) \div 2
<1>1. n \in Nat \ {0}  BY StrandCountPositive
<1>2. f \in Int  BY WidthBounds
<1>3. \A k \in Int : (k * side) \div n \in Int
  <2> TAKE k \in Int
  <2>1. k * side \in Int  OBVIOUS
  <2> QED  BY <1>1, <2>1, DivMod
<1>4. \A c \in Lines(side, dpi) : \E k \in Int : c = f + (k * side) \div n
  <2> DEFINE last == CeilDiv((6 * side - 1 - f) * n, side) - 1
  <2>1. Lines(side, dpi) = {f + (k * side) \div n : k \in 0..last}
    BY DEF Lines, ThreadPeriod
  <2>2. \A k \in 0..last : k \in Int
    <3> HIDE DEF last
    <3> QED  OBVIOUS
  <2> HIDE DEF last, n, f
  <2> QED  BY <2>1, <2>2
<1>5. ASSUME NEW c \in Lines(side, dpi) PROVE c \in Int
  <2>1. PICK k \in Int : c = f + (k * side) \div n  BY <1>4
  <2> DEFINE d == (k * side) \div n
  <2>2. d \in Int  BY <1>3
  <2>3. c = f + d  BY <2>1
  <2> HIDE DEF d, n, f
  <2> QED  BY <1>2, <2>2, <2>3
<1> QED  BY <1>5

(* What a strand covers has a window of the mask beside it, and what has a  *)
(* window beside it is covered by the strand of its run.                    *)
LEMMA CoveredHasWindow ==
  ASSUME NEW mask, NEW side \in Nat \ {0}, NEW dpi \in Nat \ {0}, NEW p \in Int \X Int,
         NEW s \in Strands(mask, side, dpi), Covers(s, p, ThreadWidth(side, dpi))
  PROVE  \E c \in Lines(side, dpi), t \in Int, e \in {0, 1} :
            /\ Window(Tiled(mask, side), c, t, e, Inset(ThreadWidth(side, dpi)))
            /\ Covers(Short(c, t, e), p, ThreadWidth(side, dpi))
            /\ e = 1 => p[1] - p[2] = 2 * t - c + 1
<1> DEFINE T == Tiled(mask, side)
           w == ThreadWidth(side, dpi)
           i == Inset(w)
           n == 3 * side
<1>1. T \subseteq Pixels(n) /\ n \in Nat  BY TiledInBox
<1>2. w \in Nat \ {0} /\ i \in Nat \ {0}  BY WidthBounds, InsetBounds
<1>3. PICK c \in Lines(side, dpi), a \in 0..n - 1 :
         /\ Starts(T, c, a, n) /\ RunEnd(T, c, a, n) - a >= 2 * i
         /\ s = StrandOf(c, a, RunEnd(T, c, a, n), i)
  BY StrandsAre
<1> DEFINE b == RunEnd(T, c, a, n)
<1>4. c \in Int  BY <1>3, LinesAreInt
<1> HIDE DEF T, n, w, i
<1>5. b \in a..n - 1 /\ \A x \in a..b : <<x, c - x>> \in T
  BY <1>1, <1>3, <1>4, RunEndIs DEF Runs
<1> HIDE DEF b
<1>6. a \in Int /\ b \in Int /\ b - a >= 2 * i  BY <1>1, <1>3, <1>5 DEF b
<1>7. s = [c |-> c, from |-> a + i, to |-> b - i]  BY <1>3 DEF StrandOf, b
<1>8. Covers([c |-> c, from |-> a + i, to |-> b - i], p, w)  BY <1>7 DEF w
<1>9. a + i \in Int /\ b - i \in Int /\ a + i <= b - i /\ w \in Nat  BY <1>2, <1>6
<1>10. PICK t \in Int, e \in {0, 1} :
         /\ a + i <= t /\ t + e <= b - i /\ Covers(Short(c, t, e), p, w)
         /\ e = 1 => p[1] - p[2] = 2 * t - c + 1
  <2> DEFINE f == a + i
             u == b - i
  <2>1. f \in Int /\ u \in Int /\ f <= u /\ w \in Nat  BY <1>9
  <2>2. Covers([c |-> c, from |-> f, to |-> u], p, w)  BY <1>8
  <2> HIDE DEF f, u
  <2>3. \E t \in Int, e \in {0, 1} :
           /\ f <= t /\ t + e <= u /\ Covers(Short(c, t, e), p, w)
           /\ e = 1 => p[1] - p[2] = 2 * t - c + 1
    BY <1>4, <2>1, <2>2, ShortCovers
  <2> QED  BY <2>3 DEF f, u
<1>11. Window(T, c, t, e, i)
  <2>1. \A x \in t - i..t + e + i : x \in a..b  BY <1>2, <1>6, <1>10
  <2> QED  BY <1>5, <2>1 DEF Window
<1> QED  BY <1>10, <1>11 DEF T, w, i

LEMMA WindowIsCovered ==
  ASSUME NEW mask, NEW side \in Nat \ {0}, NEW dpi \in Nat \ {0}, NEW p \in Int \X Int,
         NEW c \in Lines(side, dpi), NEW t \in Int, NEW e \in {0, 1},
         Window(Tiled(mask, side), c, t, e, Inset(ThreadWidth(side, dpi))),
         Covers(Short(c, t, e), p, ThreadWidth(side, dpi))
  PROVE  \E s \in Strands(mask, side, dpi) : Covers(s, p, ThreadWidth(side, dpi))
<1> DEFINE T == Tiled(mask, side)
           w == ThreadWidth(side, dpi)
           i == Inset(w)
           n == 3 * side
<1>1. T \subseteq Pixels(n) /\ n \in Nat  BY TiledInBox
<1>2. w \in Nat \ {0} /\ i \in Nat \ {0}  BY WidthBounds, InsetBounds
<1>3. c \in Int  BY LinesAreInt
<1>4. Window(T, c, t, e, i) /\ Covers(Short(c, t, e), p, w)  OBVIOUS
<1>0. ASSUME NEW a \in 0..n - 1, Starts(T, c, a, n), RunEnd(T, c, a, n) - a >= 2 * i
      PROVE  StrandOf(c, a, RunEnd(T, c, a, n), i) \in Strands(mask, side, dpi)
  BY <1>0, StrandsAre
<1> HIDE DEF T, w, i, n
<1>5. t \in t - i..t + e + i /\ t + e + i \in t - i..t + e + i /\ t - i \in t - i..t + e + i
  BY <1>2
<1>6. \A x \in Int : <<x, c - x>> \in T => x \in 0..n - 1  BY <1>1 DEF Pixels
<1> DEFINE S == {a \in Nat : \A x \in a..t : <<x, c - x>> \in T}
<1>7. t - i \in S
  <2>1. t - i \in Nat
    <3>1. <<t - i, c - (t - i)>> \in T  BY <1>4, <1>5 DEF Window
    <3>2. t - i \in Int  BY <1>2
    <3>3. t - i \in 0..n - 1  BY <1>6, <3>1, <3>2
    <3> QED  BY <1>1, <3>3
  <2>2. \A x \in t - i..t : x \in t - i..t + e + i  BY <1>2
  <2> QED  BY <1>4, <2>1, <2>2 DEF Window
<1>8. PICK a \in S : \A x \in S : a <= x
  <2>1. S \subseteq Nat /\ S # {}  BY <1>7
  <2> HIDE DEF S
  <2> QED  BY <2>1, LeastNatural
<1>9. a \in Nat /\ a <= t - i /\ \A x \in a..t : <<x, c - x>> \in T
  <2>1. a <= t - i
    <3> HIDE DEF S
    <3> QED  BY <1>7, <1>8
  <2> QED  BY <1>8, <2>1
<1>10. <<a - 1, c - (a - 1)>> \notin T
  <2> SUFFICES ASSUME <<a - 1, c - (a - 1)>> \in T PROVE FALSE  OBVIOUS
  <2>1. a - 1 \in Nat  BY <1>6, <1>9
  <2>2. \A x \in a - 1..t : x = a - 1 \/ x \in a..t  BY <1>9
  <2>3. a - 1 \in S  BY <1>9, <2>1, <2>2
  <2> HIDE DEF S
  <2> QED  BY <1>8, <1>9, <2>3
<1>11. Starts(T, c, a, n)
  <2>1. a \in a..t /\ a \in Int  BY <1>2, <1>9
  <2>2. <<a, c - a>> \in T  BY <1>9, <2>1
  <2> QED  BY <1>6, <1>10, <2>1, <2>2 DEF Starts
<1> DEFINE b == RunEnd(T, c, a, n)
<1>12. b \in a..n - 1 /\ <<b + 1, c - (b + 1)>> \notin T /\ \A x \in a..b : <<x, c - x>> \in T
  BY <1>1, <1>3, <1>11, RunEndIs DEF Runs
<1> HIDE DEF b
<1>13. b >= t + e + i
  <2> SUFFICES ASSUME b + 1 <= t + e + i PROVE FALSE  BY <1>1, <1>2, <1>12
  <2>1. b + 1 \in a..t \/ b + 1 \in t - i..t + e + i  BY <1>1, <1>2, <1>9, <1>12
  <2> QED  BY <1>4, <1>9, <1>12, <2>1 DEF Window
<1> DEFINE s == StrandOf(c, a, b, i)
<1>14. s \in Strands(mask, side, dpi)
  <2>1. a \in 0..n - 1  BY <1>11 DEF Starts
  <2>2. b - a >= 2 * i  BY <1>1, <1>2, <1>9, <1>12, <1>13
  <2> QED  BY <1>0, <1>11, <2>1, <2>2 DEF b
<1>15. Covers(s, p, w)
  <2>1. /\ a + i \in Int /\ t + e \in Int /\ b - i \in Int /\ w \in Nat
        /\ a + i <= t /\ t <= t + e /\ t + e <= b - i
    BY <1>1, <1>2, <1>9, <1>12, <1>13
  <2>2. Covers([c |-> c, from |-> t, to |-> t + e], p, w)  BY <1>4 DEF Short
  <2>3. Covers([c |-> c, from |-> a + i, to |-> b - i], p, w)  BY <1>3, <2>1, <2>2, LongerCovers
  <2> QED  BY <2>3 DEF StrandOf
<1> QED  BY <1>14, <1>15 DEF w

(* A place is beside the middle of the yarn that covers it, and no part of  *)
(* the window is more than a tile away.                                     *)
LEMMA WindowIsNear ==
  ASSUME NEW c \in Int, NEW t \in Int, NEW e \in {0, 1}, NEW p \in Int \X Int,
         NEW w \in Nat \ {0}, NEW i \in Nat, NEW side \in Nat, 2 * i + w <= 2 * side,
         Covers(Short(c, t, e), p, w), e = 1 => p[1] - p[2] = 2 * t - c + 1
  PROVE  /\ Abs(p[1] + p[2] - c) <= w - 1
         /\ \A x \in t - i..t + e + i : Abs(x - p[1]) <= side /\ Abs(c - x - p[2]) <= side
<1> DEFINE A == p[1] + p[2] - c
           L == p[1] - p[2]
           o == Over(L, 2 * t - c, 2 * (t + e) - c)
           B == Abs(A)
<1>1. A \in Int /\ L \in Int /\ o \in Nat /\ B \in Nat /\ e \in Int
  <2>1. A \in Int /\ L \in Int /\ e \in Int  OBVIOUS
  <2>2. 2 * t - c \in Int /\ 2 * (t + e) - c \in Int  BY <2>1
  <2>3. o \in Nat
    <3> HIDE DEF L
    <3> QED  BY <2>1, <2>2, OverNat
  <2>4. B \in Nat  BY <2>1 DEF Abs
  <2> QED  BY <2>1, <2>3, <2>4
<1>2. 2 * (A * A + o * o) <= w * w
  <2> DEFINE s == Short(c, t, e)
  <2>1. s.c = c /\ s.from = t /\ s.to = t + e  BY DEF Short
  <2> HIDE DEF s
  <2>2. Covers(s, p, w)  BY DEF s
  <2> QED  BY <2>1, <2>2, CoversIs
<1>3. o >= 2 * t - c - L /\ o >= L - 2 * (t + e) + c
  <2> HIDE DEF L
  <2> QED  BY <1>1 DEF Over
<1>4. B = A \/ B = -A  BY DEF Abs
<1> HIDE DEF A, o, B
<1>5. A * A = B * B  BY <1>1, <1>4
<1>6. B + o <= w
  <2> SUFFICES ASSUME w + 1 <= B + o PROVE FALSE  BY <1>1
  <2> DEFINE z == B + o
             v == B - o
  <2>1. w <= z /\ z \in Nat /\ v \in Int  BY <1>1
  <2>2. w * w + w + w + 1 <= z * z
    <3>1. w + 1 <= z  OBVIOUS
    <3> HIDE DEF z
    <3>2. (w + 1) * (w + 1) <= z * z  BY <2>1, <3>1, SquareGrows
    <3>3. (w + 1) * (w + 1) = w * w + w + w + 1  OBVIOUS
    <3> QED  BY <3>2, <3>3
  <2>3. 2 * (B * B + o * o) = z * z + v * v  BY <1>1
  <2>4. v * v >= 0
    <3> HIDE DEF v
    <3> QED  BY <2>1
  <2>5. z * z \in Int /\ v * v \in Int /\ w * w \in Int  BY <2>1
  <2> HIDE DEF z, v
  <2> QED  BY <1>2, <1>5, <2>2, <2>3, <2>4, <2>5
<1>7. B <= w - 1
  <2> SUFFICES ASSUME w <= B PROVE FALSE  BY <1>1
  <2>1. w * w <= B * B  BY <1>1, SquareGrows
  <2>2. o * o >= 0 /\ B * B \in Int /\ w * w \in Nat \ {0} /\ o * o \in Int
    <3>1. w * w \in Nat \ {0}  BY TimesPositive
    <3> QED  BY <1>1, <3>1
  <2> QED  BY <1>2, <1>5, <2>1, <2>2
<1>8. -B <= A /\ A <= B  BY <1>1, <1>4
<1>9. p[1] \in Int /\ p[2] \in Int /\ 2 * p[1] = A + c + L /\ 2 * p[2] = A + c - L  BY DEF A, L
<1>10. ASSUME NEW x \in t - i..t + e + i
       PROVE  Abs(x - p[1]) <= side /\ Abs(c - x - p[2]) <= side
  <2>1. 2 * (x - p[1]) = (2 * x - c - L) - A /\ 2 * (c - x - p[2]) = -(2 * x - c - L) - A
    BY <1>1, <1>9
  <2>2. 2 * x - c - L + B <= 2 * side /\ -(2 * x - c - L) + B <= 2 * side
    <3>1. CASE e = 0  BY <1>1, <1>3, <1>6, <3>1
    <3>2. CASE e = 1
      <4>1. L = 2 * t - c + 1  BY <3>2 DEF L
      <4> QED  BY <1>1, <1>7, <3>2, <4>1
    <3> QED  BY <3>1, <3>2
  <2> QED  BY <1>1, <1>8, <1>9, <2>1, <2>2 DEF Abs
<1> QED  BY <1>7, <1>10 DEF A, B

(* The lines repeat with the tile, within the three tiles that are scanned. *)
LEMMA LinesRepeat ==
  ASSUME NEW side \in Nat \ {0}, NEW dpi \in Nat \ {0}, NEW c \in Lines(side, dpi), NEW m \in Int,
         side >= 2, side <= c + m * side, c + m * side <= 5 * side,
         ThreadWidth(side, dpi) <= side
  PROVE  c + m * side \in Lines(side, dpi)
<1> DEFINE n == StrandCount(side, dpi)
           f == ThreadWidth(side, dpi) \div 2
           X == (6 * side - 1 - f) * n
           last == CeilDiv(X, side) - 1
<1>1. n \in Nat \ {0}  BY StrandCountPositive
<1>2. f \in Nat /\ f < side
  <2>1. ThreadWidth(side, dpi) \in Nat \ {0}  BY WidthBounds
  <2> QED  BY <2>1
<1>3. Lines(side, dpi) = {f + (k * side) \div n : k \in 0..last}  BY DEF Lines, ThreadPeriod
<1> HIDE DEF n, f, last
<1>4. PICK k \in 0..last : c = f + (k * side) \div n  BY <1>3
<1>5. X \in Int  BY <1>1, <1>2
<1> DEFINE h == k + m * n
           d == (k * side) \div n
           r == (k * side) % n
           ms == m * side
<1>6. k \in Int /\ h \in Int /\ k * side \in Int /\ ms \in Int  BY <1>1
<1>7. d \in Int /\ r \in 0..n - 1 /\ k * side = d * n + r  BY <1>1, <1>6, DivMod
<1>8. h * side = (d + ms) * n + r
  <2>1. h * side = k * side + (m * n) * side  BY <1>1, <1>6
  <2>2. (m * n) * side = ms * n  BY <1>1
  <2>3. (d + ms) * n = d * n + ms * n
    <3> HIDE DEF d, ms
    <3> QED  BY <1>1, <1>6, <1>7
  <2>4. k * side \in Int /\ ms * n \in Int /\ d * n \in Int  BY <1>1, <1>6, <1>7
  <2> HIDE DEF h, d, r
  <2> QED  BY <1>7, <2>1, <2>2, <2>3, <2>4
<1>9. c = f + d  BY <1>4
<1> HIDE DEF h, d, r
<1>10. d + ms \in Int  BY <1>6, <1>7
<1>11. (h * side) \div n = d + ms
  <2> DEFINE y == h * side
             q == d + ms
  <2>1. y = q * n + r /\ q \in Int /\ r \in 0..n - 1  BY <1>7, <1>8, <1>10
  <2> HIDE DEF y, q
  <2>2. y \div n = q  BY <1>1, <2>1, RestOf
  <2> QED  BY <2>2 DEF y, q
<1>12. c + m * side = f + (h * side) \div n
  <2>1. c + ms = f + (d + ms)
    <3> HIDE DEF ms
    <3> QED  BY <1>2, <1>6, <1>7, <1>9
  <2> QED  BY <1>11, <2>1
<1>13. side - f <= d + ms /\ d + ms <= 5 * side - f
  <2> HIDE DEF ms
  <2> QED  BY <1>2, <1>6, <1>7, <1>9 DEF ms
<1> DEFINE z == d + ms
<1>14. z \in Int /\ 1 <= z /\ z <= 5 * side - f  BY <1>2, <1>10, <1>13
<1> HIDE DEF z
<1>15. h >= 0
  <2>1. z * n >= 1
    <3>1. (z - 1) * n >= 0  BY <1>1, <1>14
    <3> QED  BY <1>1, <1>14, <3>1
  <2>2. h * side = z * n + r  BY <1>8 DEF z
  <2>3. h <= -1 => (-1 - h) * side >= 0  BY <1>6
  <2>4. z * n \in Int  BY <1>1, <1>14
  <2> QED  BY <1>1, <1>6, <1>7, <2>1, <2>2, <2>3, <2>4
<1>16. h * side < X
  <2> DEFINE g == 5 * side - f
             G == 6 * side - 1 - f
  <2>1. h * side = z * n + r  BY <1>8 DEF z
  <2>2. G \in Int /\ g \in Int /\ g <= G  BY <1>2
  <2>3. X = G * n  OBVIOUS
  <2> HIDE DEF g, G, X
  <2>4. (g - z) * n >= 0  BY <1>1, <1>14, <2>2 DEF g
  <2>5. g + 1 <= G  BY <1>2 DEF g, G
  <2>6. (G - g - 1) * n >= 0  BY <1>1, <2>2, <2>5
  <2>7. (G - g - 1) * n = G * n - g * n - n /\ (g - z) * n = g * n - z * n
    BY <1>1, <1>14, <2>2
  <2>8. G * n \in Int /\ g * n \in Int /\ z * n \in Int  BY <1>1, <1>14, <2>2
  <2> QED  BY <1>1, <1>7, <2>1, <2>3, <2>4, <2>6, <2>7, <2>8
<1>17. h \in 0..last
  <2>1. h <= CeilDiv(X, side) - 1 /\ CeilDiv(X, side) \in Int
    <3> HIDE DEF X
    <3> QED  BY <1>5, <1>6, <1>16, CeilDivBounds
  <2> QED  BY <1>6, <1>15, <2>1 DEF last
<1>18. f + (h * side) \div n \in {f + (l * side) \div n : l \in 0..last}  BY <1>17
<1> QED  BY <1>3, <1>12, <1>18

\* A pixel, moved by d along the yarns, and around the edges.
Slid(p, d, side) == <<(p[1] + d) % side, (p[2] - d) % side>>

LEMMA SlidIs ==
  ASSUME NEW side \in Nat \ {0}, NEW p \in Int \X Int, NEW d \in Int
  PROVE  /\ Slid(p, d, side) \in Pixels(side)
         /\ \A i, j \in Int : Slid(<<p[1] + i * side, p[2] + j * side>>, d, side) = Slid(p, d, side)
<1> DEFINE x == p[1] + d
           y == p[2] - d
<1>1. x \in Int /\ y \in Int /\ p[1] \in Int /\ p[2] \in Int  OBVIOUS
<1>2. x % side \in 0..side - 1 /\ y % side \in 0..side - 1
  <2> HIDE DEF x, y
  <2> QED  BY <1>1, DivMod
<1>3. ASSUME NEW i \in Int, NEW j \in Int
      PROVE  Slid(<<p[1] + i * side, p[2] + j * side>>, d, side) = Slid(p, d, side)
  <2>1. p[1] + i * side + d = x + i * side /\ p[2] + j * side - d = y + j * side
    BY <1>1
  <2>2. (x + i * side) % side = x % side /\ (y + j * side) % side = y % side
    <3> HIDE DEF x, y
    <3> QED  BY <1>1, RestShift
  <2> QED  BY <2>1, <2>2 DEF Slid
<1> QED  BY <1>2, <1>3 DEF Slid, Pixels

LEMMA RestApart ==
  ASSUME NEW n \in Nat \ {0}, NEW x \in Int
  PROVE  \E i \in Int : x % n = x + i * n
<1> DEFINE q == x \div n
           r == x % n
<1>1. q \in Int /\ r \in 0..n - 1 /\ x = q * n + r  BY DivMod
<1> HIDE DEF q, r
<1>2. (-q) * n = -(q * n) /\ q * n \in Int /\ -q \in Int  BY <1>1
<1>3. r = x + (-q) * n  BY <1>1, <1>2
<1> QED  BY <1>2, <1>3 DEF r

(* A yarn is moved with its mask.                                           *)
LEMMA ThreadSlides ==
  ASSUME NEW side \in Nat \ {0}, side >= 2, NEW dpi \in Nat \ {0}, NEW d \in Int,
         NEW M, NEW N, \A p \in M : Slid(p, d, side) \in N, M \subseteq Pixels(side),
         NEW p \in ThreadMask(M, side, dpi)
  PROVE  Slid(p, d, side) \in ThreadMask(N, side, dpi)
<1> DEFINE w == ThreadWidth(side, dpi)
           h == Inset(w)
           P == <<p[1] + side, p[2] + side>>
           q == Slid(p, d, side)
           Q == <<q[1] + side, q[2] + side>>
           a == q[1] - p[1]
           b == q[2] - p[2]
<1>1. p \in Pixels(side) /\ \E s \in Strands(M, side, dpi) : Covers(s, P, w)
  BY DEF ThreadMask
<1>2. /\ p[1] \in 0..side - 1 /\ p[2] \in 0..side - 1 /\ p \in Int \X Int
      /\ q[1] \in 0..side - 1 /\ q[2] \in 0..side - 1 /\ q \in Pixels(side)
  <2>1. p[1] \in 0..side - 1 /\ p[2] \in 0..side - 1 /\ p \in Int \X Int  BY <1>1 DEF Pixels
  <2>2. q \in Pixels(side)  BY <2>1, SlidIs
  <2> HIDE DEF q
  <2>3. q[1] \in 0..side - 1 /\ q[2] \in 0..side - 1  BY <2>2 DEF Pixels
  <2> QED  BY <2>1, <2>2, <2>3
<1>3. w \in Nat \ {0} /\ w <= side - 1 /\ h \in Nat /\ 2 * h + w <= 2 * side
  <2>1. w \in Nat \ {0} /\ w <= side - 1  BY WidthBounds
  <2> HIDE DEF w
  <2>2. h \in Nat \ {0} /\ 2 * h <= w + 1  BY <2>1, InsetBounds
  <2> HIDE DEF h
  <2> QED  BY <2>1, <2>2
<1>4. PICK c \in Lines(side, dpi), t \in Int, e \in {0, 1} :
         /\ Window(Tiled(M, side), c, t, e, h)
         /\ Covers(Short(c, t, e), P, w)
         /\ e = 1 => P[1] - P[2] = 2 * t - c + 1
  <2>1. P \in Int \X Int  BY <1>2
  <2> HIDE DEF P
  <2> QED  BY <1>1, <2>1, CoveredHasWindow
<1>5. \E i, j \in Int : a = d + i * side /\ b = -d + j * side
  <2> DEFINE x == p[1] + d
             y == p[2] - d
  <2>1. x \in Int /\ y \in Int  BY <1>2
  <2> HIDE DEF x, y
  <2>2. PICK i \in Int : x % side = x + i * side  BY <2>1, RestApart
  <2>3. PICK j \in Int : y % side = y + j * side  BY <2>1, RestApart
  <2>4. q[1] = x + i * side /\ q[2] = y + j * side  BY <2>2, <2>3 DEF Slid, x, y
  <2>5. i * side \in Int /\ j * side \in Int  OBVIOUS
  <2> HIDE DEF q
  <2>6. p[1] \in Int /\ p[2] \in Int  BY <1>2
  <2>7. a = d + i * side /\ b = -d + j * side  BY <2>4, <2>5, <2>6 DEF x, y
  <2> QED  BY <2>7
<1>6. PICK i, j \in Int : a = d + i * side /\ b = -d + j * side  BY <1>5
<1>7. a \in Int /\ b \in Int /\ a + b = (i + j) * side
  <2>1. a \in Int /\ b \in Int  BY <1>2
  <2> HIDE DEF a, b
  <2>2. (i + j) * side = i * side + j * side  OBVIOUS
  <2> QED  BY <1>6, <2>1, <2>2
<1>8. Q = <<P[1] + a, P[2] + b>> /\ Q[1] = P[1] + a /\ Q[2] = P[2] + b
        /\ P[1] \in Int /\ P[2] \in Int /\ P \in Int \X Int /\ Q \in Int \X Int
        /\ Q[1] \in side..2 * side - 1 /\ Q[2] \in side..2 * side - 1
  <2> HIDE DEF q
  <2> QED  BY <1>2
<1>9. c \in Int /\ e \in Int  BY LinesAreInt
<1>10. /\ Abs(P[1] + P[2] - c) <= w - 1
       /\ \A x \in t - h..t + e + h : Abs(x - P[1]) <= side /\ Abs(c - x - P[2]) <= side
  <2> HIDE DEF P, w, h
  <2> QED  BY <1>3, <1>4, <1>8, <1>9, WindowIsNear
<1> DEFINE C == c + (i + j) * side
           T == t + a
<1>11. C = c + a + b /\ C \in Int /\ T \in Int
  <2>1. C = c + (a + b)  BY <1>7
  <2> HIDE DEF a, b
  <2> QED  BY <1>7, <1>9, <2>1
<1> HIDE DEF P, Q, a, b, w, h, q
<1>12. C \in Lines(side, dpi)
  <2>1. Abs(Q[1] + Q[2] - C) <= w - 1
    <3>1. Q[1] + Q[2] - C = P[1] + P[2] - c
      <4> HIDE DEF C
      <4> QED  BY <1>7, <1>8, <1>9, <1>11
    <3> QED  BY <1>10, <3>1
  <2>2. side <= C /\ C <= 5 * side
    <3> HIDE DEF C
    <3> QED  BY <1>3, <1>8, <1>11, <2>1 DEF Abs
  <2>3. i + j \in Int /\ w <= side  BY <1>3
  <2> QED  BY <2>2, <2>3, LinesRepeat DEF w
<1> HIDE DEF C, T
<1>13. Window(Tiled(N, side), C, T, e, h)
  <2> SUFFICES ASSUME NEW z \in T - h..T + e + h PROVE <<z, C - z>> \in Tiled(N, side)
    BY DEF Window
  <2> DEFINE x == z - a
             y == c - x
  <2>0. z \in Int /\ T = t + a  BY <1>3, <1>7, <1>9, <1>11 DEF T
  <2>1. x \in t - h..t + e + h  BY <1>3, <1>7, <1>9, <2>0
  <2>2. x \in Int /\ y \in Int /\ z = x + a /\ C - z = y + b  BY <1>7, <1>9, <1>11, <2>0
  <2>3. <<x, y>> \in Tiled(M, side)  BY <1>4, <2>1 DEF Window
  <2>4. Abs(x - P[1]) <= side /\ Abs(y - P[2]) <= side  BY <1>10, <2>1
  <2> HIDE DEF x, y
  <2>5. x + a \in 0..3 * side - 1 /\ y + b \in 0..3 * side - 1  BY <1>7, <1>8, <2>2, <2>4 DEF Abs
  <2>6. <<x % side, y % side>> \in M
    <3>1. <<x, y>>[1] = x /\ <<x, y>>[2] = y  OBVIOUS
    <3> QED  BY <2>3, <3>1 DEF Tiled
  <2>7. Slid(<<x % side, y % side>>, d, side) = <<(x + a) % side, (y + b) % side>>
    <3> DEFINE u == x + d
               v == y - d
    <3>1. x + a = u + i * side /\ y + b = v + j * side /\ u \in Int /\ v \in Int
      <4>1. i * side \in Int /\ j * side \in Int  OBVIOUS
      <4> QED  BY <1>6, <2>2, <4>1
    <3>2. (u + i * side) % side = u % side /\ (v + j * side) % side = v % side
      <4> HIDE DEF u, v
      <4> QED  BY <3>1, RestShift
    <3>3. ((x % side) + d) % side = u % side  BY <2>2, RestAdd
    <3>4. ((y % side) - d) % side = v % side
      <4>1. -d \in Int /\ y % side \in Int  BY <2>2, DivMod
      <4>2. ((y % side) + (-d)) % side = (y + (-d)) % side  BY <2>2, <4>1, RestAdd
      <4>3. (y % side) + (-d) = (y % side) - d /\ y + (-d) = v  BY <2>2, <4>1
      <4> QED  BY <4>2, <4>3
    <3> QED  BY <3>1, <3>2, <3>3, <3>4 DEF Slid
  <2>8. <<(x + a) % side, (y + b) % side>> \in N  BY <2>6, <2>7
  <2>9. <<x + a, y + b>> \in Pixels(3 * side)  BY <2>5 DEF Pixels
  <2>10. <<x + a, y + b>> \in Tiled(N, side)
    <3>1. <<x + a, y + b>>[1] = x + a /\ <<x + a, y + b>>[2] = y + b  OBVIOUS
    <3> QED  BY <2>8, <2>9, <3>1 DEF Tiled
  <2> QED  BY <2>2, <2>10
<1>14. Covers(Short(C, T, e), Q, w)
  <2>1. Q[1] + Q[2] - C = P[1] + P[2] - c /\ Q[1] - Q[2] = P[1] - P[2] + (a - b)
    BY <1>7, <1>8, <1>9, <1>11
  <2>2. 2 * T - C = 2 * t - c + (a - b) /\ 2 * (T + e) - C = 2 * (t + e) - c + (a - b)
    BY <1>7, <1>9, <1>11 DEF T
  <2>4. Over(Q[1] - Q[2], 2 * T - C, 2 * (T + e) - C) = Over(P[1] - P[2], 2 * t - c, 2 * (t + e) - c)
    <3> DEFINE L == P[1] - P[2]
               f == 2 * t - c
               l == 2 * (t + e) - c
               s == a - b
    <3>1. L \in Int /\ f \in Int /\ l \in Int /\ s \in Int  BY <1>7, <1>8, <1>9
    <3> HIDE DEF L, f, l, s
    <3>2. Over(L + s, f + s, l + s) = Over(L, f, l)  BY <3>1 DEF Over
    <3> QED  BY <2>1, <2>2, <3>2 DEF L, f, l, s
  <2>5. \A g, o, r : Short(g, o, r).c = g /\ Short(g, o, r).from = o /\ Short(g, o, r).to = o + r
    BY DEF Short
  <2> DEFINE A == P[1] + P[2] - c
             O == Over(P[1] - P[2], 2 * t - c, 2 * (t + e) - c)
  <2>6. 2 * (A * A + O * O) <= w * w
    <3> DEFINE s == Short(c, t, e)
    <3>1. s.c = c /\ s.from = t /\ s.to = t + e  BY <2>5
    <3> HIDE DEF s
    <3>2. Covers(s, P, w)  BY <1>4 DEF s
    <3> QED  BY <3>1, <3>2, CoversIs
  <2> HIDE DEF A, O
  <2>7. Q[1] + Q[2] - C = A /\ Over(Q[1] - Q[2], 2 * T - C, 2 * (T + e) - C) = O
    BY <2>1, <2>4 DEF A, O
  <2> DEFINE s == Short(C, T, e)
  <2>8. s.c = C /\ s.from = T /\ s.to = T + e  BY <2>5
  <2> HIDE DEF s
  <2>9. Covers(s, Q, w)  BY <2>6, <2>7, <2>8, CoversIs
  <2> QED  BY <2>9 DEF s
<1>15. \E s \in Strands(N, side, dpi) : Covers(s, Q, w)
  BY <1>8, <1>11, <1>12, <1>13, <1>14, WindowIsCovered DEF w, h
<1> QED  BY <1>2, <1>15 DEF ThreadMask, Q, w, q

-----------------------------------------------------------------------------
\* A pixel moved along the yarns, once

Along(p, side) == Slid(p, 1, side)

LEMMA SlidBack ==
  ASSUME NEW side \in Nat \ {0}, NEW p \in Pixels(side), NEW d \in Int
  PROVE  Slid(Slid(p, d, side), -d, side) = p
<1> DEFINE x == p[1]
           y == p[2]
<1>1. x \in 0..side - 1 /\ y \in 0..side - 1 /\ p = <<x, y>>  BY DEF Pixels
<1> HIDE DEF x, y
<1>2. x + d \in Int /\ y - d \in Int /\ -d \in Int /\ d \in Int  BY <1>1
<1>3. (((x + d) % side) + (-d)) % side = ((x + d) + (-d)) % side  BY <1>2, RestAdd
<1>4. (((y - d) % side) + d) % side = ((y - d) + d) % side  BY <1>2, RestAdd
<1>5. (x + d) + (-d) = x /\ (y - d) + d = y  BY <1>1
<1>6. x % side = x /\ y % side = y  BY <1>1, OwnRest
<1>7. (y - d) % side \in Int  BY <1>2, DivMod
<1>8. ((y - d) % side) - (-d) = ((y - d) % side) + d  BY <1>7
<1>9. Slid(p, d, side) = <<(x + d) % side, (y - d) % side>>  BY DEF Slid, x, y
<1> QED  BY <1>1, <1>3, <1>4, <1>5, <1>6, <1>8, <1>9 DEF Slid

LEMMA SlidInPixels ==
  ASSUME NEW side \in Nat \ {0}, NEW p \in Pixels(side), NEW d \in Int
  PROVE  Slid(p, d, side) \in Pixels(side)
<1>1. p \in Int \X Int  BY DEF Pixels
<1> QED  BY <1>1, SlidIs

LEMMA AlongIs ==
  ASSUME NEW side \in Nat \ {0}, NEW p \in Pixels(side)
  PROVE  /\ Along(p, side) = <<(p[1] + 1) % side, (p[2] - 1) % side>>
         /\ Along(p, side) \in Pixels(side)
         /\ Slid(Along(p, side), -1, side) = p
         /\ Slid(p, -1, side) \in Pixels(side)
         /\ Along(Slid(p, -1, side), side) = p
<1>1. 1 \in Int /\ -1 \in Int  OBVIOUS
<1>2. Along(p, side) \in Pixels(side) /\ Slid(p, -1, side) \in Pixels(side)
  BY <1>1, SlidInPixels DEF Along
<1>3. Slid(Along(p, side), -1, side) = p  BY <1>1, SlidBack DEF Along
<1>4. Along(Slid(p, -1, side), side) = p
  <2>1. ASSUME NEW k \in Int PROVE Slid(Slid(p, -k, side), k, side) = p
    <3> DEFINE m == -k
    <3>1. m \in Int /\ -m = k  OBVIOUS
    <3> HIDE DEF m
    <3>2. Slid(Slid(p, m, side), -m, side) = p  BY <3>1, SlidBack
    <3> QED  BY <3>1, <3>2 DEF m
  <2>2. Slid(Slid(p, -1, side), 1, side) = p  BY <1>1, <2>1
  <2> QED  BY <2>2 DEF Along
<1> QED  BY <1>2, <1>3, <1>4 DEF Along, Slid

(* Each pixel is the next of one.                                           *)
LEMMA AlongOnto ==
  ASSUME NEW side \in Nat \ {0}, NEW q \in Pixels(side)
  PROVE  \E p \in Pixels(side) : q = Along(p, side)
BY AlongIs

LEMMA MovedAlongIs ==
  ASSUME NEW side \in Nat \ {0}, NEW mask, mask \subseteq Pixels(side)
  PROVE  /\ MovedAlong(mask, side) = {Along(p, side) : p \in mask}
         /\ MovedAlong(mask, side) \subseteq Pixels(side)
         /\ \A p \in Pixels(side) : Along(p, side) \in MovedAlong(mask, side) <=> p \in mask
<1>1. \A p \in mask : /\ Along(p, side) = <<(p[1] + 1) % side, (p[2] - 1) % side>>
                      /\ Along(p, side) \in Pixels(side)
  BY AlongIs
<1>2. MovedAlong(mask, side) = {Along(p, side) : p \in mask}  BY <1>1 DEF MovedAlong
<1>3. ASSUME NEW p \in Pixels(side), Along(p, side) \in MovedAlong(mask, side) PROVE p \in mask
  <2>1. PICK o \in mask : Along(p, side) = Along(o, side)  BY <1>2, <1>3
  <2>2. Slid(Along(o, side), -1, side) = o /\ Slid(Along(p, side), -1, side) = p  BY AlongIs
  <2> QED  BY <2>1, <2>2
<1> QED  BY <1>1, <1>2, <1>3

(* Two sets of pixels, one of them the other moved.                         *)
LEMMA MovedSetIs ==
  ASSUME NEW side \in Nat \ {0}, NEW A, A \subseteq Pixels(side), NEW B, B \subseteq Pixels(side),
         \A p \in Pixels(side) : Along(p, side) \in A <=> p \in B
  PROVE  A = MovedAlong(B, side)
<1>1. \A p \in Pixels(side) : Along(p, side) \in MovedAlong(B, side) <=> p \in B
  BY MovedAlongIs
<1>2. MovedAlong(B, side) \subseteq Pixels(side)  BY MovedAlongIs
<1>3. \A q \in Pixels(side) : q \in A <=> q \in MovedAlong(B, side)
  <2> TAKE q \in Pixels(side)
  <2>1. PICK p \in Pixels(side) : q = Along(p, side)  BY AlongOnto
  <2> QED  BY <1>1, <2>1
<1> QED  BY <1>2, <1>3

LEMMA ThreadMaskMoves ==
  ASSUME NEW side \in Nat \ {0}, NEW dpi \in Nat \ {0}, NEW mask, mask \subseteq Pixels(side)
  PROVE  ThreadMask(MovedAlong(mask, side), side, dpi) = MovedAlong(ThreadMask(mask, side, dpi), side)
<1> DEFINE N == MovedAlong(mask, side)
           A == ThreadMask(N, side, dpi)
           B == ThreadMask(mask, side, dpi)
<1>1. A \subseteq Pixels(side) /\ B \subseteq Pixels(side)  BY DEF ThreadMask
<1>2. N \subseteq Pixels(side) /\ \A p \in Pixels(side) : Along(p, side) \in N <=> p \in mask
  BY MovedAlongIs
<1> HIDE DEF N
<1>3. CASE side = 1
  <2>1. \A p \in Pixels(side) : p = <<0, 0>>  BY <1>3 DEF Pixels
  <2>2. \A p \in Pixels(side) : Along(p, side) = p
    <3> TAKE p \in Pixels(side)
    <3>1. Along(p, side) \in Pixels(side)  BY AlongIs
    <3> QED  BY <2>1, <3>1
  <2>3. N = mask  BY <1>2, <2>2
  <2>4. \A p \in Pixels(side) : Along(p, side) \in A <=> p \in B  BY <2>2, <2>3
  <2> HIDE DEF A, B
  <2>5. A = MovedAlong(B, side)  BY <1>1, <2>4, MovedSetIs
  <2> QED  BY <2>5 DEF A, B, N
<1>4. CASE side >= 2
  <2>1. ASSUME NEW p \in Pixels(side), p \in B PROVE Along(p, side) \in A
    <3>1. \A o \in mask : Slid(o, 1, side) \in N  BY <1>2 DEF Along
    <3>2. 1 \in Int  OBVIOUS
    <3>3. Slid(p, 1, side) \in ThreadMask(N, side, dpi)  BY <1>4, <2>1, <3>1, <3>2, ThreadSlides
    <3> QED  BY <3>3 DEF Along
  <2>2. ASSUME NEW p \in Pixels(side), Along(p, side) \in A PROVE p \in B
    <3> DEFINE m == -1
               q == Along(p, side)
    <3>1. m \in Int  OBVIOUS
    <3>2. \A o \in N : Slid(o, m, side) \in mask
      <4> TAKE o \in N
      <4>1. o \in Pixels(side)  BY <1>2
      <4>2. Along(Slid(o, -1, side), side) = o /\ Slid(o, -1, side) \in Pixels(side)  BY <4>1, AlongIs
      <4> QED  BY <1>2, <4>2
    <3>3. q \in ThreadMask(N, side, dpi)  BY <2>2
    <3>4. Slid(q, m, side) = p  BY AlongIs
    <3> HIDE DEF m, q
    <3>5. Slid(q, m, side) \in ThreadMask(mask, side, dpi)
      BY <1>2, <1>4, <3>1, <3>2, <3>3, ThreadSlides
    <3> QED  BY <3>4, <3>5
  <2> HIDE DEF A, B
  <2>3. A = MovedAlong(B, side)  BY <1>1, <2>1, <2>2, MovedSetIs
  <2> QED  BY <2>3 DEF A, B, N
<1> QED  BY <1>3, <1>4

-----------------------------------------------------------------------------
\* A design moved along the yarns, and its cloth

\* A design: layers at some of the places up to the last.
Layered(design, side) ==
  /\ \E n \in Nat : DOMAIN design \subseteq 1..n
  /\ \A i \in DOMAIN design :
       /\ DOMAIN design[i] = {"type", "paint"}
       /\ \A s \in DOMAIN design[i].paint : design[i].paint[s] \subseteq Pixels(side)

\* A picture and another, moved along.
Follows(f, g, side) ==
  /\ DOMAIN f = Pixels(side) /\ DOMAIN g = Pixels(side)
  /\ \A p \in Pixels(side) : f[Along(p, side)] = g[p]

\* The same, of sets of pixels.
TakesAlong(A, B, side) == \A p \in Pixels(side) : Along(p, side) \in A <=> p \in B

\* A layer moved along.
MovesLayer(new, old, side) ==
  /\ DOMAIN new = {"type", "paint"} /\ new.type = old.type
  /\ new.paint = [s \in DOMAIN old.paint |-> MovedAlong(old.paint[s], side)]
NewLayer(l, side) == [l EXCEPT !.paint = [s \in DOMAIN @ |-> MovedAlong(@[s], side)]]

LEMMA MovedLayer ==
  ASSUME NEW side, NEW design, Layered(design, side), NEW i \in DOMAIN design
  PROVE  MovesLayer(MovedDesign(design, side)[i], design[i], side)
<1> DEFINE new == [s \in DOMAIN design[i].paint |-> MovedAlong(design[i].paint[s], side)]
           d == design[i]
<1>1. MovedDesign(design, side)[i] = [d EXCEPT !.paint = new]  BY DEF MovedDesign
<1>2. DOMAIN d = {"type", "paint"}  BY DEF Layered
<1> HIDE DEF new, d
<1>3. /\ DOMAIN [d EXCEPT !.paint = new] = {"type", "paint"}
      /\ [d EXCEPT !.paint = new].type = d.type
      /\ [d EXCEPT !.paint = new].paint = new
  BY <1>2
<1> QED  BY <1>1, <1>3 DEF new, d, MovesLayer

LEMMA MovedIsLayered ==
  ASSUME NEW side \in Nat \ {0}, NEW design, Layered(design, side)
  PROVE  /\ Layered(MovedDesign(design, side), side)
         /\ DOMAIN MovedDesign(design, side) = DOMAIN design
<1> DEFINE moved == MovedDesign(design, side)
<1>1. DOMAIN moved = DOMAIN design  BY DEF MovedDesign
<1>2. ASSUME NEW i \in DOMAIN design
      PROVE  /\ DOMAIN moved[i] = {"type", "paint"}
             /\ \A s \in DOMAIN moved[i].paint : moved[i].paint[s] \subseteq Pixels(side)
  <2>1. MovesLayer(moved[i], design[i], side)  BY MovedLayer
  <2>2. /\ DOMAIN moved[i] = {"type", "paint"}
        /\ moved[i].paint = [s \in DOMAIN design[i].paint |-> MovedAlong(design[i].paint[s], side)]
    BY <2>1 DEF MovesLayer
  <2>3. \A s \in DOMAIN design[i].paint : MovedAlong(design[i].paint[s], side) \subseteq Pixels(side)
    <3> TAKE s \in DOMAIN design[i].paint
    <3> DEFINE x == design[i].paint[s]
    <3>1. x \subseteq Pixels(side)  BY DEF Layered
    <3> HIDE DEF x
    <3>2. MovedAlong(x, side) \subseteq Pixels(side)  BY <3>1, MovedAlongIs
    <3> QED  BY <3>2 DEF x
  <2> HIDE DEF moved
  <2> QED  BY <2>2, <2>3
<1>3. \E n \in Nat : DOMAIN design \subseteq 1..n  BY DEF Layered
<1> HIDE DEF moved
<1>4. Layered(moved, side)  BY <1>1, <1>2, <1>3 DEF Layered
<1> QED  BY <1>1, <1>4 DEF moved

LEMMA OnlyIsLayered ==
  ASSUME NEW side, NEW design, Layered(design, side), NEW S \in SUBSET DOMAIN design
  PROVE  Layered(OnlyLayers(design, S), side) /\ DOMAIN OnlyLayers(design, S) = S
<1> DEFINE only == OnlyLayers(design, S)
<1>1. DOMAIN only = S /\ \A i \in S : only[i] = design[i]
  BY DEF OnlyLayers
<1>2. \E n \in Nat : S \subseteq 1..n  BY DEF Layered
<1> HIDE DEF only
<1>3. Layered(only, side)  BY <1>1, <1>2 DEF Layered
<1> QED  BY <1>1, <1>3 DEF only

(* The moved layers of some places are those places of the moved design.    *)
LEMMA MovedOnly ==
  ASSUME NEW side, NEW design, NEW S \in SUBSET DOMAIN design
  PROVE  OnlyLayers(MovedDesign(design, side), S) = MovedDesign(OnlyLayers(design, S), side)
<1> DEFINE O == OnlyLayers(design, S)
           D == MovedDesign(design, side)
<1>1. OnlyLayers(D, S) = [i \in S |-> D[i]] /\ \A i \in S : D[i] = NewLayer(design[i], side)
  <2>1. \A i \in S : D[i] = NewLayer(design[i], side)  BY DEF MovedDesign, NewLayer
  <2> HIDE DEF D
  <2> QED  BY <2>1 DEF OnlyLayers
<1>2. DOMAIN O = S /\ \A i \in S : O[i] = design[i]  BY DEF OnlyLayers
<1>3. MovedDesign(O, side) = [i \in DOMAIN O |-> NewLayer(O[i], side)]  BY DEF MovedDesign, NewLayer
<1> HIDE DEF O, D
<1>4. [i \in S |-> D[i]] = [i \in DOMAIN O |-> NewLayer(O[i], side)]  BY <1>1, <1>2
<1> QED  BY <1>1, <1>3, <1>4 DEF O, D

LEMMA MovedParts ==
  ASSUME NEW side \in Nat \ {0}, NEW design, Layered(design, side)
  PROVE  /\ MotifLayers(MovedDesign(design, side)) = MovedDesign(MotifLayers(design), side)
         /\ WithoutMotifs(MovedDesign(design, side)) = MovedDesign(WithoutMotifs(design), side)
         /\ Layered(MotifLayers(design), side) /\ Layered(WithoutMotifs(design), side)
         /\ DOMAIN WithoutMotifs(MovedDesign(design, side)) = DOMAIN WithoutMotifs(design)
<1> DEFINE moved == MovedDesign(design, side)
           M == {i \in DOMAIN design : design[i].type = "motif"}
           G == {i \in DOMAIN design : design[i].type # "motif"}
<1>1. DOMAIN moved = DOMAIN design  BY MovedIsLayered
<1>2. \A i \in DOMAIN design : moved[i].type = design[i].type
  <2> TAKE i \in DOMAIN design
  <2>1. MovesLayer(moved[i], design[i], side)  BY MovedLayer
  <2> QED  BY <2>1 DEF MovesLayer
<1>3. M \in SUBSET DOMAIN design /\ G \in SUBSET DOMAIN design  OBVIOUS
<1> HIDE DEF moved
<1>4. MotifLayers(moved) = OnlyLayers(moved, M) /\ WithoutMotifs(moved) = OnlyLayers(moved, G)
  <2>1. {i \in DOMAIN moved : moved[i].type = "motif"} = M
        /\ {i \in DOMAIN moved : moved[i].type # "motif"} = G
    BY <1>1, <1>2
  <2> QED  BY <2>1 DEF MotifLayers, WithoutMotifs
<1>5. MotifLayers(design) = OnlyLayers(design, M) /\ WithoutMotifs(design) = OnlyLayers(design, G)
  BY DEF MotifLayers, WithoutMotifs
<1> HIDE DEF M, G
<1>6. /\ OnlyLayers(moved, M) = MovedDesign(OnlyLayers(design, M), side)
      /\ OnlyLayers(moved, G) = MovedDesign(OnlyLayers(design, G), side)
  BY <1>3, MovedOnly DEF moved
<1>7. Layered(OnlyLayers(design, M), side) /\ Layered(OnlyLayers(design, G), side)
  BY <1>3, OnlyIsLayered
<1>8. DOMAIN OnlyLayers(moved, G) = DOMAIN OnlyLayers(design, G)  BY DEF OnlyLayers
<1> QED  BY <1>4, <1>5, <1>6, <1>7, <1>8 DEF moved

LEMMA MovedSlots ==
  ASSUME NEW side \in Nat \ {0}, NEW design, Layered(design, side)
  PROVE  SlotsOf(MovedDesign(design, side)) = SlotsOf(design)
<1> DEFINE moved == MovedDesign(design, side)
<1>1. DOMAIN moved = DOMAIN design  BY MovedIsLayered
<1>2. \A i \in DOMAIN design : DOMAIN moved[i].paint = DOMAIN design[i].paint
  <2> TAKE i \in DOMAIN design
  <2>1. MovesLayer(moved[i], design[i], side)  BY MovedLayer
  <2> HIDE DEF moved
  <2>2. moved[i].paint = [s \in DOMAIN design[i].paint |-> MovedAlong(design[i].paint[s], side)]
    BY <2>1 DEF MovesLayer
  <2> QED  BY <2>2
<1> HIDE DEF moved
<1>3. SlotsOf(moved) = SlotsOf(design)  BY <1>1, <1>2 DEF SlotsOf
<1> QED  BY <1>3 DEF moved

LEMMA TopmostIs ==
  ASSUME NEW n \in Nat, NEW S, S \subseteq 1..n, S # {}
  PROVE  Topmost(S) \in S
<1> DEFINE R == {n - i : i \in S}
<1>1. R \subseteq Nat /\ R # {}
  <2>1. PICK k \in S : TRUE  OBVIOUS
  <2>2. n - k \in R  OBVIOUS
  <2>3. \A i \in S : n - i \in Nat  OBVIOUS
  <2> QED  BY <2>2, <2>3
<1>2. PICK x \in R : \A y \in R : x <= y
  <2> HIDE DEF R
  <2> QED  BY <1>1, LeastNatural
<1>3. PICK i \in S : x = n - i  BY <1>2
<1>4. \A j \in S : j <= i
  <2> TAKE j \in S
  <2>1. n - j \in R  OBVIOUS
  <2>2. n - i <= n - j  BY <1>2, <1>3, <2>1
  <2>3. i \in Int /\ j \in Int  OBVIOUS
  <2> QED  BY <2>2, <2>3
<1>5. \E k \in S : \A j \in S : j <= k  BY <1>4
<1> QED  BY <1>5 DEF Topmost

LEMMA TopmostPainting ==
  ASSUME NEW side, NEW design, Layered(design, side), NEW p, Painting(design, p) # {}
  PROVE  Topmost(Painting(design, p)) \in Painting(design, p)
<1>1. PICK n \in Nat : DOMAIN design \subseteq 1..n  BY DEF Layered
<1>2. Painting(design, p) \subseteq 1..n  BY <1>1 DEF Painting
<1> QED  BY <1>1, <1>2, TopmostIs

LEMMA SegmentMoves ==
  ASSUME NEW side \in Nat \ {0}, NEW design, Layered(design, side)
  PROVE  Follows(Segment(MovedDesign(design, side), side), Segment(design, side), side)
<1> DEFINE moved == MovedDesign(design, side)
<1>1. DOMAIN moved = DOMAIN design  BY MovedIsLayered
<1>2. ASSUME NEW i \in DOMAIN design, NEW p \in Pixels(side)
      PROVE  PaintingWith(moved[i], Along(p, side)) = PaintingWith(design[i], p)
  <2> DEFINE paint == design[i].paint
             new == moved[i].paint
  <2>1. \A s \in DOMAIN paint : paint[s] \subseteq Pixels(side)  BY DEF Layered
  <2>0. MovesLayer(moved[i], design[i], side)  BY MovedLayer
  <2>2. new = [s \in DOMAIN paint |-> MovedAlong(paint[s], side)]  BY <2>0 DEF MovesLayer
  <2>3. ASSUME NEW s \in DOMAIN paint
        PROVE  Along(p, side) \in MovedAlong(paint[s], side) <=> p \in paint[s]
    <3>1. paint[s] \subseteq Pixels(side)  BY <2>1
    <3> DEFINE x == paint[s]
    <3> HIDE DEF x
    <3>2. Along(p, side) \in MovedAlong(x, side) <=> p \in x  BY <3>1, MovedAlongIs DEF x
    <3> QED  BY <3>2 DEF x
  <2>4. PaintingWith(moved[i], Along(p, side)) = {s \in DOMAIN new : Along(p, side) \in new[s]}
        /\ PaintingWith(design[i], p) = {s \in DOMAIN paint : p \in paint[s]}
    BY DEF PaintingWith
  <2> HIDE DEF new, paint, moved
  <2> QED  BY <2>2, <2>3, <2>4
<1> HIDE DEF moved
<1>3. ASSUME NEW p \in Pixels(side)
      PROVE  Segment(moved, side)[Along(p, side)] = Segment(design, side)[p]
  <2>1. Painting(moved, Along(p, side)) = Painting(design, p)  BY <1>1, <1>2 DEF Painting
  <2>2. Along(p, side) \in Pixels(side)  BY AlongIs
  <2> DEFINE top == Topmost(Painting(design, p))
  <2>3. Segment(moved, side)[Along(p, side)] =
           IF Painting(design, p) = {} THEN NoSlot
           ELSE OneOf(PaintingWith(moved[top], Along(p, side)))
    BY <2>1, <2>2 DEF Segment
  <2>4. Segment(design, side)[p] =
           IF Painting(design, p) = {} THEN NoSlot ELSE OneOf(PaintingWith(design[top], p))
    BY DEF Segment
  <2>5. CASE Painting(design, p) = {}
    <3> HIDE DEF top
    <3> QED  BY <2>3, <2>4, <2>5
  <2>6. CASE Painting(design, p) # {}
    <3>1. top \in Painting(design, p)  BY <2>6, TopmostPainting
    <3> HIDE DEF top
    <3>2. top \in DOMAIN design  BY <3>1 DEF Painting
    <3>3. PaintingWith(moved[top], Along(p, side)) = PaintingWith(design[top], p)  BY <1>2, <3>2
    <3> QED  BY <2>3, <2>4, <2>6, <3>3
  <2> QED  BY <2>5, <2>6
<1>4. DOMAIN Segment(moved, side) = Pixels(side) /\ DOMAIN Segment(design, side) = Pixels(side)
  BY DEF Segment
<1> QED  BY <1>3, <1>4 DEF Follows, moved

LEMMA MaskMoves ==
  ASSUME NEW side \in Nat \ {0}, NEW f, NEW g, Follows(f, g, side), NEW slot
  PROVE  /\ MaskFor(f, slot) = MovedAlong(MaskFor(g, slot), side)
         /\ MaskFor(g, slot) \subseteq Pixels(side)
<1> DEFINE A == MaskFor(f, slot)
           B == MaskFor(g, slot)
<1>1. A \subseteq Pixels(side) /\ B \subseteq Pixels(side)  BY DEF MaskFor, Follows
<1>2. \A p \in Pixels(side) : Along(p, side) \in A <=> p \in B
  <2> TAKE p \in Pixels(side)
  <2>1. Along(p, side) \in Pixels(side)  BY AlongIs
  <2> QED  BY <2>1 DEF MaskFor, Follows
<1> HIDE DEF A, B
<1>3. A = MovedAlong(B, side)  BY <1>1, <1>2, MovedSetIs
<1> QED  BY <1>1, <1>3 DEF A, B

(* The yarns of all motifs.                                                 *)
LEMMA AllThreadsMove ==
  ASSUME NEW side \in Nat \ {0}, NEW dpi \in Nat \ {0}, NEW design, Layered(design, side)
  PROVE  /\ TakesAlong(Threads(MovedDesign(design, side), side, dpi), Threads(design, side, dpi), side)
         /\ Threads(design, side, dpi) \subseteq Pixels(side)
<1> DEFINE motifs == MotifLayers(design)
           moved == MovedDesign(motifs, side)
           f == Segment(moved, side)
           g == Segment(motifs, side)
           slots == SlotsOf(motifs)
<1>1. MotifLayers(MovedDesign(design, side)) = moved /\ Layered(motifs, side)  BY MovedParts
<1>2. SlotsOf(moved) = slots /\ Follows(f, g, side)
  <2> HIDE DEF motifs
  <2> QED  BY <1>1, MovedSlots, SegmentMoves
<1>3. Threads(MovedDesign(design, side), side, dpi) =
         UNION {ThreadMask(MaskFor(f, s), side, dpi) : s \in slots}
  <2>1. Threads(MovedDesign(design, side), side, dpi) =
          UNION {ThreadMask(MaskFor(Segment(MotifLayers(MovedDesign(design, side)), side), s), side, dpi) :
                   s \in SlotsOf(MotifLayers(MovedDesign(design, side)))}
    BY DEF Threads
  <2> HIDE DEF slots
  <2> QED  BY <1>1, <1>2, <2>1 DEF f
<1>4. Threads(design, side, dpi) = UNION {ThreadMask(MaskFor(g, s), side, dpi) : s \in slots}
  BY DEF Threads
<1> HIDE DEF f, g, slots, motifs, moved
<1>5. ASSUME NEW s \in slots, NEW p \in Pixels(side)
      PROVE  Along(p, side) \in ThreadMask(MaskFor(f, s), side, dpi)
               <=> p \in ThreadMask(MaskFor(g, s), side, dpi)
  <2> DEFINE m == MaskFor(g, s)
             t == ThreadMask(m, side, dpi)
  <2>1. MaskFor(f, s) = MovedAlong(m, side) /\ m \subseteq Pixels(side)  BY <1>2, MaskMoves
  <2> HIDE DEF m
  <2>2. ThreadMask(MovedAlong(m, side), side, dpi) = MovedAlong(t, side)  BY <2>1, ThreadMaskMoves
  <2>3. t \subseteq Pixels(side)  BY DEF ThreadMask
  <2> HIDE DEF t
  <2>4. Along(p, side) \in MovedAlong(t, side) <=> p \in t  BY <2>3, MovedAlongIs
  <2> QED  BY <2>1, <2>2, <2>4 DEF t, m
<1>6. \A s \in slots : ThreadMask(MaskFor(g, s), side, dpi) \subseteq Pixels(side)
  BY DEF ThreadMask
<1> QED  BY <1>3, <1>4, <1>5, <1>6 DEF TakesAlong

LEMMA OffsetMoves ==
  ASSUME NEW side \in Nat \ {0}, NEW p \in Pixels(side), NEW d \in Int
  PROVE  Offset(Along(p, side), d, side) = Along(Offset(p, d, side), side)
         /\ Offset(p, d, side) \in Pixels(side)
<1> DEFINE x == p[1]
           y == p[2]
<1>1. x \in Int /\ y \in Int  BY DEF Pixels
<1>2. /\ Along(p, side) = <<(x + 1) % side, (y - 1) % side>>
      /\ Offset(p, d, side) = <<(x - d) % side, (y - d) % side>>
  BY DEF Along, Slid, Offset
<1> HIDE DEF x, y
<1>3. x + 1 \in Int /\ y - 1 \in Int /\ x - d \in Int /\ y - d \in Int /\ -d \in Int
      /\ 1 \in Int /\ -1 \in Int
  BY <1>1
<1>4. (((x + 1) % side) + (-d)) % side = ((x + 1) + (-d)) % side
      /\ (((y - 1) % side) + (-d)) % side = ((y - 1) + (-d)) % side
  BY <1>3, RestAdd
<1>5. (((x - d) % side) + 1) % side = ((x - d) + 1) % side
  BY <1>3, RestAdd
<1>6. (((y - d) % side) + (-1)) % side = ((y - d) + (-1)) % side
  BY <1>3, RestAdd
<1>7. /\ (x + 1) % side \in Int /\ (y - 1) % side \in Int
      /\ (x - d) % side \in 0..side - 1 /\ (y - d) % side \in 0..side - 1
  <2>1. \A a \in Int : a % side \in 0..side - 1 /\ a % side \in Int
    <3> TAKE a \in Int
    <3>1. a % side \in 0..side - 1  BY DivMod
    <3> QED  BY <3>1
  <2> QED  BY <1>3, <2>1
<1>8. (x + 1) + (-d) = (x - d) + 1 /\ (y - 1) + (-d) = (y - d) + (-1)  BY <1>1
<1>9. \A a \in Int : a - d = a + (-d)  OBVIOUS
<1>10. \A a \in Int : a - 1 = a + (-1)  OBVIOUS
<1>11. Offset(p, d, side) \in Pixels(side)  BY <1>2, <1>7 DEF Pixels
<1>12. Offset(Along(p, side), d, side) =
         <<(((x + 1) % side) + (-d)) % side, (((y - 1) % side) + (-d)) % side>>
  BY <1>2, <1>7, <1>9 DEF Offset
<1>13. Along(Offset(p, d, side), side) =
         <<(((x - d) % side) + 1) % side, (((y - d) % side) + (-1)) % side>>
  <2>1. (y - d) % side \in Int  BY <1>7
  <2>2. ((y - d) % side) - 1 = ((y - d) % side) + (-1)  BY <1>10, <2>1
  <2> QED  BY <1>2, <2>2 DEF Along, Slid
<1> QED  BY <1>4, <1>5, <1>6, <1>8, <1>11, <1>12, <1>13

LEMMA ThinIsNat ==
  ASSUME NEW um \in Nat, NEW dpi \in Nat
  PROVE  Thin(um, dpi) \in Nat /\ Thin(um, dpi) \in Int /\ -Thin(um, dpi) \in Int
<1> DEFINE x == um * dpi
           y == RoundDiv(x, 25400)
<1>1. x \in Nat /\ 25400 \in Nat \ {0}  OBVIOUS
<1> HIDE DEF x
<1>2. y \in Nat  BY <1>1, RoundDivNear
<1> HIDE DEF y
<1>3. Larger(1, y) \in Nat  BY <1>2 DEF Larger
<1>4. Thin(um, dpi) = Larger(1, y)  BY DEF Thin, y, x
<1> QED  BY <1>3, <1>4

LEMMA ShadedMoves ==
  ASSUME NEW side \in Nat \ {0}, NEW f, NEW g, Follows(f, g, side),
         NEW A, NEW B, TakesAlong(A, B, side), NEW C, NEW D, TakesAlong(C, D, side), NEW kind
  PROVE  Follows(Shaded(f, A, C, kind), Shaded(g, B, D, kind), side)
<1> DEFINE a == Shaded(f, A, C, kind)
           b == Shaded(g, B, D, kind)
<1>1. DOMAIN a = Pixels(side) /\ DOMAIN b = Pixels(side)  BY DEF Shaded, Follows
<1>2. ASSUME NEW p \in Pixels(side) PROVE a[Along(p, side)] = b[p]
  <2> DEFINE q == Along(p, side)
  <2>1. q \in Pixels(side) /\ f[q] = g[p] /\ (q \in A <=> p \in B) /\ (q \in C <=> p \in D)
    BY AlongIs DEF Follows, TakesAlong
  <2> HIDE DEF q
  <2>2. a[q] = [f[q] EXCEPT !.faces = @ \cup (IF q \in A THEN {<<kind, "lit">>} ELSE {})
                                  \cup (IF q \in C THEN {<<kind, "dark">>} ELSE {})]
    BY <2>1 DEF Shaded, Follows
  <2>3. b[p] = [g[p] EXCEPT !.faces = @ \cup (IF p \in B THEN {<<kind, "lit">>} ELSE {})
                                  \cup (IF p \in D THEN {<<kind, "dark">>} ELSE {})]
    BY DEF Shaded, Follows
  <2>4. (IF q \in A THEN {<<kind, "lit">>} ELSE {}) = (IF p \in B THEN {<<kind, "lit">>} ELSE {})
        /\ (IF q \in C THEN {<<kind, "dark">>} ELSE {}) = (IF p \in D THEN {<<kind, "dark">>} ELSE {})
    BY <2>1
  <2>5. a[q] = b[p]  BY <2>1, <2>2, <2>3, <2>4
  <2> QED  BY <2>5 DEF q
<1> HIDE DEF a, b
<1>3. Follows(a, b, side)  BY <1>1, <1>2 DEF Follows
<1> QED  BY <1>3 DEF a, b

(* What differs from its neighbor, in the yarns and in the picture.         *)
LEMMA EdgesMove ==
  ASSUME NEW side \in Nat \ {0}, NEW A, NEW B, TakesAlong(A, B, side), NEW d \in Int
  PROVE  TakesAlong({p \in A : Offset(p, d, side) \notin A}, {p \in B : Offset(p, d, side) \notin B}, side)
<1> DEFINE X == {p \in A : Offset(p, d, side) \notin A}
           Y == {p \in B : Offset(p, d, side) \notin B}
<1>1. \A p \in Pixels(side) : Along(p, side) \in X <=> p \in Y
  <2> TAKE p \in Pixels(side)
  <2>1. Offset(Along(p, side), d, side) = Along(Offset(p, d, side), side)
        /\ Offset(p, d, side) \in Pixels(side)
    BY OffsetMoves
  <2>2. Along(Offset(p, d, side), side) \in A <=> Offset(p, d, side) \in B
    BY <2>1 DEF TakesAlong
  <2>3. Along(p, side) \in A <=> p \in B  BY DEF TakesAlong
  <2> QED  BY <2>1, <2>2, <2>3
<1> QED  BY <1>1 DEF TakesAlong

LEMMA RimMoves ==
  ASSUME NEW side \in Nat \ {0}, NEW f, NEW g, Follows(f, g, side), NEW d \in Int
  PROVE  TakesAlong(Rim(f, d, side), Rim(g, d, side), side)
<1>1. ASSUME NEW p \in Pixels(side) PROVE Along(p, side) \in Rim(f, d, side) <=> p \in Rim(g, d, side)
  <2> DEFINE o == Offset(p, d, side)
             q == Along(p, side)
  <2>1. Offset(q, d, side) = Along(o, side) /\ o \in Pixels(side)  BY OffsetMoves
  <2>2. q \in Pixels(side)  BY AlongIs
  <2>3. f[q] = g[p]  BY DEF Follows
  <2> HIDE DEF o, q
  <2>4. f[Along(o, side)] = g[o]  BY <2>1 DEF Follows
  <2>5. q \in Rim(f, d, side) <=> f[q] # f[Offset(q, d, side)]  BY <2>2 DEF Rim, Follows
  <2>6. p \in Rim(g, d, side) <=> g[p] # g[o]  BY DEF Rim, Follows, o
  <2>7. q \in Rim(f, d, side) <=> p \in Rim(g, d, side)  BY <2>1, <2>3, <2>4, <2>5, <2>6
  <2> QED  BY <2>7 DEF q
<1> QED  BY <1>1 DEF TakesAlong

LEMMA ThreadReliefMoves ==
  ASSUME NEW side \in Nat \ {0}, NEW f, NEW g, Follows(f, g, side),
         NEW A, NEW B, TakesAlong(A, B, side), NEW dpi \in Nat
  PROVE  Follows(ThreadRelief(f, A, side, dpi), ThreadRelief(g, B, side, dpi), side)
<1> DEFINE d == Thin(40, dpi)
           e == -d
<1>1. d \in Int /\ e \in Int
  <2>1. 40 \in Nat  OBVIOUS
  <2> QED  BY <2>1, ThinIsNat
<1> DEFINE lit(S)  == {p \in S : Offset(p, d, side) \notin S}
           dark(S) == {p \in S : Offset(p, e, side) \notin S}
<1>2. TakesAlong(lit(A), lit(B), side) /\ TakesAlong(dark(A), dark(B), side)
  <2> HIDE DEF d, e
  <2> QED  BY <1>1, EdgesMove
<1>3. ThreadRelief(f, A, side, dpi) = Shaded(f, lit(A), dark(A), "strand")
      /\ ThreadRelief(g, B, side, dpi) = Shaded(g, lit(B), dark(B), "strand")
  BY DEF ThreadRelief
<1> HIDE DEF lit, dark, d, e
<1> DEFINE k == "strand"
           la == lit(A)
           lb == lit(B)
           da == dark(A)
           db == dark(B)
<1>4. TakesAlong(la, lb, side) /\ TakesAlong(da, db, side)  BY <1>2
<1> HIDE DEF k, la, lb, da, db
<1>5. Follows(Shaded(f, la, da, k), Shaded(g, lb, db, k), side)  BY <1>4, ShadedMoves
<1> QED  BY <1>3, <1>5 DEF k, la, lb, da, db

LEMMA ReliefMoves ==
  ASSUME NEW side \in Nat \ {0}, NEW f, NEW g, Follows(f, g, side),
         NEW s, NEW t, Follows(s, t, side), NEW dpi \in Nat
  PROVE  Follows(Relief(f, s, side, dpi), Relief(g, t, side, dpi), side)
<1> DEFINE d == Thin(170, dpi)
           e == -d
           k == "rim"
<1>1. d \in Int /\ e \in Int
  <2>1. 170 \in Nat  OBVIOUS
  <2> QED  BY <2>1, ThinIsNat
<1>2. Relief(f, s, side, dpi) = Shaded(f, Rim(s, d, side), Rim(s, e, side), k)
      /\ Relief(g, t, side, dpi) = Shaded(g, Rim(t, d, side), Rim(t, e, side), k)
  BY DEF Relief
<1> HIDE DEF d, e, k
<1>3. TakesAlong(Rim(s, d, side), Rim(t, d, side), side) /\ TakesAlong(Rim(s, e, side), Rim(t, e, side), side)
  BY <1>1, RimMoves
<1>4. Follows(Shaded(f, Rim(s, d, side), Rim(s, e, side), k), Shaded(g, Rim(t, d, side), Rim(t, e, side), k), side)
  BY <1>3, ShadedMoves
<1> QED  BY <1>2, <1>4

LEMMA WovenMoves ==
  ASSUME NEW side \in Nat \ {0}, NEW f, NEW g, Follows(f, g, side), NEW weave, NEW map
  PROVE  Follows(Woven(f, weave, map), Woven(g, weave, map), side)
<1> DEFINE a == Woven(f, weave, map)
           b == Woven(g, weave, map)
<1>1. DOMAIN a = Pixels(side) /\ DOMAIN b = Pixels(side)  BY DEF Woven, Follows
<1>2. ASSUME NEW p \in Pixels(side) PROVE a[Along(p, side)] = b[p]
  <2> DEFINE q == Along(p, side)
  <2>1. q \in Pixels(side) /\ f[q] = g[p]  BY AlongIs DEF Follows
  <2> HIDE DEF q
  <2>2. a[q] = [slot |-> f[q], weave |-> IF f[q] \in DOMAIN map THEN map[f[q]] ELSE weave,
                yarn |-> FALSE, faces |-> {}]
    BY <2>1 DEF Woven, Follows
  <2>3. b[p] = [slot |-> g[p], weave |-> IF g[p] \in DOMAIN map THEN map[g[p]] ELSE weave,
                yarn |-> FALSE, faces |-> {}]
    BY DEF Woven, Follows
  <2>4. a[q] = b[p]  BY <2>1, <2>2, <2>3
  <2> QED  BY <2>4 DEF q
<1> HIDE DEF a, b
<1>3. Follows(a, b, side)  BY <1>1, <1>2 DEF Follows
<1> QED  BY <1>3 DEF a, b

\* The yarns laid over the ground.
Laid(seg, woven, thread) ==
  [p \in DOMAIN seg |->
     IF p \in thread THEN [slot |-> seg[p], weave |-> MotifWeave, yarn |-> TRUE, faces |-> {}]
     ELSE woven[p]]

LEMMA LaidMoves ==
  ASSUME NEW side \in Nat \ {0}, NEW s, NEW t, Follows(s, t, side),
         NEW f, NEW g, Follows(f, g, side), NEW A, NEW B, TakesAlong(A, B, side)
  PROVE  Follows(Laid(s, f, A), Laid(t, g, B), side)
<1> DEFINE a == Laid(s, f, A)
           b == Laid(t, g, B)
<1>1. DOMAIN a = Pixels(side) /\ DOMAIN b = Pixels(side)  BY DEF Laid, Follows
<1>2. ASSUME NEW p \in Pixels(side) PROVE a[Along(p, side)] = b[p]
  <2> DEFINE q == Along(p, side)
  <2>1. q \in Pixels(side) /\ f[q] = g[p] /\ s[q] = t[p] /\ (q \in A <=> p \in B)
    BY AlongIs DEF Follows, TakesAlong
  <2> HIDE DEF q
  <2>2. a[q] = IF q \in A THEN [slot |-> s[q], weave |-> MotifWeave, yarn |-> TRUE, faces |-> {}]
               ELSE f[q]
    BY <2>1 DEF Laid, Follows
  <2>3. b[p] = IF p \in B THEN [slot |-> t[p], weave |-> MotifWeave, yarn |-> TRUE, faces |-> {}]
               ELSE g[p]
    BY DEF Laid, Follows
  <2>4. a[q] = b[p]  BY <2>1, <2>2, <2>3
  <2> QED  BY <2>4 DEF q
<1> HIDE DEF a, b
<1>3. Follows(a, b, side)  BY <1>1, <1>2 DEF Follows
<1> QED  BY <1>3 DEF a, b

InlaidOver(design, side, r) ==
  Laid(Segment(design, side), Woven(Segment(Ground(design), side), r.weave, r.map),
       Threads(design, side, r.dpi))

LEMMA InlaidIs ==
  ASSUME NEW cloth, NEW design, NEW side, NEW r
  PROVE  Inlaid(cloth, design, side, r) =
           IF DOMAIN WithoutMotifs(design) = {} \/ SlotsOf(MotifLayers(design)) = {} THEN cloth
           ELSE IF r.relief > 0
                THEN ThreadRelief(InlaidOver(design, side, r), Threads(design, side, r.dpi), side, r.dpi)
                ELSE InlaidOver(design, side, r)
BY DEF Inlaid, InlaidOver, Laid

LEMMA InlaidOverMoves ==
  ASSUME NEW side \in Nat \ {0}, NEW design, Layered(design, side), NEW r, r.dpi \in Nat \ {0}
  PROVE  Follows(InlaidOver(MovedDesign(design, side), side, r), InlaidOver(design, side, r), side)
<1> DEFINE moved == MovedDesign(design, side)
           s == Segment(moved, side)
           t == Segment(design, side)
           bare == Ground(design)
           f == Segment(Ground(moved), side)
           g == Segment(bare, side)
           A == Threads(moved, side, r.dpi)
           B == Threads(design, side, r.dpi)
<1>1. Follows(s, t, side)  BY SegmentMoves
<1>2. Ground(moved) = MovedDesign(bare, side) /\ Layered(bare, side)  BY MovedParts DEF Ground
<1>3. TakesAlong(A, B, side)  BY AllThreadsMove
<1>4. Follows(f, g, side)
  <2> HIDE DEF bare, moved
  <2> QED  BY <1>2, SegmentMoves
<1>5. /\ InlaidOver(moved, side, r) = Laid(s, Woven(f, r.weave, r.map), A)
      /\ InlaidOver(design, side, r) = Laid(t, Woven(g, r.weave, r.map), B)
  BY DEF InlaidOver
<1> HIDE DEF s, t, f, g, A, B, bare, moved
<1>6. Follows(Woven(f, r.weave, r.map), Woven(g, r.weave, r.map), side)  BY <1>4, WovenMoves
<1>7. Follows(Laid(s, Woven(f, r.weave, r.map), A), Laid(t, Woven(g, r.weave, r.map), B), side)
  BY <1>1, <1>3, <1>6, LaidMoves
<1> QED  BY <1>5, <1>7 DEF moved

LEMMA InlaidMoves ==
  ASSUME NEW side \in Nat \ {0}, NEW design, Layered(design, side), NEW r, r.dpi \in Nat \ {0},
         NEW f, NEW g, Follows(f, g, side)
  PROVE  Follows(Inlaid(f, MovedDesign(design, side), side, r), Inlaid(g, design, side, r), side)
<1> DEFINE moved == MovedDesign(design, side)
           a == InlaidOver(moved, side, r)
           b == InlaidOver(design, side, r)
           A == Threads(moved, side, r.dpi)
           B == Threads(design, side, r.dpi)
           none == DOMAIN WithoutMotifs(design) = {} \/ SlotsOf(MotifLayers(design)) = {}
<1>1. Follows(a, b, side)  BY InlaidOverMoves
<1>2. TakesAlong(A, B, side)  BY AllThreadsMove
<1>3. (DOMAIN WithoutMotifs(moved) = {} \/ SlotsOf(MotifLayers(moved)) = {}) <=> none
  <2> DEFINE motifs == MotifLayers(design)
  <2>1. /\ DOMAIN WithoutMotifs(moved) = DOMAIN WithoutMotifs(design)
        /\ MotifLayers(moved) = MovedDesign(motifs, side) /\ Layered(motifs, side)
    BY MovedParts
  <2> HIDE DEF motifs, moved
  <2>2. SlotsOf(MovedDesign(motifs, side)) = SlotsOf(motifs)  BY <2>1, MovedSlots
  <2> QED  BY <2>1, <2>2 DEF motifs
<1>4. Inlaid(f, moved, side, r) =
        IF none THEN f ELSE IF r.relief > 0 THEN ThreadRelief(a, A, side, r.dpi) ELSE a
  <2> DEFINE other == DOMAIN WithoutMotifs(moved) = {} \/ SlotsOf(MotifLayers(moved)) = {}
  <2>1. Inlaid(f, moved, side, r) =
          IF other THEN f ELSE IF r.relief > 0 THEN ThreadRelief(a, A, side, r.dpi) ELSE a
    BY InlaidIs
  <2>2. other <=> none  BY <1>3
  <2> HIDE DEF other, none, a, A, moved
  <2> QED  BY <2>1, <2>2
<1>5. Inlaid(g, design, side, r) =
        IF none THEN g ELSE IF r.relief > 0 THEN ThreadRelief(b, B, side, r.dpi) ELSE b
  BY InlaidIs
<1> HIDE DEF moved, a, b, A, B, none
<1>6. Follows(ThreadRelief(a, A, side, r.dpi), ThreadRelief(b, B, side, r.dpi), side)
  <2> DEFINE dpi == r.dpi
  <2>1. dpi \in Nat  OBVIOUS
  <2> HIDE DEF dpi
  <2>2. Follows(ThreadRelief(a, A, side, dpi), ThreadRelief(b, B, side, dpi), side)
    BY <1>1, <1>2, <2>1, ThreadReliefMoves
  <2> QED  BY <2>2 DEF dpi
<1>7. CASE none  BY <1>4, <1>5, <1>7 DEF moved
<1>8. CASE ~none /\ r.relief > 0  BY <1>4, <1>5, <1>6, <1>8 DEF moved
<1>9. CASE ~none /\ ~(r.relief > 0)  BY <1>1, <1>4, <1>5, <1>9 DEF moved
<1> QED  BY <1>7, <1>8, <1>9

LEMMA RenderFabricMoves ==
  ASSUME NEW side \in Nat \ {0}, NEW design, Layered(design, side), NEW r, r.dpi \in Nat \ {0}
  PROVE  Follows(RenderFabric(MovedDesign(design, side), side, r), RenderFabric(design, side, r), side)
<1> DEFINE moved == MovedDesign(design, side)
           s == Segment(moved, side)
           t == Segment(design, side)
           f == Woven(s, r.weave, r.map)
           g == Woven(t, r.weave, r.map)
           a == Inlaid(f, moved, side, r)
           b == Inlaid(g, design, side, r)
<1>1. Follows(s, t, side)  BY SegmentMoves
<1>2. Follows(f, g, side)
  <2> HIDE DEF s, t
  <2> QED  BY <1>1, WovenMoves
<1>3. Follows(a, b, side)
  <2> HIDE DEF f, g
  <2> QED  BY <1>2, InlaidMoves
<1>4. RenderFabric(moved, side, r) =
        IF r.method = "print" THEN f ELSE IF r.relief > 0 THEN Relief(a, s, side, r.dpi) ELSE a
  BY DEF RenderFabric
<1>5. RenderFabric(design, side, r) =
        IF r.method = "print" THEN g ELSE IF r.relief > 0 THEN Relief(b, t, side, r.dpi) ELSE b
  BY DEF RenderFabric
<1> HIDE DEF moved, s, t, f, g, a, b
<1>6. Follows(Relief(a, s, side, r.dpi), Relief(b, t, side, r.dpi), side)
  <2> DEFINE dpi == r.dpi
  <2>1. dpi \in Nat  OBVIOUS
  <2> HIDE DEF dpi
  <2>2. Follows(Relief(a, s, side, dpi), Relief(b, t, side, dpi), side)
    BY <1>1, <1>3, <2>1, ReliefMoves
  <2> QED  BY <2>2 DEF dpi
<1>7. CASE r.method = "print"  BY <1>2, <1>4, <1>5, <1>7 DEF moved
<1>8. CASE r.method # "print" /\ r.relief > 0  BY <1>4, <1>5, <1>6, <1>8 DEF moved
<1>9. CASE r.method # "print" /\ ~(r.relief > 0)  BY <1>3, <1>4, <1>5, <1>9 DEF moved
<1> QED  BY <1>7, <1>8, <1>9

-----------------------------------------------------------------------------
\* A motif is laid in

\* Two pixels of cloth with the same color in the same weave.
Alike(x, y) == x.slot = y.slot /\ x.weave = y.weave /\ x.yarn = y.yarn

\* A cloth's pixel, all its parts given.
Thread == {"slot", "weave", "yarn", "faces"}
IsCloth(c, side) == DOMAIN c = Pixels(side) /\ \A p \in Pixels(side) : DOMAIN c[p] = Thread

(* An emboss changes the faces only.                                        *)
LEMMA ShadedKeeps ==
  ASSUME NEW side, NEW c, IsCloth(c, side), NEW A, NEW B, NEW kind
  PROVE  /\ IsCloth(Shaded(c, A, B, kind), side)
         /\ \A p \in Pixels(side) : Alike(Shaded(c, A, B, kind)[p], c[p])
<1> DEFINE s == Shaded(c, A, B, kind)
<1>1. ASSUME NEW p \in Pixels(side) PROVE DOMAIN s[p] = Thread /\ Alike(s[p], c[p])
  <2> DEFINE x == c[p]
             new == x.faces \cup (IF p \in A THEN {<<kind, "lit">>} ELSE {})
                            \cup (IF p \in B THEN {<<kind, "dark">>} ELSE {})
  <2>1. s[p] = [x EXCEPT !.faces = new]  BY DEF Shaded, IsCloth
  <2>2. DOMAIN x = Thread  BY DEF IsCloth
  <2> HIDE DEF s, x, new
  <2>3. DOMAIN [x EXCEPT !.faces = new] = Thread /\ [x EXCEPT !.faces = new].slot = x.slot
        /\ [x EXCEPT !.faces = new].weave = x.weave /\ [x EXCEPT !.faces = new].yarn = x.yarn
    BY <2>2 DEF Thread
  <2>4. DOMAIN s[p] = Thread /\ Alike(s[p], x)  BY <2>1, <2>3 DEF Alike
  <2> QED  BY <2>4 DEF x
<1>2. DOMAIN s = Pixels(side)  BY DEF Shaded, IsCloth
<1> HIDE DEF s
<1>3. IsCloth(s, side)  BY <1>1, <1>2 DEF IsCloth
<1> QED  BY <1>1, <1>3 DEF s

LEMMA WovenIs ==
  ASSUME NEW side, NEW seg, DOMAIN seg = Pixels(side), NEW weave, NEW map
  PROVE  /\ IsCloth(Woven(seg, weave, map), side)
         /\ \A p \in Pixels(side) : Woven(seg, weave, map)[p].yarn = FALSE
<1>1. DOMAIN Woven(seg, weave, map) = Pixels(side)  BY DEF Woven
<1>2. ASSUME NEW p \in Pixels(side)
      PROVE  DOMAIN Woven(seg, weave, map)[p] = Thread /\ Woven(seg, weave, map)[p].yarn = FALSE
  BY DEF Woven, Thread
<1> QED  BY <1>1, <1>2 DEF IsCloth

(* Where no motif has a slot the picture is that of the ground.             *)
LEMMA BareSegment ==
  ASSUME NEW design, NEW side, Layered(design, side), SlotsOf(MotifLayers(design)) = {}
  PROVE  Segment(design, side) = Segment(WithoutMotifs(design), side)
<1> DEFINE ground == WithoutMotifs(design)
           G == {i \in DOMAIN design : design[i].type # "motif"}
           M == {i \in DOMAIN design : design[i].type = "motif"}
<1>1. DOMAIN ground = G /\ \A i \in G : ground[i] = design[i]  BY DEF WithoutMotifs, OnlyLayers
<1>2. \A i \in M : DOMAIN design[i].paint = {}
  <2>1. DOMAIN MotifLayers(design) = M /\ \A i \in M : MotifLayers(design)[i] = design[i]
    BY DEF MotifLayers, OnlyLayers
  <2> HIDE DEF M
  <2> QED  BY <2>1 DEF SlotsOf
<1>3. ASSUME NEW p \in Pixels(side)
      PROVE  Segment(design, side)[p] = Segment(ground, side)[p]
  <2>1. \A i \in M : PaintingWith(design[i], p) = {}  BY <1>2 DEF PaintingWith
  <2>2. \A i \in DOMAIN design : i \in G \/ i \in M  OBVIOUS
  <2>0. G \subseteq DOMAIN design  OBVIOUS
  <2> HIDE DEF ground, G, M
  <2>3. Painting(design, p) = Painting(ground, p)  BY <1>1, <2>0, <2>1, <2>2 DEF Painting
  <2> DEFINE top == Topmost(Painting(ground, p))
  <2>4. Segment(design, side)[p] =
          IF Painting(ground, p) = {} THEN NoSlot ELSE OneOf(PaintingWith(design[top], p))
    BY <2>3 DEF Segment
  <2>5. Segment(ground, side)[p] =
          IF Painting(ground, p) = {} THEN NoSlot ELSE OneOf(PaintingWith(ground[top], p))
    BY DEF Segment
  <2>6. Painting(ground, p) # {} => top \in Painting(ground, p)  BY <2>3, TopmostPainting
  <2> HIDE DEF top
  <2>7. Painting(ground, p) # {} => top \in G  BY <1>1, <2>6 DEF Painting
  <2> QED  BY <1>1, <2>4, <2>5, <2>7
<1>4. Segment(design, side) = [p \in Pixels(side) |-> Segment(design, side)[p]]
      /\ Segment(ground, side) = [p \in Pixels(side) |-> Segment(ground, side)[p]]
  BY DEF Segment
<1> HIDE DEF ground
<1>5. Segment(design, side) = Segment(ground, side)  BY <1>3, <1>4
<1> QED  BY <1>5 DEF ground

LEMMA RenderedAlike ==
  ASSUME NEW design, NEW side, NEW r, r.method # "print",
         IsCloth(Inlaid(Woven(Segment(design, side), r.weave, r.map), design, side, r), side)
  PROVE  \A p \in Pixels(side) :
           Alike(RenderFabric(design, side, r)[p],
                 Inlaid(Woven(Segment(design, side), r.weave, r.map), design, side, r)[p])
<1> DEFINE s == Segment(design, side)
           c == Inlaid(Woven(s, r.weave, r.map), design, side, r)
           d == Thin(170, r.dpi)
<1>1. RenderFabric(design, side, r) = IF r.relief > 0 THEN Relief(c, s, side, r.dpi) ELSE c
  BY DEF RenderFabric
<1>2. Relief(c, s, side, r.dpi) = Shaded(c, Rim(s, d, side), Rim(s, -d, side), "rim")
  BY DEF Relief
<1>3. IsCloth(c, side)  OBVIOUS
<1> HIDE DEF c, s, d
<1>4. \A p \in Pixels(side) : Alike(Shaded(c, Rim(s, d, side), Rim(s, -d, side), "rim")[p], c[p])
  BY <1>3, ShadedKeeps
<1>5. \A p \in Pixels(side) : Alike(RenderFabric(design, side, r)[p], c[p])
  BY <1>1, <1>2, <1>4 DEF Alike
<1> QED  BY <1>5 DEF c, s

\* What MotifsInlaid says of a pixel: out with, bare without the motifs.
InlaidPixel(out, bare) ==
  IF out.yarn THEN out.weave = MotifWeave ELSE out.slot = bare.slot /\ out.weave = bare.weave

LEMMA DesignIsInlaid ==
  ASSUME NEW design, NEW side, Layered(design, side), NEW r, r.method # "print",
         DOMAIN WithoutMotifs(design) # {}
  PROVE  \A p \in Pixels(side) :
           InlaidPixel(RenderFabric(design, side, r)[p],
                       RenderFabric(WithoutMotifs(design), side, r)[p])
<1> DEFINE ground == WithoutMotifs(design)
           s == Segment(design, side)
           t == Segment(ground, side)
           f == Woven(s, r.weave, r.map)
           g == Woven(t, r.weave, r.map)
           c == Inlaid(f, design, side, r)
           b == Inlaid(g, ground, side, r)
           thread == Threads(design, side, r.dpi)
           laid == Laid(s, g, thread)
<1>1. DOMAIN s = Pixels(side) /\ DOMAIN t = Pixels(side)  BY DEF Segment
<1>2. /\ IsCloth(f, side) /\ \A p \in Pixels(side) : f[p].yarn = FALSE
      /\ IsCloth(g, side) /\ \A p \in Pixels(side) : g[p].yarn = FALSE
  <2> DEFINE w == r.weave
             m == r.map
  <2> HIDE DEF s, t, w, m
  <2>1. IsCloth(Woven(s, w, m), side) /\ \A p \in Pixels(side) : Woven(s, w, m)[p].yarn = FALSE
    BY <1>1, WovenIs
  <2>2. IsCloth(Woven(t, w, m), side) /\ \A p \in Pixels(side) : Woven(t, w, m)[p].yarn = FALSE
    BY <1>1, WovenIs
  <2>3. f = Woven(s, w, m) /\ g = Woven(t, w, m)  BY DEF w, m
  <2> HIDE DEF f, g
  <2> QED  BY <2>1, <2>2, <2>3
<1>3. b = g
  <2>1. MotifLayers(ground) = [i \in {} |-> ground[i]]
    <3>1. {i \in DOMAIN ground : ground[i].type = "motif"} = {}
      BY DEF WithoutMotifs, OnlyLayers
    <3> HIDE DEF ground
    <3> QED  BY <3>1 DEF MotifLayers, OnlyLayers
  <2>2. SlotsOf(MotifLayers(ground)) = {}  BY <2>1 DEF SlotsOf
  <2> HIDE DEF ground, g
  <2> QED  BY <2>2, InlaidIs
<1>4. InlaidOver(design, side, r) = laid  BY DEF InlaidOver, Ground
<1>5. IsCloth(laid, side)
      /\ \A p \in Pixels(side) : IF p \in thread THEN laid[p].yarn = TRUE /\ laid[p].weave = MotifWeave
                                 ELSE laid[p] = g[p]
  <2> DEFINE l == laid
  <2>1. DOMAIN l = Pixels(side)  BY <1>1 DEF Laid
  <2>2. ASSUME NEW p \in Pixels(side)
        PROVE  /\ DOMAIN l[p] = Thread
               /\ IF p \in thread THEN l[p].yarn = TRUE /\ l[p].weave = MotifWeave ELSE l[p] = g[p]
    <3> HIDE DEF s, g, thread
    <3>1. l[p] = IF p \in thread
                 THEN [slot |-> s[p], weave |-> MotifWeave, yarn |-> TRUE, faces |-> {}] ELSE g[p]
      BY <1>1 DEF Laid
    <3> HIDE DEF l, laid
    <3>2. DOMAIN g[p] = Thread  BY <1>2 DEF IsCloth
    <3> QED  BY <3>1, <3>2 DEF Thread
  <2> HIDE DEF l, laid
  <2>3. IsCloth(l, side)  BY <2>1, <2>2 DEF IsCloth
  <2> QED  BY <2>2, <2>3 DEF l
<1>6. IsCloth(c, side) /\ \A p \in Pixels(side) : InlaidPixel(c[p], g[p])
  <2> DEFINE none == SlotsOf(MotifLayers(design)) = {}
             lit  == {p \in thread : Offset(p, Thin(40, r.dpi), side) \notin thread}
             dark == {p \in thread : Offset(p, -Thin(40, r.dpi), side) \notin thread}
  <2>1. c = IF none THEN f ELSE IF r.relief > 0 THEN ThreadRelief(laid, thread, side, r.dpi) ELSE laid
    <3> HIDE DEF f, laid, none, thread
    <3>1. c = IF DOMAIN WithoutMotifs(design) = {} \/ none THEN f
              ELSE IF r.relief > 0
                   THEN ThreadRelief(InlaidOver(design, side, r), Threads(design, side, r.dpi), side, r.dpi)
                   ELSE InlaidOver(design, side, r)
      BY InlaidIs DEF none
    <3> HIDE DEF c
    <3> QED  BY <1>4, <3>1 DEF thread
  <2>2. ThreadRelief(laid, thread, side, r.dpi) = Shaded(laid, lit, dark, "strand")
    <3> HIDE DEF laid, thread
    <3> QED  BY DEF ThreadRelief
  <2>3. CASE none
    <3>1. s = t
      <4> HIDE DEF s, t
      <4>1. Segment(design, side) = Segment(WithoutMotifs(design), side)  BY <2>3, BareSegment
      <4> QED  BY <4>1 DEF s, t
    <3>2. f = g
      <4> HIDE DEF s, t
      <4> QED  BY <3>1
    <3> HIDE DEF c, f, g, none
    <3> QED  BY <1>2, <2>1, <2>3, <3>2 DEF InlaidPixel
  <2> HIDE DEF c, f, g, none, laid, thread, lit, dark
  <2>4. \A p \in Pixels(side) : InlaidPixel(laid[p], g[p])  BY <1>2, <1>5 DEF InlaidPixel
  <2>5. CASE ~none /\ r.relief > 0
    <3>1. /\ IsCloth(Shaded(laid, lit, dark, "strand"), side)
          /\ \A p \in Pixels(side) : Alike(Shaded(laid, lit, dark, "strand")[p], laid[p])
      BY <1>5, ShadedKeeps
    <3> QED  BY <2>1, <2>2, <2>4, <2>5, <3>1 DEF InlaidPixel, Alike
  <2>6. CASE ~none /\ ~(r.relief > 0)  BY <1>5, <2>1, <2>4, <2>6
  <2> QED  BY <2>3, <2>5, <2>6
<1>7. \A p \in Pixels(side) : Alike(RenderFabric(design, side, r)[p], c[p])
  <2>1. IsCloth(Inlaid(Woven(Segment(design, side), r.weave, r.map), design, side, r), side)  BY <1>6
  <2>2. \A p \in Pixels(side) :
          Alike(RenderFabric(design, side, r)[p],
                Inlaid(Woven(Segment(design, side), r.weave, r.map), design, side, r)[p])
    BY <2>1, RenderedAlike
  <2> QED  BY <2>2
<1>8. \A p \in Pixels(side) : Alike(RenderFabric(ground, side, r)[p], b[p])
  <2>1. IsCloth(b, side)
    <3> HIDE DEF b, g
    <3> QED  BY <1>2, <1>3
  <2> HIDE DEF ground
  <2>2. IsCloth(Inlaid(Woven(Segment(ground, side), r.weave, r.map), ground, side, r), side)  BY <2>1
  <2>3. \A p \in Pixels(side) :
          Alike(RenderFabric(ground, side, r)[p],
                Inlaid(Woven(Segment(ground, side), r.weave, r.map), ground, side, r)[p])
    BY <2>2, RenderedAlike
  <2> QED  BY <2>3
<1> DEFINE x == RenderFabric(design, side, r)
           y == RenderFabric(ground, side, r)
<1> HIDE DEF b, c, g, x, y
<1>9. \A p \in Pixels(side) : InlaidPixel(x[p], y[p])
  BY <1>3, <1>6, <1>7, <1>8 DEF InlaidPixel, Alike, x, y
<1> QED  BY <1>9 DEF x, y, ground

-----------------------------------------------------------------------------
\* ThreadsMove and ClothMoves, MotifsInlaid, of one call.

LEMMA CallThreadsMove == ASSUME CallThreads PROVE ClothTiles'
<1>1. PICK m \in Masks :
        call' = [op |-> "motif_thread_mask", of |-> m, out |-> ThreadMask(m.mask, m.side, m.dpi)]
  BY DEF CallThreads
<1>2. call'.op = "motif_thread_mask" /\ call'.of = m /\ call'.out = ThreadMask(m.mask, m.side, m.dpi)
  BY <1>1
<1> DEFINE side == m.side
           dpi  == m.dpi
           mask == m.mask
<1>3. side \in Nat \ {0} /\ dpi \in Nat \ {0} /\ mask \subseteq Pixels(side)  BY MasksAssumption
<1> HIDE DEF side, dpi, mask
<1>4. ThreadMask(MovedAlong(mask, side), side, dpi) = MovedAlong(ThreadMask(mask, side, dpi), side)
  BY <1>3, ThreadMaskMoves
<1>5. ThreadsMove'  BY <1>2, <1>4 DEF ThreadsMove, side, dpi, mask
<1> QED  BY <1>2, <1>5 DEF ClothTiles

LEMMA RequestHasDpi ==
  ASSUME NEW request \in ClothRequests
  PROVE  WithDpi(request).dpi \in Nat \ {0}
<1> DEFINE new == IF request.dpi = 0 THEN FabricDpi ELSE request.dpi
<1>1. request.dpi \in Nat /\ "dpi" \in DOMAIN request  BY ClothRequestsAssumption
<1>2. WithDpi(request) = [request EXCEPT !.dpi = new]  BY DEF WithDpi
<1>3. new \in Nat \ {0}  BY <1>1, DpiAssumption
<1> HIDE DEF new
<1> QED  BY <1>1, <1>2, <1>3

LEMMA DesignIsLayered ==
  ASSUME NEW design \in Designs
  PROVE  Layered(design, Side) /\ Side \in Nat \ {0}
<1>1. DOMAIN design = 1..Len(design) /\ Len(design) \in Nat /\ Side \in Nat \ {0}
  BY DesignsAssumption
<1>2. \A i \in DOMAIN design :
        /\ DOMAIN design[i] = {"type", "paint"}
        /\ \A s \in DOMAIN design[i].paint : design[i].paint[s] \subseteq Pixels(Side)
  BY DesignsAssumption
<1> QED  BY <1>1, <1>2 DEF Layered

LEMMA CallFabricTiles == ASSUME CallFabric PROVE ClothTiles'
<1>1. PICK design \in Designs, request \in ClothRequests :
        LET r  == WithDpi(request)
            ok == ~Refused(r, PaletteSlots, Colorways)
        IN call' = [op |-> "render_fabric", design |-> design, request |-> r, ok |-> ok,
                    out |-> IF ok THEN RenderFabric(design, Side, r) ELSE <<>>]
  BY DEF CallFabric
<1> DEFINE r  == WithDpi(request)
           ok == ~Refused(r, PaletteSlots, Colorways)
<1>2. call' = [op |-> "render_fabric", design |-> design, request |-> r, ok |-> ok,
               out |-> IF ok THEN RenderFabric(design, Side, r) ELSE <<>>]
  BY <1>1
<1>3. r.dpi \in Nat \ {0}  BY RequestHasDpi
<1>4. Layered(design, Side) /\ Side \in Nat \ {0}  BY DesignIsLayered
<1>5. ok => r.method \in {"print", "yarn_dyed"}  BY DEF Refused
<1> HIDE DEF r, ok
<1>6. call'.op = "render_fabric" /\ call'.design = design /\ call'.request = r /\ call'.ok = ok
  BY <1>2
<1>7. ok => call'.out = RenderFabric(design, Side, r)  BY <1>2
<1>8. ClothMoves'
  <2> DEFINE f == RenderFabric(MovedDesign(design, Side), Side, r)
             g == RenderFabric(design, Side, r)
  <2>1. Follows(f, g, Side)  BY <1>3, <1>4, RenderFabricMoves
  <2> HIDE DEF f, g
  <2>2. ASSUME NEW p \in Pixels(Side) PROVE f[<<(p[1] + 1) % Side, (p[2] - 1) % Side>>] = g[p]
    <3>1. Along(p, Side) = <<(p[1] + 1) % Side, (p[2] - 1) % Side>>  BY <1>4, AlongIs
    <3>2. f[Along(p, Side)] = g[p]  BY <2>1 DEF Follows
    <3> QED  BY <3>1, <3>2
  <2> QED  BY <1>6, <1>7, <2>2 DEF ClothMoves, f, g
<1>9. MotifsInlaid'
  <2> SUFFICES ASSUME ok, r.method = "yarn_dyed", DOMAIN WithoutMotifs(design) # {}
               PROVE  \A p \in Pixels(Side) :
                        InlaidPixel(RenderFabric(design, Side, r)[p],
                                    RenderFabric(WithoutMotifs(design), Side, r)[p])
    BY <1>6, <1>7 DEF MotifsInlaid, InlaidPixel
  <2>1. r.method # "print"  OBVIOUS
  <2> QED  BY <1>4, <2>1, DesignIsInlaid
<1> QED  BY <1>6, <1>8, <1>9 DEF ClothTiles

(* ClothTiles of CallSpec: wherever the edge of the tile cuts a motif, its  *)
(* strands go on, and the cloth with inlay and relief repeats under a move  *)
(* along the yarns; off its strands a yarn-dyed cloth is woven as if there  *)
(* were no motif.                                                           *)
THEOREM TorusClothTiles == CallSpec => []ClothTiles
<1>1. CallInit => ClothTiles  BY DEF CallInit, NoCall, ClothTiles
<1>2. ClothTiles /\ [CallNext]_call => ClothTiles'
  <2>1. ASSUME ClothTiles, call' = call PROVE ClothTiles'
    BY <2>1 DEF ClothTiles, ThreadsMove, ClothMoves, MotifsInlaid
  <2>2. CASE CallThreads  BY <2>2, CallThreadsMove
  <2>3. CASE CallFabric  BY <2>3, CallFabricTiles
  <2>4. CASE CallClones  BY <2>4, CallsAreNamed DEF ClothTiles
  <2>5. CASE CallLattice  BY <2>5, CallsAreNamed DEF ClothTiles
  <2>6. CASE CallSateen  BY <2>6, CallsAreNamed DEF ClothTiles
  <2>7. CASE CallPoisson  BY <2>7, CallsAreNamed DEF ClothTiles
  <2>8. CASE CallPath  BY <2>8, CallsAreNamed DEF ClothTiles
  <2>9. CASE CallSnap  BY <2>9, CallsAreNamed DEF ClothTiles
  <2>10. CASE CallStripe  BY <2>10, CallsAreNamed DEF ClothTiles
  <2> QED  BY <2>1, <2>2, <2>3, <2>4, <2>5, <2>6, <2>7, <2>8, <2>9, <2>10 DEF CallNext
<1> QED  BY <1>1, <1>2, PTL DEF CallSpec
=============================================================================
