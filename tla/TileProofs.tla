----------------------------- MODULE TileProofs -----------------------------
(***************************************************************************)
(* Proofs about TileArchive, for any tiles, sizes and limits: an id and an  *)
(* address turn into each other, a directory reads as it was written, and   *)
(* an archive whose root is whole gives every tile its own payload; of one  *)
(* with leaves no tile behind the first leaf can be had.                    *)
(***************************************************************************)
EXTENDS TileArchive, FiniteSetTheorems, SequenceTheorems, WellFoundedInduction, TLAPS

-----------------------------------------------------------------------------
(* Numbers, and functions defined from their values at smaller arguments.   *)

(* A set of naturals that is not empty has a least element: of the finite  *)
(* sets 0 .. x it is the end of one that contains no other.                *)
LEMMA LeastNumber ==
  ASSUME NEW T \in SUBSET Nat, T # {}
  PROVE  \E x \in T : \A y \in T : x <= y
  <1> DEFINE Below == {0 .. x : x \in T}
  <1>1. Below \subseteq FiniteSubsetsOf(Nat) /\ Below # {}
    <2>1. \A x \in T : x \in Int /\ 0 \in Int /\ 0 .. x \in SUBSET Nat
      OBVIOUS
    <2>2. \A x \in T : IsFiniteSet(0 .. x)
      BY <2>1, FS_Interval
    <2> QED
      BY <2>1, <2>2 DEF FiniteSubsetsOf
  <1>2. PICK B \in Below : \A C \in Below : ~ (<<C, B>> \in StrictSubsetOrdering(Nat))
    BY <1>1, FS_StrictSubsetOrderingWellFounded, WFMin
  <1>3. PICK x \in T : B = 0 .. x
    BY <1>2
  <1>4. ASSUME NEW y \in T, y < x PROVE FALSE
    <2>1. 0 .. y \in Below /\ 0 .. y \subseteq 0 .. x /\ x \notin 0 .. y /\ x \in 0 .. x
      BY <1>4
    <2>2. 0 .. y # 0 .. x /\ 0 .. y \in SUBSET Nat /\ 0 .. x \in SUBSET Nat
      BY <2>1
    <2>3. <<0 .. y, 0 .. x>> \in StrictSubsetOrdering(Nat)
      BY ONLY <2>1, <2>2 DEF StrictSubsetOrdering
    <2> QED
      BY <1>2, <1>3, <2>1, <2>3
  <1> QED
    BY <1>4

(* A function whose value at s is made by step from its values at what m     *)
(* measures less exists: it is put together from functions that are right   *)
(* below a bound, which agree where they are.                               *)
Recursive(S, m, X, step) ==
    /\ m \in [S -> Nat] /\ X # {} /\ step \in [S \X [S -> X] -> X]
    /\ \A s \in S : \A f, g \in [S -> X] :
          (\A r \in S : m[r] < m[s] => f[r] = g[r]) => step[<<s, f>>] = step[<<s, g>>]

LEMMA RecursionExists ==
  ASSUME NEW S, NEW m, NEW X, NEW step, Recursive(S, m, X, step)
  PROVE  \E f \in [S -> X] : \A s \in S : f[s] = step[<<s, f>>]
  <1> USE DEF Recursive
  <1> DEFINE Good(n, g) == g \in [S -> X] /\ \A s \in S : m[s] < n => g[s] = step[<<s, g>>]
  <1>1. \A n \in Nat : \E g : Good(n, g)
    <2> DEFINE Bad == {n \in Nat : ~ \E g : Good(n, g)}
    <2> SUFFICES ASSUME Bad # {} PROVE FALSE
      OBVIOUS
    <2>1. PICK n \in Bad : \A k \in Bad : n <= k
      <3> HIDE DEF Good
      <3> Bad \in SUBSET Nat
        OBVIOUS
      <3> QED
        BY LeastNumber
    <2>2. n # 0
      <3>1. PICK x \in X : TRUE
        OBVIOUS
      <3>2. Good(0, [s \in S |-> x])
        OBVIOUS
      <3> QED
        BY <3>2
    <2>3. n \in Nat /\ n - 1 \in Nat /\ n - 1 < n
      BY <2>2
    <2>4. PICK g : Good(n - 1, g)
      <3> HIDE DEF Good
      <3>1. n - 1 \notin Bad
        BY <2>1, <2>3
      <3> QED
        BY <3>1, <2>3
    <2> DEFINE h == [s \in S |-> IF m[s] < n - 1 THEN g[s] ELSE step[<<s, g>>]]
    <2>5. h \in [S -> X]
      BY <2>4
    <2>6. ASSUME NEW s \in S, m[s] < n PROVE h[s] = step[<<s, h>>]
      <3>1. m[s] \in Nat /\ m[s] <= n - 1
        BY <2>6, <2>3
      <3>2. \A r \in S : m[r] < m[s] => g[r] = h[r]
        <4> TAKE r \in S
        <4> HAVE m[r] < m[s]
        <4>1. m[r] \in Nat /\ m[r] < n - 1
          BY <3>1, <2>3
        <4> QED
          BY <4>1
      <3>3. step[<<s, g>>] = step[<<s, h>>]
        BY <3>2, <2>4, <2>5
      <3>4. h[s] = step[<<s, g>>]
        BY <2>4
      <3> QED
        BY <3>3, <3>4
    <2>7. Good(n, h)
      BY <2>5, <2>6
    <2> HIDE DEF h, Good
    <2> QED
      BY <2>1, <2>7
  <1> DEFINE G(n) == CHOOSE g : Good(n, g)
  <1>2. \A n \in Nat : Good(n, G(n))
    <2> HIDE DEF Good
    <2> QED
      BY <1>1
  <1>3. ASSUME NEW n \in Nat, NEW k \in Nat, NEW f, NEW g, Good(n, f), Good(k, g)
        PROVE  \A s \in S : m[s] < n /\ m[s] < k => f[s] = g[s]
    <2> DEFINE Bad == {i \in Nat : \E s \in S : m[s] = i /\ i < n /\ i < k /\ f[s] # g[s]}
    <2>1. Bad = {}
      <3> SUFFICES ASSUME Bad # {} PROVE FALSE
        OBVIOUS
      <3>1. Bad \in SUBSET Nat
        OBVIOUS
      <3>2. PICK i \in Bad : \A j \in Bad : i <= j
        <4> HIDE DEF Bad
        <4> QED
          BY <3>1, LeastNumber
      <3>3. PICK s \in S : m[s] = i /\ i < n /\ i < k /\ f[s] # g[s]
        BY <3>2
      <3>4. \A r \in S : m[r] < m[s] => f[r] = g[r]
        <4> SUFFICES ASSUME NEW r \in S, m[r] < m[s], f[r] # g[r] PROVE FALSE
          OBVIOUS
        <4>1. m[r] \in Nat /\ m[r] < i /\ m[r] < n /\ m[r] < k /\ i \in Nat
          BY <3>2, <3>3
        <4>2. m[r] \in Bad
          BY <4>1
        <4> QED
          BY <4>1, <4>2, <3>2
      <3>5. step[<<s, f>>] = step[<<s, g>>]
        BY <3>4, <1>3
      <3> QED
        BY <3>3, <3>5, <1>3
    <2> QED
      BY <2>1
  <1> DEFINE f == [s \in S |-> G(m[s] + 1)[s]]
  <1>4. \A s \in S : m[s] \in Nat /\ m[s] + 1 \in Nat /\ m[s] < m[s] + 1
    OBVIOUS
  <1>5. \A s \in S : Good(m[s] + 1, G(m[s] + 1))
    <2> HIDE DEF Good, G
    <2> QED
      BY <1>2, <1>4
  <1>6. f \in [S -> X]
    <2> HIDE DEF G
    <2> QED
      BY <1>5
  <1>7. ASSUME NEW s \in S PROVE f[s] = step[<<s, f>>]
    <2> DEFINE g == G(m[s] + 1)
    <2>1. \A r \in S : m[r] < m[s] => f[r] = g[r]
      <3> TAKE r \in S
      <3> HAVE m[r] < m[s]
      <3>1. f[r] = G(m[r] + 1)[r]
        OBVIOUS
      <3>2. m[r] < m[r] + 1 /\ m[r] < m[s] + 1 /\ m[r] + 1 \in Nat /\ m[s] + 1 \in Nat
        BY <1>4
      <3> HIDE DEF Good, G, f
      <3> QED
        BY <3>1, <3>2, <1>3, <1>5
    <2>2. Good(m[s] + 1, g)
      BY <1>5
    <2>3. g \in [S -> X] /\ g[s] = step[<<s, g>>]
      <3> HIDE DEF g
      <3> QED
        BY <2>2, <1>4
    <2>4. f[s] = g[s]
      OBVIOUS
    <2> HIDE DEF f, g, Good, G
    <2>5. step[<<s, f>>] = step[<<s, g>>]
      BY <2>1, <2>3, <1>6
    <2> QED
      BY <2>3, <2>4, <2>5
  <1> QED
    <2> HIDE DEF f
    <2> QED
      BY <1>6, <1>7

(* Dividing: the quotient and the rest are the only ones.                  *)
LEMMA Divided ==
  ASSUME NEW x \in Nat, NEW b \in Nat \ {0}
  PROVE  x = b * (x \div b) + (x % b)
  OBVIOUS

LEMMA RestBelow ==
  ASSUME NEW x \in Nat, NEW b \in Nat \ {0}
  PROVE  x % b \in Nat /\ x % b < b
  OBVIOUS

LEMMA QuotientNat ==
  ASSUME NEW x \in Nat, NEW b \in Nat \ {0}
  PROVE  x \div b \in Nat
  OBVIOUS

LEMMA QuotientOf ==
  ASSUME NEW q \in Nat, NEW b \in Nat \ {0}, NEW r \in Nat, r < b
  PROVE  (b * q + r) \div b = q
  OBVIOUS

LEMMA RestOf ==
  ASSUME NEW q \in Nat, NEW b \in Nat \ {0}, NEW r \in Nat, r < b
  PROVE  (b * q + r) % b = r
  OBVIOUS

LEMMA QuotientLess ==
  ASSUME NEW x \in Nat \ {0}, NEW b \in Nat \ {0, 1}
  PROVE  x \div b < x
  OBVIOUS

LEMMA TimesNat ==
  ASSUME NEW x \in Nat, NEW y \in Nat
  PROVE  x * y \in Nat
  OBVIOUS

LEMMA TimesPos ==
  ASSUME NEW x \in Nat \ {0}, NEW y \in Nat \ {0}
  PROVE  x * y \in Nat \ {0}
  OBVIOUS

-----------------------------------------------------------------------------
(* Powers of two. *)

LEMMA TwoDef ==
  /\ TileTwo = [k \in Nat |-> IF k = 0 THEN 1 ELSE 2 * TileTwo[k - 1]]
  /\ \A k \in Nat : TileTwo[k] \in Nat \ {0}
  <1> DEFINE X == Nat \ {0}
             m == [k \in Nat |-> k]
             step == [sf \in Nat \X [Nat -> X] |->
                        IF sf[1] = 0 THEN 1 ELSE 2 * sf[2][sf[1] - 1]]
  <1>1. X # {} /\ m \in [Nat -> Nat]
    OBVIOUS
  <1>2. \A k \in Nat, f \in [Nat -> X] :
          step[<<k, f>>] = IF k = 0 THEN 1 ELSE 2 * f[k - 1]
    OBVIOUS
  <1>3. \A k \in Nat, f \in [Nat -> X] : (IF k = 0 THEN 1 ELSE 2 * f[k - 1]) \in X
    <2> SUFFICES ASSUME NEW k \in Nat, NEW f \in [Nat -> X]
                 PROVE  k # 0 => 2 * f[k - 1] \in X
      OBVIOUS
    <2> HAVE k # 0
    <2>1. k - 1 \in Nat
      OBVIOUS
    <2>2. f[k - 1] \in X
      BY <2>1
    <2> QED
      BY <2>2
  <1>4. step \in [Nat \X [Nat -> X] -> X]
    BY <1>3
  <1>5. \A k \in Nat : \A f, g \in [Nat -> X] :
          (\A r \in Nat : m[r] < m[k] => f[r] = g[r]) => step[<<k, f>>] = step[<<k, g>>]
    <2> SUFFICES ASSUME NEW k \in Nat, NEW f \in [Nat -> X], NEW g \in [Nat -> X],
                        \A r \in Nat : m[r] < m[k] => f[r] = g[r]
                 PROVE  k # 0 => f[k - 1] = g[k - 1]
      BY <1>2
    <2> QED
      OBVIOUS
  <1>6. PICK f \in [Nat -> X] : \A k \in Nat : f[k] = step[<<k, f>>]
    <2>1. Recursive(Nat, m, X, step)
      BY <1>1, <1>4, <1>5 DEF Recursive
    <2> HIDE DEF X, m, step
    <2> QED
      BY <2>1, RecursionExists
  <1>7. f = [k \in Nat |-> IF k = 0 THEN 1 ELSE 2 * f[k - 1]]
    BY <1>2, <1>6
  <1>8. TileTwo = [k \in Nat |-> IF k = 0 THEN 1 ELSE 2 * TileTwo[k - 1]]
    <2> HIDE DEF X, m, step
    <2> QED
      BY <1>7 DEF TileTwo
  <1>9. \A k \in Nat : TileTwo[k] \in X
    <2> DEFINE Bad == {k \in Nat : TileTwo[k] \notin X}
    <2> SUFFICES ASSUME Bad # {} PROVE FALSE
      OBVIOUS
    <2>1. PICK k \in Bad : \A i \in Bad : k <= i
      <3> Bad \in SUBSET Nat
        OBVIOUS
      <3> QED
        BY LeastNumber
    <2>2. k # 0
      BY <1>8
    <2>3. TileTwo[k] = 2 * TileTwo[k - 1] /\ k - 1 \in Nat
      BY <1>8, <2>2
    <2>4. TileTwo[k - 1] \in X
      BY <2>1, <2>3
    <2> QED
      BY <2>3, <2>4
  <1> QED
    BY <1>8, <1>9

LEMMA TwoStep ==
  /\ TileTwo[0] = 1
  /\ \A k \in Nat : TileTwo[k] \in Nat \ {0} /\ TileTwo[k + 1] = 2 * TileTwo[k]
  <1>1. TileTwo[0] = 1
    BY TwoDef
  <1>2. ASSUME NEW k \in Nat PROVE TileTwo[k + 1] = 2 * TileTwo[k]
    <2>1. k + 1 \in Nat /\ k + 1 # 0 /\ (k + 1) - 1 = k
      OBVIOUS
    <2> QED
      BY <2>1, TwoDef
  <1> QED
    BY <1>1, <1>2, TwoDef

LEMMA TwoSum ==
  ASSUME NEW a \in Nat
  PROVE  \A b \in Nat : TileTwo[a + b] = TileTwo[a] * TileTwo[b]
  <1> DEFINE Bad == {b \in Nat : TileTwo[a + b] # TileTwo[a] * TileTwo[b]}
  <1> SUFFICES ASSUME Bad # {} PROVE FALSE
    OBVIOUS
  <1>1. PICK b \in Bad : \A i \in Bad : b <= i
    <2> Bad \in SUBSET Nat
      OBVIOUS
    <2> QED
      BY LeastNumber
  <1>2. b # 0
    <2>1. TileTwo[a] * 1 = TileTwo[a] /\ a + 0 = a
      BY TwoStep
    <2> QED
      BY <2>1, TwoStep
  <1>3. b - 1 \in Nat /\ (b - 1) + 1 = b /\ (a + (b - 1)) + 1 = a + b /\ a + (b - 1) \in Nat
    BY <1>2
  <1>4. b - 1 \notin Bad
    BY <1>1, <1>3
  <1>5. TileTwo[a + (b - 1)] = TileTwo[a] * TileTwo[b - 1]
    BY <1>3, <1>4
  <1>6. TileTwo[a + b] = 2 * TileTwo[a + (b - 1)] /\ TileTwo[b] = 2 * TileTwo[b - 1]
    BY <1>3, TwoStep
  <1>7. \A x, y \in Nat : 2 * (x * y) = x * (2 * y)
    OBVIOUS
  <1>8. TileTwo[a] \in Nat /\ TileTwo[b - 1] \in Nat
    BY <1>3, TwoStep
  <1> QED
    BY <1>1, <1>5, <1>6, <1>7, <1>8

LEMMA TwoAscends ==
  ASSUME NEW a \in Nat, NEW b \in Nat, a <= b
  PROVE  TileTwo[a] <= TileTwo[b]
  <1>1. b - a \in Nat /\ a + (b - a) = b
    OBVIOUS
  <1>2. TileTwo[b] = TileTwo[a] * TileTwo[b - a]
    BY <1>1, TwoSum
  <1>3. \A x, y \in Nat \ {0} : x <= x * y
    OBVIOUS
  <1> QED
    BY <1>1, <1>2, <1>3, TwoStep

-----------------------------------------------------------------------------
(* Levels: the ids of the zooms below z.                                   *)

LEMMA LevelTriple ==
  ASSUME NEW z \in Nat
  PROVE  TileLevel(z) \in Nat /\ 3 * TileLevel(z) + 1 = TileTwo[2 * z]
  <1> DEFINE Whole(y) == \E q \in Nat : TileTwo[2 * y] = 3 * q + 1
             Bad == {y \in Nat : ~ Whole(y)}
  <1>1. Whole(z)
    <2> SUFFICES ASSUME Bad # {} PROVE FALSE
      OBVIOUS
    <2>1. PICK y \in Bad : \A i \in Bad : y <= i
      <3> Bad \in SUBSET Nat
        OBVIOUS
      <3> HIDE DEF Bad
      <3> QED
        BY LeastNumber
    <2>2. y # 0
      <3>1. TileTwo[2 * 0] = 3 * 0 + 1
        BY TwoStep
      <3>2. Whole(0)
        BY <3>1
      <3> HIDE DEF Whole
      <3> QED
        BY <3>2
    <2>3. y \in Nat /\ y - 1 \in Nat /\ y - 1 < y
      BY <2>2
    <2>4. Whole(y - 1)
      <3> HIDE DEF Whole
      <3> QED
        BY <2>1, <2>3
    <2>5. PICK q \in Nat : TileTwo[2 * (y - 1)] = 3 * q + 1
      BY <2>4
    <2>6. TileTwo[2 * y] = 2 * (2 * TileTwo[2 * (y - 1)])
      <3>1. 2 * (y - 1) \in Nat /\ 2 * (y - 1) + 1 \in Nat /\ (2 * (y - 1) + 1) + 1 = 2 * y
        BY <2>3
      <3>2. TileTwo[(2 * (y - 1) + 1) + 1] = 2 * TileTwo[2 * (y - 1) + 1]
        BY <3>1, TwoStep
      <3>3. TileTwo[2 * (y - 1) + 1] = 2 * TileTwo[2 * (y - 1)]
        BY <3>1, TwoStep
      <3> QED
        BY <3>1, <3>2, <3>3
    <2>7. TileTwo[2 * y] = 3 * (4 * q + 1) + 1 /\ 4 * q + 1 \in Nat
      BY <2>5, <2>6
    <2>8. Whole(y)
      BY <2>7
    <2> HIDE DEF Whole
    <2> QED
      BY <2>1, <2>8
  <1>2. PICK q \in Nat : TileTwo[2 * z] = 3 * q + 1
    BY <1>1
  <1>3. TileLevel(z) = q
    BY <1>2 DEF TileLevel
  <1> QED
    BY <1>2, <1>3

LEMMA LevelAscends ==
  ASSUME NEW y \in Nat, NEW z \in Nat, y <= z
  PROVE  TileLevel(y) <= TileLevel(z)
  <1>1. 2 * y \in Nat /\ 2 * z \in Nat /\ 2 * y <= 2 * z
    OBVIOUS
  <1>2. TileTwo[2 * y] <= TileTwo[2 * z]
    BY <1>1, TwoAscends
  <1> QED
    BY <1>2, LevelTriple

LEMMA LevelStep ==
  ASSUME NEW z \in Nat
  PROVE  TileLevel(z + 1) = TileLevel(z) + TileTwo[z] * TileTwo[z]
  <1>1. z + z = 2 * z /\ 2 * z \in Nat /\ 2 * z + 1 \in Nat /\ (2 * z + 1) + 1 = 2 * (z + 1)
        /\ z + 1 \in Nat
    OBVIOUS
  <1>2. TileTwo[2 * z] = TileTwo[z] * TileTwo[z]
    BY <1>1, TwoSum
  <1>3. TileTwo[2 * (z + 1)] = 2 * TileTwo[2 * z + 1] /\ TileTwo[2 * z + 1] = 2 * TileTwo[2 * z]
    BY <1>1, TwoStep
  <1>4. 3 * TileLevel(z + 1) + 1 = TileTwo[2 * (z + 1)] /\ TileLevel(z + 1) \in Nat
    BY <1>1, LevelTriple
  <1>5. 3 * TileLevel(z) + 1 = TileTwo[2 * z] /\ TileLevel(z) \in Nat
    BY LevelTriple
  <1> HIDE DEF TileLevel
  <1> QED
    BY <1>2, <1>3, <1>4, <1>5

LEMMA LevelOfId ==
  ASSUME NEW z \in TileZooms, NEW id \in Nat, TileLevel(z) <= id, id < TileLevel(z + 1)
  PROVE  (CHOOSE y \in TileZooms : TileLevel(y) <= id /\ id < TileLevel(y + 1)) = z
  <1>1. ASSUME NEW y \in TileZooms, TileLevel(y) <= id, id < TileLevel(y + 1)
        PROVE  y = z
    <2>1. y \in Nat /\ z \in Nat /\ y + 1 \in Nat /\ z + 1 \in Nat
      BY DEF TileZooms
    <2>2. CASE y < z
      <3>1. TileLevel(y + 1) <= TileLevel(z)
        BY <2>1, <2>2, LevelAscends
      <3> QED
        BY <1>1, <2>1, <3>1, LevelTriple
    <2>3. CASE z < y
      <3>1. TileLevel(z + 1) <= TileLevel(y)
        BY <2>1, <2>3, LevelAscends
      <3> QED
        BY <1>1, <2>1, <3>1, LevelTriple
    <2> QED
      BY <2>1, <2>2, <2>3
  <1> QED
    BY <1>1

-----------------------------------------------------------------------------
(* The curve, and the walk on it.                                          *)

LEMMA TurnInSquare ==
  ASSUME NEW z \in Nat, NEW p \in TileSquare(z), NEW rx \in 0..1, NEW ry \in 0..1
  PROVE  TileTurn(rx, ry, TileTwo[z] - 1, p) \in TileSquare(z)
  <1>1. TileTwo[z] \in Nat \ {0}
    BY TwoStep
  <1> QED
    BY <1>1 DEF TileTurn, TileSquare

LEMMA BitOf ==
  ASSUME NEW x \in Nat, NEW s \in Nat \ {0}
  PROVE  (x \div s) % 2 \in 0..1
  <1>1. x \div s \in Nat
    BY QuotientNat
  <1> QED
    BY <1>1

CurveStep(z, j, p, d) ==
    TileTwo[j - 1] * TileTwo[j - 1]
      * TileQuadrant((p[1] \div TileTwo[j - 1]) % 2, (p[2] \div TileTwo[j - 1]) % 2)
    + d[j - 1][TileTurn((p[1] \div TileTwo[j - 1]) % 2, (p[2] \div TileTwo[j - 1]) % 2,
                        TileTwo[z] - 1, p)]

LEMMA CurveStepNat ==
  ASSUME NEW z \in Nat, NEW j \in 1..z, NEW d \in [0..z -> [TileSquare(z) -> Nat]],
         NEW p \in TileSquare(z)
  PROVE  CurveStep(z, j, p, d) \in Nat
  <1> DEFINE s == TileTwo[j - 1]
             rx == (p[1] \div s) % 2
             ry == (p[2] \div s) % 2
  <1>1. j - 1 \in Nat /\ j - 1 \in 0..z
    OBVIOUS
  <1>2. s \in Nat \ {0}
    BY <1>1, TwoStep
  <1>3. p[1] \in Nat /\ p[2] \in Nat
    <2> TileTwo[z] \in Nat \ {0}
      BY TwoStep
    <2> QED
      BY DEF TileSquare
  <1>4. rx \in 0..1 /\ ry \in 0..1
    <2> HIDE DEF s
    <2> QED
      BY <1>2, <1>3, BitOf
  <1>5. TileQuadrant(rx, ry) \in Nat
    BY <1>4 DEF TileQuadrant
  <1>6. s * s * TileQuadrant(rx, ry) \in Nat
    <2> HIDE DEF s, rx, ry
    <2> DEFINE q == TileQuadrant(rx, ry)
    <2> HIDE DEF q
    <2>1. s * s \in Nat
      BY <1>2
    <2>2. q \in Nat
      BY <1>5 DEF q
    <2>3. s * s * q \in Nat
      BY <2>1, <2>2, TimesNat
    <2> QED
      BY <2>3 DEF q
  <1>7. d[j - 1][TileTurn(rx, ry, TileTwo[z] - 1, p)] \in Nat
    <2> HIDE DEF rx, ry
    <2>1. TileTurn(rx, ry, TileTwo[z] - 1, p) \in TileSquare(z)
      BY <1>4, TurnInSquare
    <2>2. d[j - 1] \in [TileSquare(z) -> Nat]
      BY <1>1
    <2> QED
      BY <2>1, <2>2
  <1>8. \A a, b \in Nat : a + b \in Nat
    OBVIOUS
  <1> QED
    BY <1>6, <1>7, <1>8 DEF CurveStep

LEMMA CurveDef ==
  ASSUME NEW z \in Nat
  PROVE  /\ TileCurve(z) \in [0..z -> [TileSquare(z) -> Nat]]
         /\ \A p \in TileSquare(z) : TileCurve(z)[0][p] = 0
         /\ \A j \in 1..z : \A p \in TileSquare(z) :
              TileCurve(z)[j][p] = CurveStep(z, j, p, TileCurve(z))
  <1> DEFINE S == 0..z
             X == [TileSquare(z) -> Nat]
             m == [j \in S |-> j]
             row(j, d) == [p \in TileSquare(z) |-> IF j = 0 THEN 0 ELSE CurveStep(z, j, p, d)]
             step == [sf \in S \X [S -> X] |-> row(sf[1], sf[2])]
  <1>1. m \in [S -> Nat] /\ X # {}
    <2>1. [p \in TileSquare(z) |-> 0] \in X
      OBVIOUS
    <2>2. \A j \in S : j \in Nat
      OBVIOUS
    <2> HIDE DEF X, S
    <2> QED
      BY <2>1, <2>2
  <1>2. \A j \in S : \A d \in [S -> X] : step[<<j, d>>] = row(j, d)
    OBVIOUS
  <1>3. \A j \in S : \A d \in [S -> X] : row(j, d) \in X
    <2> SUFFICES ASSUME NEW j \in S, NEW d \in [S -> X]
                 PROVE  row(j, d) \in X
      OBVIOUS
    <2>1. ASSUME NEW p \in TileSquare(z), j # 0 PROVE CurveStep(z, j, p, d) \in Nat
      <3>1. j \in 1..z
        BY <2>1
      <3> QED
        BY <3>1, CurveStepNat
    <2> QED
      BY <2>1
  <1>4. step \in [S \X [S -> X] -> X]
    <2> HIDE DEF row, X, S
    <2> QED
      BY <1>3
  <1>5. \A j \in S : \A f, g \in [S -> X] :
          (\A r \in S : m[r] < m[j] => f[r] = g[r]) => step[<<j, f>>] = step[<<j, g>>]
    <2> SUFFICES ASSUME NEW j \in S, NEW f \in [S -> X], NEW g \in [S -> X],
                        \A r \in S : m[r] < m[j] => f[r] = g[r]
                 PROVE  row(j, f) = row(j, g)
      <3> HIDE DEF row, m, S, X
      <3> QED
        BY <1>2
    <2>1. j # 0 => f[j - 1] = g[j - 1]
      OBVIOUS
    <2> QED
      BY <2>1 DEF CurveStep
  <1>6. Recursive(S, m, X, step)
    <2> HIDE DEF S, X, m, step
    <2> QED
      BY <1>1, <1>4, <1>5 DEF Recursive
  <1>7. PICK d \in [S -> X] : \A j \in S : d[j] = step[<<j, d>>]
    <2> HIDE DEF S, X, m, step
    <2> QED
      BY <1>6, RecursionExists
  <1>8. d = [j \in 0..z |-> [p \in TileSquare(z) |->
              IF j = 0 THEN 0 ELSE
              LET s == TileTwo[j - 1]
                  rx == (p[1] \div s) % 2
                  ry == (p[2] \div s) % 2
              IN  s * s * TileQuadrant(rx, ry) + d[j - 1][TileTurn(rx, ry, TileTwo[z] - 1, p)]]]
    <2>1. d = [j \in 0..z |-> row(j, d)]
      <3> HIDE DEF row, step
      <3> QED
        BY <1>2, <1>7
    <2> QED
      BY <2>1 DEF CurveStep
  <1>9. TileCurve(z) = [j \in 0..z |-> [p \in TileSquare(z) |->
              IF j = 0 THEN 0 ELSE
              LET s == TileTwo[j - 1]
                  rx == (p[1] \div s) % 2
                  ry == (p[2] \div s) % 2
              IN  s * s * TileQuadrant(rx, ry)
                    + TileCurve(z)[j - 1][TileTurn(rx, ry, TileTwo[z] - 1, p)]]]
    <2> HIDE DEF S, X, m, step, row
    <2> QED
      BY <1>8 DEF TileCurve
  <1>10. TileCurve(z) = [j \in 0..z |-> row(j, TileCurve(z))]
    BY <1>9 DEF CurveStep
  <1> DEFINE c == TileCurve(z)
  <1>11. \A j \in 0..z : c[j] \in X
    <2> DEFINE Bad == {j \in 0..z : c[j] \notin X}
    <2> HIDE DEF X
    <2> SUFFICES ASSUME Bad # {} PROVE FALSE
      OBVIOUS
    <2>1. PICK j \in Bad : \A i \in Bad : j <= i
      <3> Bad \in SUBSET Nat
        OBVIOUS
      <3> HIDE DEF Bad
      <3> QED
        BY LeastNumber
    <2>2. c[j] = row(j, c)
      <3> HIDE DEF row
      <3> QED
        BY <1>10
    <2>3. CASE j = 0
      BY <2>1, <2>2, <2>3 DEF X
    <2>4. CASE j # 0
      <3>1. j \in 1..z /\ j - 1 \in 0..z
        BY <2>4
      <3>2. c[j - 1] \in X
        BY <2>1, <3>1
      <3> DEFINE d2 == [i \in 0..z |-> IF i = j - 1 THEN c[j - 1] ELSE [p \in TileSquare(z) |-> 0]]
      <3>3. d2 \in [0..z -> X]
        BY <3>2 DEF X
      <3>4. d2[j - 1] = c[j - 1]
        BY <3>1
      <3>5. row(j, c) = row(j, d2)
        <4> HIDE DEF d2, c
        <4> QED
          BY <3>4 DEF CurveStep
      <3> HIDE DEF d2, c, row
      <3> QED
        BY <2>1, <2>2, <3>3, <3>5, <1>3
    <2> QED
      BY <2>3, <2>4
  <1>12. c \in [0..z -> X]
    <2> HIDE DEF X, row, c
    <2>1. c = [j \in 0..z |-> row(j, c)]
      BY <1>10 DEF c
    <2> QED
      BY <1>11, <2>1
  <1>13. 0 \in 0..z /\ \A p \in TileSquare(z) : c[0][p] = 0
    <2>1. c[0] = row(0, c) /\ 0 \in 0..z
      <3>1. c = [i \in 0..z |-> row(i, c)]
        BY <1>10
      <3>2. 0 \in 0..z
        OBVIOUS
      <3> HIDE DEF row, c
      <3> QED
        BY <3>1, <3>2
    <2> HIDE DEF c
    <2> QED
      BY <2>1
  <1>14. \A j \in 1..z : \A p \in TileSquare(z) : c[j][p] = CurveStep(z, j, p, c)
    <2> SUFFICES ASSUME NEW j \in 1..z, NEW p \in TileSquare(z)
                 PROVE  c[j][p] = CurveStep(z, j, p, c)
      OBVIOUS
    <2>1. c[j] = row(j, c) /\ j # 0
      <3>1. j \in 0..z /\ j # 0
        OBVIOUS
      <3>2. c = [i \in 0..z |-> row(i, c)]
        BY <1>10
      <3> HIDE DEF row, c
      <3> QED
        BY <3>1, <3>2
    <2> HIDE DEF c
    <2> QED
      BY <2>1
  <1> QED
    BY <1>12, <1>13, <1>14

WalkRound(s, u) ==
    LET rx == (u[3] \div 2) % 2
        ry == (u[3] + rx) % 2
        p == TileTurn(rx, ry, s - 1, <<u[1], u[2]>>)
    IN  <<p[1] + s * rx, p[2] + s * ry, u[3] \div 4>>

LEMMA WalkRoundTyped ==
  ASSUME NEW s \in Nat, NEW u \in Int \X Int \X Nat
  PROVE  WalkRound(s, u) \in Int \X Int \X Nat
  <1> DEFINE rx == (u[3] \div 2) % 2
             ry == (u[3] + rx) % 2
             p == TileTurn(rx, ry, s - 1, <<u[1], u[2]>>)
  <1>1. u[1] \in Int /\ u[2] \in Int /\ u[3] \in Nat
    OBVIOUS
  <1>2. rx \in 0..1
    BY <1>1, BitOf
  <1>3. ry \in 0..1
    <2> HIDE DEF rx
    <2> QED
      BY <1>1, <1>2
  <1>4. p \in Int \X Int
    <2> HIDE DEF rx, ry
    <2> QED
      BY <1>1, <1>2, <1>3 DEF TileTurn
  <1>5. p[1] + s * rx \in Int /\ p[2] + s * ry \in Int
    <2> HIDE DEF p, rx, ry
    <2>1. s * rx \in Nat /\ s * ry \in Nat
      BY <1>2, <1>3
    <2>2. p[1] \in Int /\ p[2] \in Int
      BY <1>4
    <2> HIDE DEF p, rx, ry
    <2>3. \A a \in Int, b \in Nat : a + b \in Int
      OBVIOUS
    <2> QED
      BY <2>1, <2>2, <2>3
  <1>6. u[3] \div 4 \in Nat
    BY <1>1
  <1>7. WalkRound(s, u) = <<p[1] + s * rx, p[2] + s * ry, u[3] \div 4>>
    BY DEF WalkRound
  <1> HIDE DEF p, rx, ry
  <1> QED
    BY <1>5, <1>6, <1>7

LEMMA WalkDef ==
  ASSUME NEW t \in Nat
  PROVE  /\ TileWalk(t)[0] = <<0, 0, t>>
         /\ \A k \in Nat : TileWalk(t)[k + 1] = WalkRound(TileTwo[k], TileWalk(t)[k])
  <1> DEFINE X == Int \X Int \X Nat
             m == [k \in Nat |-> k]
             val(k, f) == IF k = 0 THEN <<0, 0, t>> ELSE WalkRound(TileTwo[k - 1], f[k - 1])
             step == [sf \in Nat \X [Nat -> X] |-> val(sf[1], sf[2])]
  <1>1. m \in [Nat -> Nat] /\ X # {}
    <2>1. m \in [Nat -> Nat]
      OBVIOUS
    <2>2. <<0, 0, 0>> \in X
      OBVIOUS
    <2> HIDE DEF X
    <2> QED
      BY <2>1, <2>2
  <1>2. \A k \in Nat : \A f \in [Nat -> X] : step[<<k, f>>] = val(k, f)
    OBVIOUS
  <1>3. \A k \in Nat : \A f \in [Nat -> X] : val(k, f) \in X
    <2> SUFFICES ASSUME NEW k \in Nat, NEW f \in [Nat -> X] PROVE val(k, f) \in X
      OBVIOUS
    <2>1. CASE k = 0
      BY <2>1
    <2>2. CASE k # 0
      <3>1. k - 1 \in Nat
        BY <2>2
      <3>2. TileTwo[k - 1] \in Nat
        BY <3>1, TwoStep
      <3>3. f[k - 1] \in X
        <4> HIDE DEF X
        <4> QED
          BY <3>1
      <3>4. WalkRound(TileTwo[k - 1], f[k - 1]) \in X
        BY <3>2, <3>3, WalkRoundTyped
      <3> HIDE DEF X
      <3> QED
        BY <2>2, <3>4
    <2> QED
      BY <2>1, <2>2
  <1>4. step \in [Nat \X [Nat -> X] -> X]
    <2> HIDE DEF val, X
    <2> QED
      BY <1>3
  <1>5. \A k \in Nat : \A f, g \in [Nat -> X] :
          (\A r \in Nat : m[r] < m[k] => f[r] = g[r]) => step[<<k, f>>] = step[<<k, g>>]
    <2> SUFFICES ASSUME NEW k \in Nat, NEW f \in [Nat -> X], NEW g \in [Nat -> X],
                        \A r \in Nat : m[r] < m[k] => f[r] = g[r]
                 PROVE  val(k, f) = val(k, g)
      <3> HIDE DEF val, m, X
      <3> QED
        BY <1>2
    <2>1. k # 0 => f[k - 1] = g[k - 1]
      OBVIOUS
    <2> HIDE DEF X, m, step
    <2> QED
      BY <2>1
  <1>6. PICK f \in [Nat -> X] : \A k \in Nat : f[k] = step[<<k, f>>]
    <2>1. Recursive(Nat, m, X, step)
      <3> HIDE DEF X, m, step
      <3> QED
        BY <1>1, <1>4, <1>5 DEF Recursive
    <2> HIDE DEF X, m, step
    <2> QED
      BY <2>1, RecursionExists
  <1>7. f = [k \in Nat |-> val(k, f)]
    <2> HIDE DEF val, step, X
    <2> QED
      BY <1>2, <1>6
  <1>8. f = [k \in Nat |->
              IF k = 0 THEN <<0, 0, t>> ELSE
              LET s == TileTwo[k - 1]
                  rx == (f[k - 1][3] \div 2) % 2
                  ry == (f[k - 1][3] + rx) % 2
                  p == TileTurn(rx, ry, s - 1, <<f[k - 1][1], f[k - 1][2]>>)
              IN  <<p[1] + s * rx, p[2] + s * ry, f[k - 1][3] \div 4>>]
    BY <1>7 DEF WalkRound
  <1> DEFINE w == TileWalk(t)
  <1>9. w = [k \in Nat |->
              IF k = 0 THEN <<0, 0, t>> ELSE
              LET s == TileTwo[k - 1]
                  rx == (w[k - 1][3] \div 2) % 2
                  ry == (w[k - 1][3] + rx) % 2
                  p == TileTurn(rx, ry, s - 1, <<w[k - 1][1], w[k - 1][2]>>)
              IN  <<p[1] + s * rx, p[2] + s * ry, w[k - 1][3] \div 4>>]
    <2> HIDE DEF X, m, step, val
    <2> QED
      BY <1>8 DEF TileWalk
  <1>10. w = [k \in Nat |-> val(k, w)]
    <2> HIDE DEF w
    <2> QED
      BY <1>9 DEF WalkRound
  <1>11. w[0] = <<0, 0, t>>
    <2> HIDE DEF w
    <2> QED
      BY <1>10
  <1>12. \A k \in Nat : w[k + 1] = WalkRound(TileTwo[k], w[k])
    <2> SUFFICES ASSUME NEW k \in Nat PROVE w[k + 1] = WalkRound(TileTwo[k], w[k])
      OBVIOUS
    <2>1. k + 1 \in Nat /\ k + 1 # 0 /\ (k + 1) - 1 = k
      OBVIOUS
    <2>2. w[k + 1] = val(k + 1, w)
      <3> HIDE DEF val, w
      <3> QED
        BY <1>10, <2>1
    <2> HIDE DEF w
    <2> QED
      BY <2>1, <2>2
  <1> QED
    BY <1>11, <1>12

LEMMA RestTwice ==
  ASSUME NEW x \in Nat, NEW s \in Nat \ {0}
  PROVE  x % (2 * s) = (x % s) + s * ((x \div s) % 2)
  <1> DEFINE q == x \div s
             r == x % s
             h == q \div 2
             b == q % 2
  <1>1. q \in Nat /\ r \in Nat /\ r < s /\ x = s * q + r
    BY Divided, RestBelow, QuotientNat
  <1> HIDE DEF q, r
  <1>2. h \in Nat /\ b \in 0..1 /\ q = 2 * h + b
    BY <1>1
  <1> HIDE DEF h, b
  <1>3. x = (2 * s) * h + (s * b + r)
    <2>1. b = 0 \/ b = 1
      BY <1>2
    <2>2. \A y, k \in Nat : y * (2 * k) = (2 * y) * k
      OBVIOUS
    <2>3. \A y, k \in Nat : y * (2 * k + 1) = (2 * y) * k + y
      OBVIOUS
    <2> DEFINE w == (2 * s) * h
    <2>4. CASE b = 0
      <3>1. s * q = w
        BY <1>2, <2>2, <2>4
      <3>2. s * b = 0
        BY <2>4
      <3> QED
        BY <3>1, <3>2, <1>1
    <2>5. CASE b = 1
      <3>1. s * q = w + s
        BY <1>2, <2>3, <2>5
      <3>2. s * b = s
        BY <2>5
      <3>3. w \in Nat
        BY <1>2, TimesNat
      <3> HIDE DEF w
      <3>4. x = w + (s * b + r)
        BY <3>1, <3>2, <3>3, <1>1
      <3> QED
        BY <3>4 DEF w
    <2> QED
      BY <2>1, <2>4, <2>5
  <1>4. s * b + r \in Nat /\ s * b + r < 2 * s /\ 2 * s \in Nat \ {0}
    <2>1. b = 0 \/ b = 1
      BY <1>2
    <2> QED
      BY <2>1, <1>1
  <1>5. x % (2 * s) = s * b + r
    <2> DEFINE c == s * b + r
               d == 2 * s
    <2>1. c \in Nat /\ d \in Nat \ {0} /\ c < d /\ x = d * h + c
      BY <1>3, <1>4
    <2> HIDE DEF c, d
    <2>2. x % d = c
      BY <2>1, <1>2, RestOf
    <2> QED
      BY <2>2 DEF c, d
  <1>6. s * b + r = r + s * b
    <2>1. s * b \in Nat
      BY <1>2, TimesNat
    <2> QED
      BY <2>1, <1>1
  <1> QED
    BY <1>5, <1>6 DEF r, q, b

LEMMA RestMirrored ==
  ASSUME NEW s \in Nat \ {0}, NEW m \in Nat \ {0}, NEW x \in 0 .. s * m - 1
  PROVE  ((s * m - 1) - x) % s = (s - 1) - (x % s)
  <1> DEFINE q == x \div s
             r == x % s
  <1>0. s * m \in Nat /\ x \in Nat /\ x < s * m
    <2>1. s * m \in Nat
      BY TimesNat
    <2> DEFINE n == s * m
    <2> HIDE DEF n
    <2>2. n \in Nat
      BY <2>1 DEF n
    <2>3. x \in 0 .. n - 1
      BY DEF n
    <2>4. x \in Nat /\ x < n
      BY <2>2, <2>3
    <2> QED
      BY <2>1, <2>4 DEF n
  <1>1. q \in Nat /\ r \in Nat /\ r < s /\ x = s * q + r
    BY <1>0, Divided, RestBelow, QuotientNat
  <1> HIDE DEF q, r
  <1>2. q < m
    <2>1. \A k, i \in Nat : i <= k => s * i <= s * k
      OBVIOUS
    <2>2. s * q \in Nat
      BY <1>1, TimesNat
    <2> QED
      BY <1>0, <1>1, <2>1, <2>2
  <1> DEFINE k == m - 1 - q
             c == s - 1 - r
  <1>3. k \in Nat /\ c \in Nat /\ c < s /\ m = k + q + 1 /\ c + r + 1 = s
    BY <1>1, <1>2
  <1> HIDE DEF k, c
  <1>4. (s * m - 1) - x = s * k + c
    <2>1. \A i, j \in Nat : s * (i + j + 1) = s * i + s * j + s
      OBVIOUS
    <2>2. s * m = s * k + s * q + s
      BY <2>1, <1>1, <1>3
    <2>3. s * k \in Nat /\ s * q \in Nat
      BY <1>1, <1>3, TimesNat
    <2> DEFINE a == s * k
               b == s * q
               n == s * m
    <2>4. a \in Nat /\ b \in Nat /\ n = a + b + s /\ x = b + r
      BY <2>2, <2>3, <1>1
    <2> HIDE DEF a, b, n
    <2>5. (n - 1) - x = a + c
      BY <2>4, <1>1, <1>3
    <2> QED
      BY <2>5 DEF a, n
  <1>5. (s * k + c) % s = c
    BY <1>3, RestOf
  <1> QED
    BY <1>4, <1>5 DEF c, r

(* A turn done again in the square of side s is undone.                    *)
TurnIn(s, m, x, y, rx, ry, inner, p) ==
    /\ s \in Nat \ {0} /\ m \in Nat \ {0} /\ rx \in 0..1 /\ ry \in 0..1
    /\ x \in 0 .. s * m - 1 /\ y \in 0 .. s * m - 1
    /\ inner = s - 1 /\ p = TileTurn(rx, ry, s * m - 1, <<x, y>>)

LEMMA TurnBack ==
  ASSUME NEW s, NEW m, NEW x, NEW y, NEW rx, NEW ry, NEW inner, NEW p,
         TurnIn(s, m, x, y, rx, ry, inner, p)
  PROVE  TileTurn(rx, ry, inner, <<p[1] % s, p[2] % s>>) = <<x % s, y % s>>
  <1> USE DEF TurnIn
  <1> SUFFICES TileTurn(rx, ry, s - 1, <<p[1] % s, p[2] % s>>) = <<x % s, y % s>>
    OBVIOUS
  <1> DEFINE n == s * m
  <1>1. n \in Nat /\ x \in 0 .. n - 1 /\ y \in 0 .. n - 1
    BY TimesNat
  <1>2. /\ ((n - 1) - x) % s = (s - 1) - (x % s)
        /\ ((n - 1) - y) % s = (s - 1) - (y % s)
    BY RestMirrored
  <1>3. x % s \in Nat /\ y % s \in Nat
    <2> HIDE DEF n
    <2> QED
      BY <1>1, RestBelow
  <1>4. p = TileTurn(rx, ry, n - 1, <<x, y>>)
    OBVIOUS
  <1> HIDE DEF n
  <1> DEFINE a == x % s
             b == y % s
  <1>5. a \in Nat /\ b \in Nat /\ ((n - 1) - x) % s = (s - 1) - a /\ ((n - 1) - y) % s = (s - 1) - b
    BY <1>2, <1>3
  <1>6. CASE ry = 1
    BY <1>4, <1>6 DEF TileTurn
  <1>7. CASE ry = 0 /\ rx = 0
    BY <1>4, <1>7 DEF TileTurn
  <1>8. CASE ry = 0 /\ rx = 1
    <2>1. p = <<(n - 1) - y, (n - 1) - x>>
      BY <1>4, <1>8 DEF TileTurn
    <2>2. p[1] % s = (s - 1) - b /\ p[2] % s = (s - 1) - a
      <3> HIDE DEF a, b
      <3> QED
        BY <2>1, <1>5
    <2>3. TileTurn(rx, ry, s - 1, <<p[1] % s, p[2] % s>>) = <<(s - 1) - (p[2] % s), (s - 1) - (p[1] % s)>>
      BY <1>8 DEF TileTurn
    <2> HIDE DEF a, b
    <2>4. (s - 1) - ((s - 1) - a) = a /\ (s - 1) - ((s - 1) - b) = b
      BY <1>5
    <2>5. TileTurn(rx, ry, s - 1, <<p[1] % s, p[2] % s>>) = <<a, b>>
      BY <2>2, <2>3, <2>4
    <2> QED
      BY <2>5 DEF a, b
  <1> QED
    BY <1>6, <1>7, <1>8

(* j rounds of the walk, from what j rounds of the curve add, come back to   *)
(* the low bits of the point, and leave what stood above.                   *)
LEMMA CurveInverse ==
  ASSUME NEW z \in Nat
  PROVE  \A j \in 0..z : \A p \in TileSquare(z) :
           /\ TileCurve(z)[j][p] \in Nat
           /\ TileCurve(z)[j][p] < TileTwo[j] * TileTwo[j]
           /\ \A T \in Nat : \A t \in Nat :
                t = T * (TileTwo[j] * TileTwo[j]) + TileCurve(z)[j][p]
                  => TileWalk(t)[j] = <<p[1] % TileTwo[j], p[2] % TileTwo[j], T>>
  <1> DEFINE c == TileCurve(z)
             Below(j, p) == c[j][p] \in Nat /\ c[j][p] < TileTwo[j] * TileTwo[j]
             Back(j, p) == \A T \in Nat : \A t \in Nat :
                 t = T * (TileTwo[j] * TileTwo[j]) + c[j][p]
                   => TileWalk(t)[j] = <<p[1] % TileTwo[j], p[2] % TileTwo[j], T>>
             Right(j) == \A p \in TileSquare(z) : Below(j, p) /\ Back(j, p)
  <1>1. \A p \in TileSquare(z) : p[1] \in Nat /\ p[2] \in Nat /\ p = <<p[1], p[2]>>
                                   /\ p[1] \in 0 .. TileTwo[z] - 1 /\ p[2] \in 0 .. TileTwo[z] - 1
    <2> TileTwo[z] \in Nat \ {0}
      BY TwoStep
    <2> QED
      BY DEF TileSquare
  <1>2. Right(0)
    <2> SUFFICES ASSUME NEW p \in TileSquare(z) PROVE Below(0, p) /\ Back(0, p)
      OBVIOUS
    <2>1. c[0][p] = 0 /\ TileTwo[0] = 1
      BY CurveDef, TwoStep
    <2> HIDE DEF c
    <2>2. Below(0, p)
      BY <2>1
    <2>3. p[1] % 1 = 0 /\ p[2] % 1 = 0
      BY <1>1
    <2>4. ASSUME NEW T \in Nat, NEW t \in Nat, t = T * (TileTwo[0] * TileTwo[0]) + c[0][p]
          PROVE  TileWalk(t)[0] = <<p[1] % TileTwo[0], p[2] % TileTwo[0], T>>
      <3>1. t = T
        BY <2>1, <2>4
      <3>2. TileWalk(t)[0] = <<0, 0, t>>
        BY WalkDef
      <3> QED
        BY <2>1, <2>3, <3>1, <3>2
    <2> QED
      BY <2>2, <2>4
  <1>3. ASSUME NEW j \in 0 .. z - 1, Right(j) PROVE Right(j + 1)
    <2> SUFFICES ASSUME NEW p \in TileSquare(z) PROVE Below(j + 1, p) /\ Back(j + 1, p)
      OBVIOUS
    <2> DEFINE s == TileTwo[j]
               m == TileTwo[z - j]
               rx == (p[1] \div s) % 2
               ry == (p[2] \div s) % 2
               q == TileQuadrant(rx, ry)
               turned == TileTurn(rx, ry, TileTwo[z] - 1, p)
               h == c[j][turned]
    <2>1. j \in Nat /\ j + 1 \in 1..z /\ (j + 1) - 1 = j /\ z - j \in Nat /\ j + (z - j) = z /\ j \in 0..z
      OBVIOUS
    <2>2. s \in Nat \ {0} /\ m \in Nat \ {0} /\ TileTwo[z] = s * m /\ TileTwo[j + 1] = 2 * s
      <3>1. TileTwo[j + (z - j)] = TileTwo[j] * TileTwo[z - j]
        BY <2>1, TwoSum
      <3> QED
        BY <2>1, <3>1, TwoStep
    <2>3. rx \in 0..1 /\ ry \in 0..1
      <3> HIDE DEF s
      <3> QED
        BY <2>2, <1>1, BitOf
    <2>4. turned \in TileSquare(z)
      <3> HIDE DEF rx, ry
      <3> QED
        BY <2>3, TurnInSquare
    <2>5. c[j + 1][p] = s * s * q + h
      <3>1. c[j + 1][p] = CurveStep(z, j + 1, p, c)
        BY <2>1, CurveDef
      <3> HIDE DEF c
      <3> QED
        BY <3>1, <2>1 DEF CurveStep
    <2>6. h \in Nat /\ h < s * s
      <3> HIDE DEF turned, c
      <3> QED
        BY <1>3, <2>4
    <2>7. q \in 0..3
      <3> HIDE DEF rx, ry
      <3> QED
        BY <2>3 DEF TileQuadrant
    <2> DEFINE P == s * s
    <2>8. P \in Nat \ {0}
      <3> HIDE DEF s
      <3> QED
        BY <2>2, TimesPos
    <2>9. (2 * s) * (2 * s) = 4 * P
      <3> HIDE DEF s
      <3> QED
        BY <2>2
    <2>10. c[j + 1][p] = P * q + h /\ h < P /\ TileTwo[j + 1] * TileTwo[j + 1] = 4 * P
      BY <2>2, <2>5, <2>6, <2>9
    <2>11. Below(j + 1, p)
      <3> HIDE DEF P, q, h, c
      <3>1. P * q + h \in Nat /\ P * q + h < 4 * P
        BY <2>6, <2>7, <2>8, <2>10
      <3> QED
        BY <2>10, <3>1
    <2>12. ASSUME NEW T \in Nat, NEW t \in Nat, t = T * (TileTwo[j + 1] * TileTwo[j + 1]) + c[j + 1][p]
           PROVE  TileWalk(t)[j + 1] = <<p[1] % TileTwo[j + 1], p[2] % TileTwo[j + 1], T>>
      <3> DEFINE u == 4 * T + q
                 x == p[1]
                 y == p[2]
      <3>1. t = u * P + h
        <4>1. t = T * (4 * P) + (P * q + h)
          BY <2>10, <2>12
        <4> HIDE DEF P, q, h, c
        <4>2. T * (4 * P) + (P * q + h) = (4 * T + q) * P + h
          BY <2>6, <2>7, <2>8
        <4> QED
          BY <4>1, <4>2
      <3>2. u \in Nat /\ (u \div 2) % 2 = rx /\ (u + rx) % 2 = ry /\ u \div 4 = T
        <4>1. u = 4 * T + TileQuadrant(rx, ry)
          OBVIOUS
        <4> HIDE DEF rx, ry, u
        <4> QED
          BY <2>3, <4>1 DEF TileQuadrant
      <3>3. TileWalk(t)[j] = <<turned[1] % s, turned[2] % s, u>>
        <4>1. Back(j, turned)
          <5> HIDE DEF turned, Back, Below
          <5> QED
            BY <1>3, <2>4
        <4> HIDE DEF turned, u, h, rx, ry, q, c
        <4>2. t = u * (TileTwo[j] * TileTwo[j]) + c[j][turned]
          BY <3>1 DEF h
        <4> QED
          BY <3>2, <4>1, <4>2
      <3>4. TileTurn(rx, ry, s - 1, <<turned[1] % s, turned[2] % s>>) = <<x % s, y % s>>
        <4>1. x \in 0 .. s * m - 1 /\ y \in 0 .. s * m - 1
          <5> HIDE DEF s, m
          <5> QED
            BY <1>1, <2>2
        <4> DEFINE outer == TileTwo[z] - 1
                   inner == s - 1
        <4>2. turned = TileTurn(rx, ry, outer, <<x, y>>)
          <5> HIDE DEF rx, ry
          <5> QED
            BY <1>1
        <4>3. outer = s * m - 1 /\ inner = s - 1
          BY <2>2
        <4> HIDE DEF turned, s, m, rx, ry, x, y, outer, inner
        <4>4. TurnIn(s, m, x, y, rx, ry, inner, turned)
          BY <4>1, <4>2, <4>3, <2>2, <2>3 DEF TurnIn
        <4>5. TileTurn(rx, ry, inner, <<turned[1] % s, turned[2] % s>>) = <<x % s, y % s>>
          BY <4>4, TurnBack
        <4> QED
          BY <4>5 DEF inner
      <3>5. TileWalk(t)[j + 1] = WalkRound(s, TileWalk(t)[j])
        BY <2>1, WalkDef
      <3>6. WalkRound(s, TileWalk(t)[j]) = <<(x % s) + s * rx, (y % s) + s * ry, T>>
        <4> DEFINE v == TileWalk(t)[j]
        <4>1. v[3] = u /\ <<v[1], v[2]>> = <<turned[1] % s, turned[2] % s>>
          <5> HIDE DEF turned, u, s
          <5> QED
            BY <3>3
        <4> HIDE DEF turned, u, s, x, y, v
        <4>2. (v[3] \div 2) % 2 = rx /\ (v[3] + rx) % 2 = ry /\ v[3] \div 4 = T
          <5> HIDE DEF rx, ry
          <5> QED
            BY <3>2, <4>1
        <4> HIDE DEF rx, ry
        <4>3. TileTurn(rx, ry, s - 1, <<v[1], v[2]>>) = <<x % s, y % s>>
          BY <3>4, <4>1
        <4>4. WalkRound(s, v) = <<(x % s) + s * rx, (y % s) + s * ry, T>>
          BY <4>2, <4>3 DEF WalkRound
        <4> QED
          BY <4>4 DEF v
      <3>7. x % (2 * s) = (x % s) + s * rx /\ y % (2 * s) = (y % s) + s * ry
        <4>1. x \in Nat /\ y \in Nat
          BY <1>1
        <4> HIDE DEF s, x, y
        <4> QED
          BY <4>1, <2>2, RestTwice DEF x, y
      <3> HIDE DEF s, x, y, rx, ry
      <3>8. TileWalk(t)[j + 1] = <<x % (2 * s), y % (2 * s), T>>
        BY <3>5, <3>6, <3>7
      <3> QED
        BY <3>8, <2>2 DEF x, y
    <2> QED
      <3> HIDE DEF Below, c
      <3> QED
        BY <2>11, <2>12
  <1>4. \A j \in 0..z : Right(j)
    <2> DEFINE Bad == {j \in 0..z : ~ Right(j)}
    <2> HIDE DEF Right
    <2> SUFFICES ASSUME Bad # {} PROVE FALSE
      OBVIOUS
    <2>1. PICK j \in Bad : \A i \in Bad : j <= i
      <3> Bad \in SUBSET Nat
        OBVIOUS
      <3> HIDE DEF Bad
      <3> QED
        BY LeastNumber
    <2>2. j # 0
      BY <1>2, <2>1
    <2>3. j - 1 \in 0 .. z - 1 /\ (j - 1) + 1 = j /\ j - 1 \in 0..z /\ ~ (j <= j - 1)
      BY <2>1, <2>2
    <2>4. Right(j - 1)
      BY <2>1, <2>3
    <2>5. Right((j - 1) + 1)
      BY <1>3, <2>3, <2>4
    <2> QED
      BY <2>1, <2>3, <2>5
  <1> QED
    BY <1>4

(* The addresses that have an id.                                          *)
TileAddresses ==
    {a \in TileZooms \X Nat \X Nat : a[2] < TileTwo[a[1]] /\ a[3] < TileTwo[a[1]]}

(* An id is a number, and is turned back into the address it was made of,   *)
(* by a loop that does its own rounds in the other order, with another      *)
(* reflection (zxy_to_tileid, tileid_to_zxy, pmtiles.py:40-97).             *)
THEOREM IdsTurnBack ==
  ASSUME NEW a \in TileAddresses
  PROVE  TileId(a) \in Nat /\ TileAddress(TileId(a)) = a
  <1> DEFINE z == a[1]
             p == <<a[2], a[3]>>
             d == TileCurve(z)[z][p]
  <1>1. z \in Nat /\ z \in TileZooms /\ z \in 0..z /\ a[2] \in Nat /\ a[3] \in Nat
        /\ a[2] < TileTwo[z] /\ a[3] < TileTwo[z] /\ a = <<z, a[2], a[3]>>
    BY DEF TileAddresses, TileZooms
  <1>2. TileTwo[z] \in Nat \ {0}
    BY <1>1, TwoStep
  <1>3. p \in TileSquare(z)
    BY <1>1, <1>2 DEF TileSquare
  <1>4. d \in Nat /\ d < TileTwo[z] * TileTwo[z]
        /\ \A T \in Nat : \A t \in Nat :
             t = T * (TileTwo[z] * TileTwo[z]) + d
                => TileWalk(t)[z] = <<p[1] % TileTwo[z], p[2] % TileTwo[z], T>>
    <2> HIDE DEF z, p
    <2> QED
      BY <1>1, <1>3, CurveInverse
  <1>5. TileWalk(d)[z] = <<a[2], a[3], 0>>
    <2>1. d = 0 * (TileTwo[z] * TileTwo[z]) + d
      <3> DEFINE P == TileTwo[z] * TileTwo[z]
      <3>1. P \in Nat
        <4> HIDE DEF z
        <4> QED
          BY <1>2, TimesNat
      <3> HIDE DEF P, d
      <3>2. d = 0 * P + d
        BY <3>1, <1>4
      <3> QED
        BY <3>2 DEF P
    <2>2. p[1] % TileTwo[z] = a[2] /\ p[2] % TileTwo[z] = a[3]
      <3> DEFINE n == TileTwo[z]
      <3>1. n \in Nat \ {0} /\ a[2] < n /\ a[3] < n
        BY <1>1, <1>2
      <3> HIDE DEF n
      <3>2. a[2] % n = a[2] /\ a[3] % n = a[3]
        BY <3>1, <1>1
      <3> QED
        BY <3>2 DEF n
    <2>3. TileWalk(d)[z] = <<p[1] % TileTwo[z], p[2] % TileTwo[z], 0>>
      <3> HIDE DEF d, z, p
      <3> QED
        BY <1>4, <2>1
    <2> HIDE DEF d, z
    <2> QED
      BY <2>2, <2>3
  <1>6. TileId(a) = TileLevel(z) + d
    BY DEF TileId
  <1>7. TileLevel(z) \in Nat /\ TileLevel(z + 1) = TileLevel(z) + TileTwo[z] * TileTwo[z]
    <2> HIDE DEF z
    <2> QED
      BY <1>1, LevelTriple, LevelStep
  <1> DEFINE id == TileId(a)
  <1>8. id \in Nat /\ TileLevel(z) <= id /\ id < TileLevel(z + 1) /\ id - TileLevel(z) = d
    <2> DEFINE P == TileTwo[z] * TileTwo[z]
    <2>1. d < P /\ TileLevel(z + 1) = TileLevel(z) + P
      BY <1>4, <1>7
    <2>2. P \in Nat
      <3> HIDE DEF z
      <3> QED
        BY <1>2, TimesNat
    <2> HIDE DEF P, d, z
    <2> QED
      BY <2>1, <2>2, <1>4, <1>6, <1>7
  <1> HIDE DEF id, d, z
  <1>9. (CHOOSE y \in TileZooms : TileLevel(y) <= id /\ id < TileLevel(y + 1)) = z
    BY <1>1, <1>8, LevelOfId
  <1>10. TileAddress(id) = <<z, a[2], a[3]>>
    <2> DEFINE y == CHOOSE y \in TileZooms : TileLevel(y) <= id /\ id < TileLevel(y + 1)
               w == TileWalk(id - TileLevel(y))[y]
    <2>1. TileAddress(id) = <<y, w[1], w[2]>>
      BY DEF TileAddress
    <2>2. y = z
      BY <1>9
    <2> HIDE DEF y
    <2>3. w = <<a[2], a[3], 0>>
      BY <1>5, <1>8, <2>2
    <2> HIDE DEF w
    <2> QED
      BY <2>1, <2>2, <2>3
  <1> QED
    BY <1>1, <1>8, <1>10 DEF id

LEMMA IdsDiffer ==
  ASSUME NEW a \in TileAddresses, NEW b \in TileAddresses, TileId(a) = TileId(b)
  PROVE  a = b
  <1>1. TileAddress(TileId(a)) = a /\ TileAddress(TileId(b)) = b
    BY IdsTurnBack
  <1> QED
    BY <1>1

-----------------------------------------------------------------------------
(* Numbers as bytes, and back.                                              *)

LEMMA BaseIs == TileBase \in Nat \ {0, 1}
  BY TileAssumption

VarintOf(n, f) == IF n < TileBase THEN <<n>> ELSE <<TileBase + (n % TileBase)>> \o f[n \div TileBase]

LEMMA VarintDef ==
  /\ \A n \in Nat : Varint[n] = VarintOf(n, Varint)
  /\ \A n \in Nat : Varint[n] \in Seq(Nat)
  <1> DEFINE X == Seq(Nat)
             m == [n \in Nat |-> n]
             step == [sf \in Nat \X [Nat -> X] |-> VarintOf(sf[1], sf[2])]
  <1>1. m \in [Nat -> Nat] /\ X # {}
    <2>1. m \in [Nat -> Nat]
      OBVIOUS
    <2>2. <<>> \in X
      OBVIOUS
    <2> HIDE DEF X
    <2> QED
      BY <2>1, <2>2
  <1>2. \A n \in Nat : \A f \in [Nat -> X] : step[<<n, f>>] = VarintOf(n, f)
    OBVIOUS
  <1>3. \A n \in Nat : n % TileBase \in Nat /\ n \div TileBase \in Nat
    BY BaseIs, RestBelow, QuotientNat
  <1>4. \A n \in Nat : ~ (n < TileBase) => n \div TileBase < n
    <2> SUFFICES ASSUME NEW n \in Nat, ~ (n < TileBase) PROVE n \div TileBase < n
      OBVIOUS
    <2>1. n \in Nat \ {0}
      BY BaseIs
    <2> QED
      BY <2>1, BaseIs, QuotientLess
  <1>5. \A n \in Nat : <<n>> \in X /\ \A w \in X : <<n>> \o w \in X
    OBVIOUS
  <1>6. \A n \in Nat : \A f : (~ (n < TileBase) => f[n \div TileBase] \in X) => VarintOf(n, f) \in X
    <2> SUFFICES ASSUME NEW n \in Nat, NEW f, ~ (n < TileBase) => f[n \div TileBase] \in X
                 PROVE  VarintOf(n, f) \in X
      OBVIOUS
    <2>1. TileBase + (n % TileBase) \in Nat
      BY <1>3, BaseIs
    <2> DEFINE w == TileBase + (n % TileBase)
               q == n \div TileBase
    <2>2. VarintOf(n, f) = IF n < TileBase THEN <<n>> ELSE <<w>> \o f[q]
      BY DEF VarintOf
    <2>3. w \in Nat /\ (~ (n < TileBase) => f[q] \in X)
      BY <2>1
    <2> HIDE DEF X, w, q
    <2>4. CASE n < TileBase
      BY <2>2, <2>4, <1>5
    <2>5. CASE ~ (n < TileBase)
      <3>1. <<w>> \o f[q] \in X
        BY <2>3, <2>5, <1>5
      <3> QED
        BY <2>2, <2>5, <3>1
    <2> QED
      BY <2>4, <2>5
  <1>7. step \in [Nat \X [Nat -> X] -> X]
    <2>1. \A n \in Nat : \A f \in [Nat -> X] : VarintOf(n, f) \in X
      <3> HIDE DEF X
      <3> QED
        BY <1>3, <1>6
    <2> HIDE DEF X
    <2> QED
      BY <2>1
  <1>8. \A n \in Nat : \A f, g \in [Nat -> X] :
          (\A r \in Nat : m[r] < m[n] => f[r] = g[r]) => step[<<n, f>>] = step[<<n, g>>]
    <2> SUFFICES ASSUME NEW n \in Nat, NEW f \in [Nat -> X], NEW g \in [Nat -> X],
                        \A r \in Nat : m[r] < m[n] => f[r] = g[r]
                 PROVE  VarintOf(n, f) = VarintOf(n, g)
      <3> HIDE DEF m, X
      <3> QED
        BY <1>2
    <2>1. ~ (n < TileBase) => f[n \div TileBase] = g[n \div TileBase]
      BY <1>3, <1>4
    <2> HIDE DEF X, m, step
    <2> QED
      BY <2>1 DEF VarintOf
  <1>9. PICK f \in [Nat -> X] : \A n \in Nat : f[n] = step[<<n, f>>]
    <2>1. Recursive(Nat, m, X, step)
      <3> HIDE DEF X, m, step
      <3> QED
        BY <1>1, <1>7, <1>8 DEF Recursive
    <2> HIDE DEF X, m, step
    <2> QED
      BY <2>1, RecursionExists
  <1>10. f = [n \in Nat |-> IF n < TileBase THEN <<n>>
                            ELSE <<TileBase + (n % TileBase)>> \o f[n \div TileBase]]
    <2>1. f = [n \in Nat |-> VarintOf(n, f)]
      <3> HIDE DEF step, X
      <3> QED
        BY <1>2, <1>9
    <2> QED
      BY <2>1 DEF VarintOf
  <1>11. Varint = [n \in Nat |-> IF n < TileBase THEN <<n>>
                                 ELSE <<TileBase + (n % TileBase)>> \o Varint[n \div TileBase]]
    <2> HIDE DEF step, X, m
    <2> QED
      BY <1>10 DEF Varint
  <1>12. \A n \in Nat : Varint[n] = VarintOf(n, Varint)
    BY <1>11 DEF VarintOf
  <1>13. \A n \in Nat : Varint[n] \in X
    <2> DEFINE Bad == {n \in Nat : Varint[n] \notin X}
    <2> HIDE DEF X
    <2> SUFFICES ASSUME Bad # {} PROVE FALSE
      OBVIOUS
    <2>1. PICK n \in Bad : \A i \in Bad : n <= i
      <3> Bad \in SUBSET Nat
        OBVIOUS
      <3> HIDE DEF Bad
      <3> QED
        BY LeastNumber
    <2>2. ~ (n < TileBase) => Varint[n \div TileBase] \in X
      <3> SUFFICES ASSUME ~ (n < TileBase) PROVE Varint[n \div TileBase] \in X
        OBVIOUS
      <3>1. n \div TileBase \in Nat /\ n \div TileBase < n /\ n \in Nat
        BY <1>3, <1>4
      <3> DEFINE q == n \div TileBase
      <3> HIDE DEF q
      <3>2. q \in Nat /\ ~ (n <= q)
        BY <3>1 DEF q
      <3>3. Varint[q] \in X
        BY <2>1, <3>2
      <3> QED
        BY <3>3 DEF q
    <2>3. VarintOf(n, Varint) \in X
      BY <1>6, <2>2
    <2> QED
      BY <1>12, <2>1, <2>3
  <1> QED
    BY <1>12, <1>13

NumbersOf(b, f) ==
    IF b = <<>> THEN <<>> ELSE
    IF b[1] < TileBase THEN <<b[1]>> \o f[Tail(b)]
    ELSE IF f[Tail(b)] = <<>> THEN <<>>
    ELSE <<b[1] - TileBase + TileBase * f[Tail(b)][1]>> \o Tail(f[Tail(b)])

LEMMA NumbersDef ==
  /\ \A b \in Seq(Nat) : Numbers[b] = NumbersOf(b, Numbers)
  /\ \A b \in Seq(Nat) : Numbers[b] \in Seq(Nat)
  <1> DEFINE X == Seq(Nat)
             m == [b \in X |-> Len(b)]
             step == [sf \in X \X [X -> X] |-> NumbersOf(sf[1], sf[2])]
  <1>1. m \in [X -> Nat] /\ X # {}
    <2>1. m \in [X -> Nat]
      OBVIOUS
    <2>2. <<>> \in X
      OBVIOUS
    <2> HIDE DEF X
    <2> QED
      BY <2>1, <2>2
  <1>2. \A b \in X : \A f \in [X -> X] : step[<<b, f>>] = NumbersOf(b, f)
    <2> HIDE DEF X
    <2> QED
      OBVIOUS
  <1>3. \A b \in X : b # <<>> => b[1] \in Nat /\ Tail(b) \in X /\ Len(b) \in Nat /\ Len(Tail(b)) < Len(b)
    OBVIOUS
  <1>4. \A n \in Nat : \A w \in X : <<n>> \o w \in X
    OBVIOUS
  <1>5. \A b \in X : \A f : (b # <<>> => f[Tail(b)] \in X) => NumbersOf(b, f) \in X
    <2> SUFFICES ASSUME NEW b \in X, NEW f, b # <<>> => f[Tail(b)] \in X
                 PROVE  NumbersOf(b, f) \in X
      OBVIOUS
    <2>0. <<>> \in X
      OBVIOUS
    <2>1. CASE b = <<>>
      <3> HIDE DEF X
      <3> QED
        BY <2>0, <2>1 DEF NumbersOf
    <2>2. CASE b # <<>>
      <3> DEFINE rest == f[Tail(b)]
      <3>1. rest \in X /\ b[1] \in Nat
        BY <2>2, <1>3
      <3> HIDE DEF rest
      <3>2. rest # <<>> => rest[1] \in Nat /\ Tail(rest) \in X
        BY <3>1
      <3>3. \A i, k \in Nat : ~ (i < TileBase) => i - TileBase + TileBase * k \in Nat
        <4> SUFFICES ASSUME NEW i \in Nat, NEW k \in Nat, ~ (i < TileBase)
                     PROVE  i - TileBase + TileBase * k \in Nat
          OBVIOUS
        <4>1. i - TileBase \in Nat
          BY BaseIs
        <4>2. TileBase * k \in Nat
          BY BaseIs, TimesNat
        <4> QED
          BY <4>1, <4>2
      <3>4. NumbersOf(b, f) = IF b[1] < TileBase THEN <<b[1]>> \o rest
                              ELSE IF rest = <<>> THEN <<>>
                              ELSE <<b[1] - TileBase + TileBase * rest[1]>> \o Tail(rest)
        BY <2>2 DEF NumbersOf, rest
      <3> HIDE DEF X
      <3>5. CASE b[1] < TileBase
        BY <3>1, <3>4, <3>5, <1>4
      <3>6. CASE ~ (b[1] < TileBase) /\ rest = <<>>
        BY <2>0, <3>4, <3>6
      <3>7. CASE ~ (b[1] < TileBase) /\ rest # <<>>
        <4> DEFINE v == b[1] - TileBase + TileBase * rest[1]
        <4>1. v \in Nat
          BY <3>1, <3>2, <3>3, <3>7
        <4>2. NumbersOf(b, f) = <<v>> \o Tail(rest)
          BY <3>4, <3>7
        <4> HIDE DEF v
        <4> QED
          BY <4>1, <4>2, <3>2, <3>7, <1>4
      <3> QED
        BY <3>5, <3>6, <3>7
    <2> QED
      BY <2>1, <2>2
  <1>6. step \in [X \X [X -> X] -> X]
    <2> HIDE DEF X
    <2>1. \A b \in X : \A f \in [X -> X] : NumbersOf(b, f) \in X
      BY <1>3, <1>5
    <2> QED
      BY <2>1
  <1>7. \A b \in X : \A f, g \in [X -> X] :
          (\A r \in X : m[r] < m[b] => f[r] = g[r]) => step[<<b, f>>] = step[<<b, g>>]
    <2> SUFFICES ASSUME NEW b \in X, NEW f \in [X -> X], NEW g \in [X -> X],
                        \A r \in X : m[r] < m[b] => f[r] = g[r]
                 PROVE  NumbersOf(b, f) = NumbersOf(b, g)
      <3> HIDE DEF m, X
      <3> QED
        BY <1>2
    <2>1. b # <<>> => f[Tail(b)] = g[Tail(b)]
      <3> HIDE DEF X
      <3> QED
        BY <1>3
    <2> HIDE DEF X, m, step
    <2> QED
      BY <2>1 DEF NumbersOf
  <1>8. PICK f \in [X -> X] : \A b \in X : f[b] = step[<<b, f>>]
    <2>1. Recursive(X, m, X, step)
      <3> HIDE DEF X, m, step
      <3> QED
        BY <1>1, <1>6, <1>7 DEF Recursive
    <2> HIDE DEF X, m, step
    <2> QED
      BY <2>1, RecursionExists
  <1>9. f = [b \in Seq(Nat) |->
              IF b = <<>> THEN <<>> ELSE
              LET rest == f[Tail(b)] IN
              IF b[1] < TileBase THEN <<b[1]>> \o rest
              ELSE IF rest = <<>> THEN <<>>
              ELSE <<b[1] - TileBase + TileBase * rest[1]>> \o Tail(rest)]
    <2>1. f = [b \in X |-> NumbersOf(b, f)]
      <3> HIDE DEF step, X
      <3> QED
        BY <1>2, <1>8
    <2> QED
      BY <2>1 DEF NumbersOf
  <1>10. Numbers = [b \in Seq(Nat) |->
              IF b = <<>> THEN <<>> ELSE
              LET rest == Numbers[Tail(b)] IN
              IF b[1] < TileBase THEN <<b[1]>> \o rest
              ELSE IF rest = <<>> THEN <<>>
              ELSE <<b[1] - TileBase + TileBase * rest[1]>> \o Tail(rest)]
    <2> HIDE DEF step, X, m
    <2> QED
      BY <1>9 DEF Numbers
  <1>11. \A b \in X : Numbers[b] = NumbersOf(b, Numbers)
    BY <1>10 DEF NumbersOf
  <1>12. \A b \in X : Numbers[b] \in X
    <2> DEFINE Bad == {n \in Nat : \E b \in X : Len(b) = n /\ Numbers[b] \notin X}
    <2>1. Bad = {}
      <3> SUFFICES ASSUME Bad # {} PROVE FALSE
        OBVIOUS
      <3> HIDE DEF X
      <3>1. PICK n \in Bad : \A i \in Bad : n <= i
        <4> Bad \in SUBSET Nat
          OBVIOUS
        <4> HIDE DEF Bad
        <4> QED
          BY LeastNumber
      <3>2. PICK b \in X : Len(b) = n /\ Numbers[b] \notin X
        BY <3>1
      <3>3. b # <<>> => Numbers[Tail(b)] \in X
        <4> SUFFICES ASSUME b # <<>> PROVE Numbers[Tail(b)] \in X
          OBVIOUS
        <4>1. Tail(b) \in X /\ Len(b) \in Nat /\ Len(Tail(b)) < Len(b)
          BY <1>3
        <4>2. Len(Tail(b)) \in Nat
          BY <4>1 DEF X
        <4>3. Len(Tail(b)) \notin Bad
          BY <3>1, <3>2, <4>1, <4>2
        <4> QED
          BY <4>1, <4>2, <4>3
      <3>4. NumbersOf(b, Numbers) \in X
        BY <1>5, <3>3
      <3> QED
        BY <1>11, <3>2, <3>4
    <2>2. \A b \in X : Len(b) \in Nat
      OBVIOUS
    <2> HIDE DEF X
    <2> QED
      BY <2>1, <2>2
  <1> QED
    BY <1>11, <1>12

(* A number before bytes c is read as it is, and c after it.               *)
LEMMA FirstAndRest ==
  ASSUME NEW x \in Nat, NEW s \in Seq(Nat)
  PROVE  <<x>> \o s # <<>> /\ (<<x>> \o s)[1] = x /\ Tail(<<x>> \o s) = s
  <1> DEFINE t == <<x>> \o s
             n == Len(s)
             v == Tail(t)
  <1>1. <<x>> \in Seq(Nat) /\ Len(<<x>>) = 1 /\ <<x>>[1] = x /\ n \in Nat
    OBVIOUS
  <1>2. t \in Seq(Nat) /\ Len(t) = 1 + n
        /\ \A i \in 1 .. 1 + n : t[i] = IF i <= 1 THEN x ELSE s[i - 1]
    BY <1>1, ConcatProperties
  <1> HIDE DEF t
  <1>3. t # <<>> /\ t[1] = x
    <2>1. Len(<<>>) = 0 /\ 1 \in 1 .. 1 + n /\ 1 + n # 0
      BY <1>1
    <2> QED
      BY <1>2, <2>1
  <1>4. v \in Seq(Nat) /\ Len(v) = n /\ \A i \in 1..n : v[i] = t[i + 1]
    <2>1. v \in Seq(Nat) /\ Len(v) = Len(t) - 1 /\ \A i \in 1..Len(v) : v[i] = t[i + 1]
      BY <1>2, <1>3, HeadTailProperties
    <2>2. Len(v) = n
      BY <1>1, <1>2, <2>1
    <2> QED
      BY <2>1, <2>2
  <1>5. \A i \in 1..n : v[i] = s[i]
    <2> SUFFICES ASSUME NEW i \in 1..n PROVE v[i] = s[i]
      OBVIOUS
    <2>1. i + 1 \in 1 .. 1 + n /\ ~ (i + 1 <= 1) /\ (i + 1) - 1 = i
      BY <1>1
    <2> QED
      BY <1>2, <1>4, <2>1
  <1>6. v = s
    <2> HIDE DEF v
    <2> QED
      BY <1>4, <1>5, SeqEqual
  <1> QED
    BY <1>3, <1>6 DEF t

LEMMA VarintRead ==
  ASSUME NEW n \in Nat, NEW c \in Seq(Nat)
  PROVE  Varint[n] \o c \in Seq(Nat) /\ Numbers[Varint[n] \o c] = <<n>> \o Numbers[c]
  <1> DEFINE Read(k) == Numbers[Varint[k] \o c] = <<k>> \o Numbers[c]
             Bad == {k \in Nat : ~ Read(k)}
  <1>1. \A k \in Nat : Varint[k] \o c \in Seq(Nat)
    BY VarintDef
  <1>2. Bad = {}
    <2> SUFFICES ASSUME Bad # {} PROVE FALSE
      OBVIOUS
    <2>1. PICK k \in Bad : \A i \in Bad : k <= i
      <3> Bad \in SUBSET Nat
        OBVIOUS
      <3> HIDE DEF Bad
      <3> QED
        BY LeastNumber
    <2> DEFINE b == Varint[k] \o c
    <2>2. b \in Seq(Nat) /\ Numbers[b] = NumbersOf(b, Numbers) /\ k \in Nat
      BY <1>1, NumbersDef
    <2>3. Varint[k] = VarintOf(k, Varint)
      BY <2>2, VarintDef
    <2>4. Numbers[c] \in Seq(Nat)
      BY NumbersDef
    <2>5. CASE k < TileBase
      <3>1. b = <<k>> \o c
        BY <2>3, <2>5 DEF VarintOf
      <3>2. b # <<>> /\ b[1] = k /\ Tail(b) = c
        <4> HIDE DEF b
        <4> QED
          BY <3>1, <2>2, FirstAndRest
      <3> HIDE DEF b
      <3>3. Numbers[b] = <<k>> \o Numbers[c]
        BY <2>2, <2>5, <3>2 DEF NumbersOf
      <3>4. Read(k)
        BY <3>3 DEF b
      <3> HIDE DEF Read
      <3> QED
        BY <2>1, <3>4
    <2>6. CASE ~ (k < TileBase)
      <3> DEFINE q == k \div TileBase
                 r == k % TileBase
      <3>1. q \in Nat /\ r \in Nat /\ k = TileBase * q + r /\ TileBase \in Nat \ {0}
        BY <2>2, BaseIs, Divided, RestBelow, QuotientNat
      <3>2. q < k
        <4>1. k \in Nat \ {0}
          BY <2>2, <2>6, BaseIs
        <4> QED
          BY <4>1, BaseIs, QuotientLess
      <3>3. b = (<<TileBase + r>> \o Varint[q]) \o c
        BY <2>3, <2>6 DEF VarintOf
      <3> HIDE DEF q, r
      <3>4. Read(q)
        <4>1. q \notin Bad
          BY <2>1, <2>2, <3>1, <3>2
        <4> HIDE DEF Read
        <4> QED
          BY <3>1, <4>1
      <3>5. Varint[q] \in Seq(Nat) /\ Varint[q] \o c \in Seq(Nat)
        BY <3>1, <1>1, VarintDef
      <3> DEFINE v == Varint[q]
                 w == TileBase + r
      <3>6. w \in Nat /\ ~ (w < TileBase) /\ w - TileBase = r
        BY <3>1
      <3>7. b # <<>> /\ b[1] = w /\ Tail(b) = v \o c
        <4> v \in Seq(Nat)
          BY <3>5
        <4> HIDE DEF b, v, w
        <4>1. b = (<<w>> \o v) \o c
          BY <3>3 DEF v, w
        <4> QED
          BY <4>1, <3>6, SMTT(60)
      <3>8. Numbers[v \o c] = <<q>> \o Numbers[c]
        BY <3>4
      <3> DEFINE rest == <<q>> \o Numbers[c]
      <3>9. rest # <<>> /\ rest[1] = q /\ Tail(rest) = Numbers[c]
        <4>1. q \in Nat /\ Numbers[c] \in Seq(Nat)
          BY <2>4, <3>1
        <4> QED
          BY <4>1, FirstAndRest
      <3> HIDE DEF b, w, v, rest
      <3>10. Numbers[b] = <<w - TileBase + TileBase * q>> \o Numbers[c]
        BY <2>2, <3>6, <3>7, <3>8, <3>9 DEF NumbersOf, rest
      <3>11. w - TileBase + TileBase * q = k
        <4> DEFINE y == TileBase * q
        <4>1. y \in Nat /\ k = y + r
          BY <3>1, TimesNat
        <4> HIDE DEF y
        <4>2. w - TileBase + y = k
          BY <4>1, <3>1, <3>6
        <4> QED
          BY <4>2 DEF y
      <3>12. Read(k)
        BY <3>10, <3>11 DEF b
      <3> HIDE DEF Read
      <3> QED
        BY <2>1, <3>12
    <2> QED
      BY <2>5, <2>6
  <1>3. Read(n)
    <2> HIDE DEF Read
    <2> QED
      BY <1>2
  <1> QED
    BY <1>1, <1>3

-----------------------------------------------------------------------------
(* Sequences one after another.                                             *)

FlattenOf(i, f, ss) == IF i = 1 THEN ss[i] ELSE f[i - 1] \o ss[i]

(* FlattenSeq(ss) is the last of what the first i of ss make together.      *)
FlattenedBy(g, ss, A) ==
    /\ g \in [0..Len(ss) -> Seq(A)]
    /\ g[0] = <<>>
    /\ \A i \in 1..Len(ss) : g[i] = g[i - 1] \o ss[i]
    /\ g[Len(ss)] = FlattenSeq(ss)

LEMMA FlattenParts ==
  ASSUME NEW A, NEW ss \in Seq(Seq(A))
  PROVE  \E g : FlattenedBy(g, ss, A)
  <1> DEFINE n == Len(ss)
             S == 1..n
             X == Seq(A)
             m == [i \in S |-> i]
             step == [sf \in S \X [S -> X] |-> FlattenOf(sf[1], sf[2], ss)]
  <1>0. n \in Nat /\ (\A i \in S : ss[i] \in X) /\ \A i \in S : i \in Nat /\ (i # 1 => i - 1 \in S)
    <2>1. n \in Nat
      OBVIOUS
    <2>2. \A i \in S : ss[i] \in X
      <3>1. ss \in Seq(X)
        OBVIOUS
      <3> HIDE DEF X
      <3> QED
        BY <3>1
    <2> HIDE DEF n, X
    <2> QED
      BY <2>1, <2>2
  <1>1. m \in [S -> Nat] /\ X # {}
    <2>1. m \in [S -> Nat]
      BY <1>0
    <2>2. <<>> \in X
      OBVIOUS
    <2> HIDE DEF X
    <2> QED
      BY <2>1, <2>2
  <1>2. \A i \in S : \A f \in [S -> X] : step[<<i, f>>] = FlattenOf(i, f, ss)
    <2> HIDE DEF X, S
    <2> QED
      OBVIOUS
  <1>3. \A i \in S : \A f : (i # 1 => f[i - 1] \in X) => FlattenOf(i, f, ss) \in X
    <2> SUFFICES ASSUME NEW i \in S, NEW f, i # 1 => f[i - 1] \in X PROVE FlattenOf(i, f, ss) \in X
      OBVIOUS
    <2>1. \A u, v \in X : u \o v \in X
      OBVIOUS
    <2> HIDE DEF X, S
    <2> QED
      BY <1>0, <2>1 DEF FlattenOf
  <1>4. step \in [S \X [S -> X] -> X]
    <2> HIDE DEF X, S
    <2>1. \A i \in S : \A f \in [S -> X] : FlattenOf(i, f, ss) \in X
      BY <1>0, <1>3
    <2> QED
      BY <2>1
  <1>5. \A i \in S : \A f, g \in [S -> X] :
          (\A r \in S : m[r] < m[i] => f[r] = g[r]) => step[<<i, f>>] = step[<<i, g>>]
    <2> SUFFICES ASSUME NEW i \in S, NEW f \in [S -> X], NEW g \in [S -> X],
                        \A r \in S : m[r] < m[i] => f[r] = g[r]
                 PROVE  FlattenOf(i, f, ss) = FlattenOf(i, g, ss)
      <3> HIDE DEF m, X, S
      <3> QED
        BY <1>2
    <2>1. i # 1 => f[i - 1] = g[i - 1]
      <3> HIDE DEF X
      <3> QED
        BY <1>0
    <2> HIDE DEF X, m, step, S
    <2> QED
      BY <2>1 DEF FlattenOf
  <1>6. PICK f \in [S -> X] : \A i \in S : f[i] = step[<<i, f>>]
    <2>1. Recursive(S, m, X, step)
      <3> HIDE DEF X, m, step, S
      <3> QED
        BY <1>1, <1>4, <1>5 DEF Recursive
    <2> HIDE DEF X, m, step, S
    <2> QED
      BY <2>1, RecursionExists
  <1>7. f = [i \in 1..Len(ss) |-> IF i = 1 THEN ss[i] ELSE f[i - 1] \o ss[i]]
    <2>1. f = [i \in S |-> FlattenOf(i, f, ss)]
      <3> HIDE DEF step, X, S
      <3> QED
        BY <1>2, <1>6
    <2> QED
      BY <2>1 DEF FlattenOf
  <1> DEFINE h == CHOOSE h : h = [i \in 1..Len(ss) |-> IF i = 1 THEN ss[i] ELSE h[i - 1] \o ss[i]]
  <1>8. h = [i \in 1..Len(ss) |-> IF i = 1 THEN ss[i] ELSE h[i - 1] \o ss[i]]
    <2> HIDE DEF step, X, m
    <2> QED
      BY <1>7
  <1> HIDE DEF h
  <1>9. \A i \in S : h[i] = FlattenOf(i, h, ss)
    BY <1>8 DEF FlattenOf
  <1>10. \A i \in S : h[i] \in X
    <2> DEFINE Bad == {i \in S : h[i] \notin X}
    <2> HIDE DEF X
    <2> SUFFICES ASSUME Bad # {} PROVE FALSE
      OBVIOUS
    <2>1. PICK i \in Bad : \A k \in Bad : i <= k
      <3> Bad \in SUBSET Nat
        BY <1>0
      <3> HIDE DEF Bad
      <3> QED
        BY LeastNumber
    <2>2. i # 1 => h[i - 1] \in X
      <3>1. i \in S /\ i \in Nat /\ (i # 1 => i - 1 \in S /\ ~ (i <= i - 1))
        BY <1>0, <2>1
      <3> HIDE DEF S
      <3> QED
        BY <2>1, <3>1
    <2>3. FlattenOf(i, h, ss) \in X
      BY <1>3, <2>2
    <2> QED
      BY <1>9, <2>1, <2>3
  <1> DEFINE g == [i \in 0..n |-> IF i = 0 THEN <<>> ELSE h[i]]
  <1>11. g \in [0..n -> X] /\ g[0] = <<>>
    <2>1. <<>> \in X
      OBVIOUS
    <2>2. \A i \in 0..n : i # 0 => i \in S
      BY <1>0
    <2>3. 0 \in 0..n
      BY <1>0
    <2> HIDE DEF X, S, n
    <2> QED
      BY <1>10, <2>1, <2>2, <2>3
  <1>12. \A i \in 1..n : g[i] = g[i - 1] \o ss[i]
    <2> SUFFICES ASSUME NEW i \in 1..n PROVE g[i] = g[i - 1] \o ss[i]
      OBVIOUS
    <2>1. i \in S /\ i # 0 /\ i \in 0..n /\ i - 1 \in 0..n /\ (i - 1 = 0 <=> i = 1)
      BY <1>0
    <2>2. g[i] = FlattenOf(i, h, ss)
      <3> HIDE DEF S, n
      <3> QED
        BY <1>9, <2>1
    <2>3. ss[i] \in Seq(A)
      BY <1>0, <2>1
    <2>4. CASE i = 1
      <3>1. g[i - 1] = <<>>
        BY <1>11, <2>4
      <3>2. <<>> \o ss[i] = ss[i]
        BY <2>3
      <3> HIDE DEF g
      <3> QED
        BY <2>2, <2>4, <3>1, <3>2 DEF FlattenOf
    <2>5. CASE i # 1
      <3>1. g[i - 1] = h[i - 1]
        BY <2>1, <2>5
      <3> HIDE DEF g
      <3> QED
        BY <2>2, <2>5, <3>1 DEF FlattenOf
    <2> QED
      BY <2>4, <2>5
  <1>13. g[n] = FlattenSeq(ss)
    <2>1. CASE n = 0
      <3>1. ss = <<>>
        BY <2>1
      <3>2. FlattenSeq(ss) = ss
        BY <2>1 DEF FlattenSeq
      <3> QED
        BY <1>11, <2>1, <3>1, <3>2
    <2>2. CASE n # 0
      <3>1. FlattenSeq(ss) = h[n]
        BY <2>2 DEF FlattenSeq, h
      <3>2. n \in 0..n
        BY <1>0
      <3>3. g[n] = h[n]
        <4> HIDE DEF n
        <4> QED
          BY <2>2, <3>2
      <3> QED
        BY <3>1, <3>3
    <2> QED
      BY <2>1, <2>2
  <1>14. FlattenedBy(g, ss, A)
    <2> HIDE DEF g
    <2> QED
      BY <1>11, <1>12, <1>13 DEF FlattenedBy
  <1> QED
    BY <1>14

LEMMA NumbersAssociate ==
  \A s, t, u \in Seq(Nat) : (s \o t) \o u = s \o (t \o u)
  BY ConcatAssociative, SMTT(60)

LEMMA FlattenTyped ==
  ASSUME NEW A, NEW ss \in Seq(Seq(A))
  PROVE  FlattenSeq(ss) \in Seq(A)
  <1>1. PICK g : FlattenedBy(g, ss, A)
    BY FlattenParts
  <1>2. Len(ss) \in Nat /\ Len(ss) \in 0..Len(ss)
    OBVIOUS
  <1> QED
    BY <1>1, <1>2 DEF FlattenedBy

(* Numbers written one after another are read one after another.           *)
LEMMA NumbersRead ==
  ASSUME NEW ints \in Seq(Nat)
  PROVE  /\ FlattenSeq([k \in DOMAIN ints |-> Varint[ints[k]]]) \in Seq(Nat)
         /\ Numbers[FlattenSeq([k \in DOMAIN ints |-> Varint[ints[k]]])] = ints
  <1> DEFINE ss == [k \in DOMAIN ints |-> Varint[ints[k]]]
             n == Len(ints)
  <1>1. ss \in Seq(Seq(Nat)) /\ Len(ss) = n /\ n \in Nat /\ \A i \in 1..n : ss[i] = Varint[ints[i]] /\ ints[i] \in Nat
    <2>1. n \in Nat /\ DOMAIN ints = 1..n /\ \A i \in 1..n : ints[i] \in Nat
      OBVIOUS
    <2> HIDE DEF n
    <2>2. \A i \in 1..n : Varint[ints[i]] \in Seq(Nat)
      BY <2>1, VarintDef
    <2> DEFINE B == Seq(Nat)
    <2> HIDE DEF B
    <2>3. ss \in [1..n -> B]
      BY <2>1, <2>2 DEF B
    <2> HIDE DEF ss
    <2>4. ss \in Seq(B) /\ Len(ss) = n
      BY <2>1, <2>3
    <2>5. \A i \in 1..n : ss[i] = Varint[ints[i]]
      BY <2>1 DEF ss
    <2> QED
      BY <2>1, <2>4, <2>5 DEF B
  <1> HIDE DEF ss
  <1>2. PICK g : FlattenedBy(g, ss, Nat)
    BY <1>1, FlattenParts
  <1>3. /\ \A i \in 0..n : g[i] \in Seq(Nat)
        /\ g[0] = <<>> /\ g[n] = FlattenSeq(ss)
        /\ \A i \in 1..n : g[i] = g[i - 1] \o ss[i]
    BY <1>1, <1>2 DEF FlattenedBy
  <1> DEFINE Reads(i) == \A c \in Seq(Nat) : Numbers[g[i] \o c] = SubSeq(ints, 1, i) \o Numbers[c]
  <1>4. Reads(0)
    <2> SUFFICES ASSUME NEW c \in Seq(Nat) PROVE Numbers[g[0] \o c] = SubSeq(ints, 1, 0) \o Numbers[c]
      OBVIOUS
    <2>1. g[0] \o c = c
      BY <1>3
    <2>2. SubSeq(ints, 1, 0) = <<>>
      OBVIOUS
    <2>3. <<>> \o Numbers[c] = Numbers[c]
      BY NumbersDef
    <2> QED
      BY <2>1, <2>2, <2>3
  <1>5. ASSUME NEW i \in 1..n, Reads(i - 1) PROVE Reads(i)
    <2> SUFFICES ASSUME NEW c \in Seq(Nat) PROVE Numbers[g[i] \o c] = SubSeq(ints, 1, i) \o Numbers[c]
      OBVIOUS
    <2> DEFINE v == Varint[ints[i]]
               w == g[i - 1]
               p == SubSeq(ints, 1, i - 1)
    <2>1. v \in Seq(Nat) /\ ints[i] \in Nat
      BY <1>1, VarintDef
    <2>2. w \in Seq(Nat)
      <3> i - 1 \in 0..n
        BY <1>1
      <3> QED
        BY <1>3
    <2>3. p \in Seq(Nat) /\ Numbers[c] \in Seq(Nat) /\ v \o c \in Seq(Nat)
      <3>1. p \in Seq(Nat)
        BY <1>1
      <3> QED
        BY <3>1, <2>1, NumbersDef, VarintRead
    <2>4. g[i] \o c = w \o (v \o c)
      <3>1. g[i] = w \o v
        BY <1>1, <1>3
      <3>2. v \in Seq(Nat) /\ w \in Seq(Nat)
        BY <2>1, <2>2
      <3> HIDE DEF w, v
      <3>3. (w \o v) \o c = w \o (v \o c)
        BY ONLY <3>2, c \in Seq(Nat), NumbersAssociate
      <3> QED
        BY <3>1, <3>3
    <2>5. Numbers[w \o (v \o c)] = p \o Numbers[v \o c]
      <3> HIDE DEF v
      <3> QED
        BY <1>5, <2>3
    <2>6. Numbers[v \o c] = <<ints[i]>> \o Numbers[c]
      BY <2>1, VarintRead
    <2>7. SubSeq(ints, 1, i) = p \o <<ints[i]>>
      <3>1. 1 \in 1..Len(ints) /\ i \in 1..Len(ints)
        BY <1>1
      <3> QED
        BY <3>1, SubSeqRecursiveSecond
    <2>8. (p \o <<ints[i]>>) \o Numbers[c] = p \o (<<ints[i]>> \o Numbers[c])
      <3> DEFINE d == Numbers[c]
                 e == <<ints[i]>>
      <3>1. e \in Seq(Nat) /\ d \in Seq(Nat) /\ p \in Seq(Nat)
        BY <2>1, <2>3
      <3> HIDE DEF p, d, e
      <3>2. (p \o e) \o d = p \o (e \o d)
        BY ONLY <3>1, NumbersAssociate, ZenonT(60)
      <3> QED
        BY <3>2 DEF d, e
    <2> HIDE DEF v, w, p
    <2> QED
      BY <2>4, <2>5, <2>6, <2>7, <2>8
  <1>6. \A i \in 0..n : Reads(i)
    <2> DEFINE Bad == {i \in 0..n : ~ Reads(i)}
    <2> HIDE DEF Reads
    <2> SUFFICES ASSUME Bad # {} PROVE FALSE
      OBVIOUS
    <2>1. PICK i \in Bad : \A k \in Bad : i <= k
      <3> Bad \in SUBSET Nat
        BY <1>1
      <3> HIDE DEF Bad
      <3> QED
        BY LeastNumber
    <2>2. i # 0
      BY <1>4, <2>1
    <2>3. i \in 1..n /\ i - 1 \in 0..n /\ ~ (i <= i - 1)
      BY <1>1, <2>1, <2>2
    <2> QED
      BY <1>5, <2>1, <2>3
  <1>7. Numbers[<<>>] = <<>>
    <2>1. <<>> \in Seq(Nat)
      OBVIOUS
    <2>2. Numbers[<<>>] = NumbersOf(<<>>, Numbers)
      BY <2>1, NumbersDef
    <2> QED
      BY <2>2 DEF NumbersOf
  <1>8. FlattenSeq(ss) \in Seq(Nat)
    BY <1>1, FlattenTyped
  <1>9. Numbers[g[n] \o <<>>] = SubSeq(ints, 1, n) \o Numbers[<<>>]
    <2>1. n \in 0..n /\ <<>> \in Seq(Nat)
      BY <1>1
    <2>2. Reads(n)
      <3> HIDE DEF Reads
      <3> QED
        BY <1>6, <2>1
    <2> QED
      BY <2>1, <2>2
  <1>10. g[n] \o <<>> = FlattenSeq(ss)
    BY <1>3, <1>8
  <1>11. SubSeq(ints, 1, n) \o <<>> = ints
    BY SubSeqFull
  <1> QED
    BY <1>7, <1>8, <1>9, <1>10, <1>11 DEF ss

-----------------------------------------------------------------------------
(* Directories.                                                             *)

(* The n numbers of w after its first k are those of col.                  *)
Column(w, k, n, col) == \A i \in 1..n : w[k + i] = col[i]

Appends(s, k, t, n, w) ==
    /\ s \in Seq(Nat) /\ t \in Seq(Nat) /\ k \in Nat /\ n \in Nat
    /\ Len(s) = k /\ Len(t) = n /\ w = s \o t

LEMMA ColumnAdded ==
  ASSUME NEW s, NEW k, NEW t, NEW n, NEW w, Appends(s, k, t, n, w)
  PROVE  w \in Seq(Nat) /\ Len(w) = k + n /\ Column(w, k, n, t)
  <1> USE DEF Appends
  <1>1. /\ w \in Seq(Nat)
        /\ Len(w) = k + n
        /\ \A i \in 1 .. k + n : w[i] = IF i <= k THEN s[i] ELSE t[i - k]
    BY ConcatProperties
  <1>2. ASSUME NEW i \in 1..n PROVE w[k + i] = t[i]
    <2>1. k + i \in 1 .. k + n /\ ~ (k + i <= k) /\ (k + i) - k = i
      OBVIOUS
    <2> QED
      BY <1>1, <2>1
  <1> QED
    BY <1>1, <1>2 DEF Column

Fits(p, q, k) == p \in Nat /\ q \in Nat /\ p + q <= k

LEMMA ColumnKept ==
  ASSUME NEW s, NEW k, NEW t, NEW n, NEW w, Appends(s, k, t, n, w),
         NEW p, NEW q, Fits(p, q, k), NEW col, Column(s, p, q, col)
  PROVE  Column(w, p, q, col)
  <1> USE DEF Appends, Fits
  <1>1. \A i \in 1 .. k + n : w[i] = IF i <= k THEN s[i] ELSE t[i - k]
    BY ConcatProperties
  <1>2. ASSUME NEW i \in 1..q PROVE w[p + i] = col[i]
    <2>1. p + i \in 1 .. k + n /\ p + i <= k
      OBVIOUS
    <2>2. w[p + i] = s[p + i]
      BY <1>1, <2>1
    <2> QED
      BY <2>2 DEF Column
  <1> QED
    BY <1>2 DEF Column

LEMMA FourColumns ==
  ASSUME NEW n \in Nat, NEW a \in Seq(Nat), NEW b \in Seq(Nat), NEW c \in Seq(Nat), NEW d \in Seq(Nat),
         Len(a) = n, Len(b) = n, Len(c) = n, Len(d) = n
  PROVE  LET w == <<n>> \o a \o b \o c \o d
         IN  /\ w \in Seq(Nat)
             /\ Column(w, 0, 1, <<n>>)
             /\ Column(w, 1, n, a)
             /\ Column(w, 1 + n, n, b)
             /\ Column(w, 1 + 2 * n, n, c)
             /\ Column(w, 1 + 3 * n, n, d)
             /\ Len(w) # 0
  <1> DEFINE u == <<n>>
             ua == u \o a
             ub == ua \o b
             uc == ub \o c
             w == uc \o d
             k2 == 1 + n
             k3 == 1 + 2 * n
             k4 == 1 + 3 * n
  <1>0. /\ k2 \in Nat /\ k3 \in Nat /\ k4 \in Nat /\ 1 \in Nat
        /\ 1 + n = k2 /\ k2 + n = k3 /\ k3 + n = k4 /\ k4 + n # 0
    OBVIOUS
  <1>10. /\ Fits(0, 1, 1) /\ Fits(0, 1, k2) /\ Fits(0, 1, k3) /\ Fits(0, 1, k4)
         /\ Fits(1, n, k2) /\ Fits(1, n, k3) /\ Fits(1, n, k4)
         /\ Fits(k2, n, k3) /\ Fits(k2, n, k4) /\ Fits(k3, n, k4)
    BY DEF Fits
  <1>1. u \in Seq(Nat) /\ Len(u) = 1 /\ Column(u, 0, 1, u)
    <2>1. \A i \in 1..1 : 0 + i = i
      OBVIOUS
    <2> QED
      BY <2>1 DEF Column
  <1> SUFFICES /\ w \in Seq(Nat) /\ Column(w, 0, 1, u) /\ Column(w, 1, n, a)
               /\ Column(w, k2, n, b) /\ Column(w, k3, n, c) /\ Column(w, k4, n, d)
               /\ Len(w) # 0
    OBVIOUS
  <1> HIDE DEF u, k2, k3, k4
  <1>2. Appends(u, 1, a, n, ua)
    BY <1>0, <1>1 DEF Appends
  <1> HIDE DEF ua
  <1>3. ua \in Seq(Nat) /\ Len(ua) = k2 /\ Column(ua, 1, n, a)
    BY <1>0, <1>2, ColumnAdded
  <1>3a. Column(ua, 0, 1, u)
    BY <1>1, <1>2, <1>10, ColumnKept
  <1>4. Appends(ua, k2, b, n, ub)
    BY <1>0, <1>3 DEF Appends
  <1> HIDE DEF ub
  <1>5. ub \in Seq(Nat) /\ Len(ub) = k3 /\ Column(ub, k2, n, b)
    BY <1>0, <1>4, ColumnAdded
  <1>5a. Column(ub, 0, 1, u)
    BY <1>3a, <1>4, <1>10, ColumnKept
  <1>5b. Column(ub, 1, n, a)
    BY <1>3, <1>4, <1>10, ColumnKept
  <1>6. Appends(ub, k3, c, n, uc)
    BY <1>0, <1>5 DEF Appends
  <1> HIDE DEF uc
  <1>7. uc \in Seq(Nat) /\ Len(uc) = k4 /\ Column(uc, k3, n, c)
    BY <1>0, <1>6, ColumnAdded
  <1>7a. Column(uc, 0, 1, u)
    BY <1>5a, <1>6, <1>10, ColumnKept
  <1>7b. Column(uc, 1, n, a)
    BY <1>5b, <1>6, <1>10, ColumnKept
  <1>7c. Column(uc, k2, n, b)
    BY <1>5, <1>6, <1>10, ColumnKept
  <1>8. Appends(uc, k4, d, n, w)
    BY <1>0, <1>7 DEF Appends
  <1> HIDE DEF w
  <1>9. w \in Seq(Nat) /\ Column(w, k4, n, d) /\ Len(w) = k4 + n
    BY <1>8, ColumnAdded
  <1>9a. Column(w, 0, 1, u)
    BY <1>7a, <1>8, <1>10, ColumnKept
  <1>9b. Column(w, 1, n, a)
    BY <1>7b, <1>8, <1>10, ColumnKept
  <1>9c. Column(w, k2, n, b)
    BY <1>7c, <1>8, <1>10, ColumnKept
  <1>9d. Column(w, k3, n, c)
    BY <1>7, <1>8, <1>10, ColumnKept
  <1> QED
    BY <1>0, <1>9, <1>9a, <1>9b, <1>9c, <1>9d

(* The ids of a directory do not descend: serialize_directory asks for it.  *)
Ascending(es) == \A i \in 2..Len(es) : es[i - 1].id <= es[i].id

LEMMA DirectoryNumbers ==
  ASSUME NEW es \in Seq(TileEntrySet), Ascending(es)
  PROVE  /\ TileNumbers(es) \in Seq(Nat) /\ Len(TileNumbers(es)) # 0
         /\ TileNumbers(es)[1] = Len(es)
         /\ \A i \in 1..Len(es) :
              /\ TileNumbers(es)[1 + i] = es[i].id - (IF i = 1 THEN 0 ELSE es[i - 1].id)
              /\ TileNumbers(es)[1 + Len(es) + i] = es[i].run
              /\ TileNumbers(es)[1 + 2 * Len(es) + i] = es[i].length
              /\ TileNumbers(es)[1 + 3 * Len(es) + i] = TileOffsetOut(es, i)
  <1> DEFINE n == Len(es)
             a == [i \in DOMAIN es |-> es[i].id - (IF i = 1 THEN 0 ELSE es[i - 1].id)]
             b == [i \in DOMAIN es |-> es[i].run]
             c == [i \in DOMAIN es |-> es[i].length]
             d == [i \in DOMAIN es |-> TileOffsetOut(es, i)]
  <1>1. n \in Nat /\ DOMAIN es = 1..n /\ \A i \in 1..n : es[i] \in TileEntrySet
    OBVIOUS
  <1>2. \A i \in 1..n : /\ es[i].id \in Nat /\ es[i].offset \in Nat
                        /\ es[i].length \in Nat /\ es[i].run \in Nat
    BY <1>1 DEF TileEntrySet
  <1>3. \A i \in 1..n : es[i].id - (IF i = 1 THEN 0 ELSE es[i - 1].id) \in Nat
    <2> SUFFICES ASSUME NEW i \in 1..n PROVE es[i].id - (IF i = 1 THEN 0 ELSE es[i - 1].id) \in Nat
      OBVIOUS
    <2>1. CASE i = 1
      BY <1>2, <2>1
    <2>2. CASE i # 1
      <3>1. i \in 2..n /\ i - 1 \in 1..n
        BY <1>1, <2>2
      <3>2. es[i - 1].id <= es[i].id
        BY <3>1 DEF Ascending
      <3> HIDE DEF n
      <3> QED
        BY <1>2, <2>2, <3>1, <3>2
    <2> QED
      BY <2>1, <2>2
  <1>4. \A i \in 1..n : TileOffsetOut(es, i) \in Nat
    <2> HIDE DEF n
    <2>1. \A i \in 1..n : es[i].offset + 1 \in Nat
      BY <1>2
    <2> QED
      BY <2>1 DEF TileOffsetOut
  <1>5. \A f : f \in [1..n -> Nat] => f \in Seq(Nat) /\ Len(f) = n
    BY <1>1
  <1>6. a \in [1..n -> Nat] /\ b \in [1..n -> Nat] /\ c \in [1..n -> Nat] /\ d \in [1..n -> Nat]
    <2> HIDE DEF n
    <2> QED
      BY <1>1, <1>2, <1>3, <1>4
  <1>7. /\ a \in Seq(Nat) /\ b \in Seq(Nat) /\ c \in Seq(Nat) /\ d \in Seq(Nat)
        /\ Len(a) = n /\ Len(b) = n /\ Len(c) = n /\ Len(d) = n
    <2> HIDE DEF n, a, b, c, d
    <2> QED
      BY <1>5, <1>6
  <1> DEFINE w == TileNumbers(es)
  <1>8. w = <<n>> \o a \o b \o c \o d
    BY DEF TileNumbers
  <1>9. /\ w \in Seq(Nat) /\ Len(w) # 0
        /\ Column(w, 0, 1, <<n>>)
        /\ Column(w, 1, n, a)
        /\ Column(w, 1 + n, n, b)
        /\ Column(w, 1 + 2 * n, n, c)
        /\ Column(w, 1 + 3 * n, n, d)
    <2> HIDE DEF n, a, b, c, d, w
    <2> QED
      BY <1>1, <1>7, <1>8, FourColumns
  <1>10. w[1] = n
    <2> HIDE DEF w, n
    <2>1. 1 \in 1..1 /\ 0 + 1 = 1
      OBVIOUS
    <2>2. w[0 + 1] = <<n>>[1]
      BY <1>9, <2>1 DEF Column
    <2> QED
      BY <2>1, <2>2
  <1>11. ASSUME NEW i \in 1..n
         PROVE  /\ w[1 + i] = a[i] /\ w[1 + n + i] = b[i]
                /\ w[1 + 2 * n + i] = c[i] /\ w[1 + 3 * n + i] = d[i]
    <2> HIDE DEF n, a, b, c, d, w
    <2> QED
      BY <1>9, Zenon DEF Column
  <1>12. ASSUME NEW i \in 1..n
         PROVE  /\ a[i] = es[i].id - (IF i = 1 THEN 0 ELSE es[i - 1].id)
                /\ b[i] = es[i].run
                /\ c[i] = es[i].length
                /\ d[i] = TileOffsetOut(es, i)
    BY <1>1
  <1>13. ASSUME NEW i \in 1..n
         PROVE  /\ w[1 + i] = es[i].id - (IF i = 1 THEN 0 ELSE es[i - 1].id)
                /\ w[1 + n + i] = es[i].run
                /\ w[1 + 2 * n + i] = es[i].length
                /\ w[1 + 3 * n + i] = TileOffsetOut(es, i)
    <2>1. /\ w[1 + i] = a[i] /\ w[1 + n + i] = b[i]
          /\ w[1 + 2 * n + i] = c[i] /\ w[1 + 3 * n + i] = d[i]
      BY <1>11
    <2>2. /\ a[i] = es[i].id - (IF i = 1 THEN 0 ELSE es[i - 1].id)
          /\ b[i] = es[i].run
          /\ c[i] = es[i].length
          /\ d[i] = TileOffsetOut(es, i)
      BY <1>12
    <2> HIDE DEF n, a, b, c, d, w
    <2> QED
      BY <2>1, <2>2
  <1> HIDE DEF a, b, c, d, w
  <1> QED
    BY <1>9, <1>10, <1>13 DEF w

LEMMA DirectoryBytes ==
  ASSUME NEW es \in Seq(TileEntrySet), Ascending(es)
  PROVE  /\ SerializeDirectory(es) \in Seq(Nat)
         /\ Numbers[SerializeDirectory(es)] = TileNumbers(es)
  <1>1. TileNumbers(es) \in Seq(Nat)
    BY DirectoryNumbers
  <1> DEFINE ints == TileNumbers(es)
  <1>2. SerializeDirectory(es) = FlattenSeq([k \in DOMAIN ints |-> Varint[ints[k]]])
    BY DEF SerializeDirectory
  <1> HIDE DEF ints
  <1>3. ints \in Seq(Nat)
    BY <1>1 DEF ints
  <1>4. /\ FlattenSeq([k \in DOMAIN ints |-> Varint[ints[k]]]) \in Seq(Nat)
        /\ Numbers[FlattenSeq([k \in DOMAIN ints |-> Varint[ints[k]]])] = ints
    BY <1>3, NumbersRead
  <1> QED
    BY <1>2, <1>4 DEF ints

LEMMA IdsRead ==
  ASSUME NEW es \in Seq(TileEntrySet), Ascending(es)
  PROVE  \A i \in 1..Len(es) : TileIdsIn(TileNumbers(es), Len(es))[i] = es[i].id
  <1> DEFINE n == Len(es)
             w == TileNumbers(es)
             ids == TileIdsIn(w, n)
             f == [i \in 1..n |-> es[i].id]
  <1>1. n \in Nat /\ (\A i \in 1..n : es[i].id \in Nat)
        /\ \A i \in 1..n : w[1 + i] = es[i].id - (IF i = 1 THEN 0 ELSE es[i - 1].id)
    <2>1. n \in Nat /\ \A i \in 1..n : es[i] \in TileEntrySet
      OBVIOUS
    <2>2. \A i \in 1..n : es[i].id \in Nat
      BY <2>1 DEF TileEntrySet
    <2> QED
      BY <2>1, <2>2, DirectoryNumbers
  <1> HIDE DEF w, n
  <1>2. \A i \in 1..n : es[i].id = w[1 + i] + (IF i = 1 THEN 0 ELSE es[i - 1].id)
    <2> SUFFICES ASSUME NEW i \in 1..n
                 PROVE  es[i].id = w[1 + i] + (IF i = 1 THEN 0 ELSE es[i - 1].id)
      OBVIOUS
    <2>1. i # 1 => i - 1 \in 1..n
      BY <1>1
    <2> QED
      BY <1>1, <2>1
  <1>3. f = [i \in 1..n |-> w[1 + i] + (IF i = 1 THEN 0 ELSE f[i - 1])]
    <2>1. \A i \in 1..n : f[i] = w[1 + i] + (IF i = 1 THEN 0 ELSE f[i - 1])
      <3> SUFFICES ASSUME NEW i \in 1..n PROVE f[i] = w[1 + i] + (IF i = 1 THEN 0 ELSE f[i - 1])
        OBVIOUS
      <3>1. i # 1 => i - 1 \in 1..n
        BY <1>1
      <3>2. i # 1 => f[i - 1] = es[i - 1].id
        BY <3>1
      <3> QED
        BY <1>2, <3>2
    <2>2. f = [i \in 1..n |-> f[i]]
      OBVIOUS
    <2> HIDE DEF f
    <2> QED
      BY <2>1, <2>2
  <1>4. ids = [i \in 1..n |-> w[1 + i] + (IF i = 1 THEN 0 ELSE ids[i - 1])]
    <2> HIDE DEF f
    <2> QED
      BY <1>3 DEF TileIdsIn
  <1> HIDE DEF ids
  <1> DEFINE Bad == {i \in 1..n : ids[i] # es[i].id}
  <1>5. Bad = {}
    <2> SUFFICES ASSUME Bad # {} PROVE FALSE
      OBVIOUS
    <2>1. PICK i \in Bad : \A k \in Bad : i <= k
      <3> Bad \in SUBSET Nat
        BY <1>1
      <3> HIDE DEF Bad
      <3> QED
        BY LeastNumber
    <2>2. i \in 1..n /\ ids[i] = w[1 + i] + (IF i = 1 THEN 0 ELSE ids[i - 1])
      BY <1>4
    <2>3. i # 1 => ids[i - 1] = es[i - 1].id
      <3>1. i # 1 => i - 1 \in 1..n /\ ~ (i <= i - 1)
        BY <1>1
      <3> QED
        BY <2>1, <3>1
    <2>4. ids[i] = es[i].id
      BY <1>2, <2>2, <2>3
    <2> QED
      BY <2>4
  <1>6. \A i \in 1..n : ids[i] = es[i].id
    BY <1>5
  <1> QED
    BY <1>6 DEF ids, n, w

LEMMA OffsetsRead ==
  ASSUME NEW es \in Seq(TileEntrySet), Ascending(es)
  PROVE  \A i \in 1..Len(es) : TileOffsetsIn(TileNumbers(es), Len(es))[i] = es[i].offset
  <1> DEFINE n == Len(es)
             w == TileNumbers(es)
             at == TileOffsetsIn(w, n)
             f == [i \in 1..n |-> es[i].offset]
             Next1(i, g) == IF w[1 + 3 * n + i] = 0 THEN g[i - 1] + w[1 + 2 * n + i - 1]
                            ELSE w[1 + 3 * n + i] - 1
  <1>1. n \in Nat /\ (\A i \in 1..n : es[i].offset \in Nat /\ es[i].length \in Nat)
        /\ \A i \in 1..n : w[1 + 3 * n + i] = TileOffsetOut(es, i) /\ w[1 + 2 * n + i] = es[i].length
    <2>1. n \in Nat /\ \A i \in 1..n : es[i] \in TileEntrySet
      OBVIOUS
    <2>2. \A i \in 1..n : es[i].offset \in Nat /\ es[i].length \in Nat
      BY <2>1 DEF TileEntrySet
    <2> QED
      BY <2>1, <2>2, DirectoryNumbers
  <1> HIDE DEF w, n
  <1>2. ASSUME NEW i \in 1..n, NEW g, w[1 + 3 * n + i] = 0 => g[i - 1] = es[i - 1].offset
        PROVE  Next1(i, g) = es[i].offset
    <2>1. w[1 + 3 * n + i] = TileOffsetOut(es, i)
      BY <1>1
    <2>2. CASE i > 1 /\ es[i].offset = TileEnd(es[i - 1])
      <3>1. w[1 + 3 * n + i] = 0
        BY <2>1, <2>2 DEF TileOffsetOut
      <3>2. i - 1 \in 1..n /\ 1 + 2 * n + i - 1 = 1 + 2 * n + (i - 1)
        BY <1>1, <2>2
      <3>3. w[1 + 2 * n + i - 1] = es[i - 1].length
        BY <1>1, <3>2
      <3> QED
        BY <1>2, <2>2, <3>1, <3>3 DEF TileEnd
    <2>3. CASE ~ (i > 1 /\ es[i].offset = TileEnd(es[i - 1]))
      <3>1. w[1 + 3 * n + i] = es[i].offset + 1
        BY <2>1, <2>3 DEF TileOffsetOut
      <3>2. es[i].offset \in Nat
        BY <1>1
      <3> QED
        BY <3>1, <3>2
    <2> QED
      BY <2>2, <2>3
  <1>3. \A i \in 1..n : w[1 + 3 * n + i] = 0 => i - 1 \in 1..n /\ ~ (i <= i - 1)
    <2> SUFFICES ASSUME NEW i \in 1..n, w[1 + 3 * n + i] = 0 PROVE i - 1 \in 1..n /\ ~ (i <= i - 1)
      OBVIOUS
    <2>1. TileOffsetOut(es, i) = 0 /\ es[i].offset \in Nat
      BY <1>1
    <2>2. i > 1
      BY <2>1 DEF TileOffsetOut
    <2> QED
      BY <1>1, <2>2
  <1>4. f = [i \in 1..n |-> Next1(i, f)]
    <2>1. \A i \in 1..n : Next1(i, f) = es[i].offset
      <3> SUFFICES ASSUME NEW i \in 1..n PROVE Next1(i, f) = es[i].offset
        OBVIOUS
      <3>1. w[1 + 3 * n + i] = 0 => f[i - 1] = es[i - 1].offset
        BY <1>3
      <3> HIDE DEF Next1, f
      <3> QED
        BY <1>2, <3>1
    <2> HIDE DEF Next1
    <2> QED
      BY <2>1
  <1>5. at = [i \in 1..n |-> Next1(i, at)]
    <2> HIDE DEF f
    <2> QED
      BY <1>4 DEF TileOffsetsIn
  <1> HIDE DEF at
  <1> DEFINE Bad == {i \in 1..n : at[i] # es[i].offset}
  <1>6. Bad = {}
    <2> SUFFICES ASSUME Bad # {} PROVE FALSE
      OBVIOUS
    <2>1. PICK i \in Bad : \A k \in Bad : i <= k
      <3> Bad \in SUBSET Nat
        BY <1>1
      <3> HIDE DEF Bad
      <3> QED
        BY LeastNumber
    <2>2. i \in 1..n /\ at[i] = Next1(i, at)
      <3> HIDE DEF Next1
      <3> QED
        BY <1>5
    <2>3. w[1 + 3 * n + i] = 0 => at[i - 1] = es[i - 1].offset
      BY <1>3, <2>1, <2>2
    <2>4. Next1(i, at) = es[i].offset
      <3> HIDE DEF Next1
      <3> QED
        BY <1>2, <2>2, <2>3
    <2> HIDE DEF Next1
    <2> QED
      BY <2>2, <2>4
  <1>7. \A i \in 1..n : at[i] = es[i].offset
    BY <1>6
  <1> QED
    BY <1>7 DEF at, n, w

(* A directory is read as it was written, whatever its entries, as long as  *)
(* their ids do not descend: the deltas of ids, and the offset 0 that means  *)
(* "follows" (serialize_directory, deserialize_directory, pmtiles.py:125-168). *)
THEOREM DirectoriesTurnBack ==
  ASSUME NEW es \in Seq(TileEntrySet), Ascending(es)
  PROVE  DeserializeDirectory(SerializeDirectory(es)) = es
  <1> DEFINE n == Len(es)
             w == TileNumbers(es)
             b == SerializeDirectory(es)
             ids == TileIdsIn(w, n)
             at == TileOffsetsIn(w, n)
  <1>1. n \in Nat /\ es = [i \in 1..n |-> es[i]] /\ \A i \in 1..n : es[i] \in TileEntrySet
    OBVIOUS
  <1>2. \A i \in 1..n : es[i] = [id |-> es[i].id, offset |-> es[i].offset, length |-> es[i].length,
                                 run |-> es[i].run]
    BY <1>1 DEF TileEntrySet
  <1>3. Numbers[b] = w
    BY DirectoryBytes
  <1>4. w[1] = n /\ \A i \in 1..n : w[1 + n + i] = es[i].run /\ w[1 + 2 * n + i] = es[i].length
    BY DirectoryNumbers
  <1>5. \A i \in 1..n : ids[i] = es[i].id /\ at[i] = es[i].offset
    BY IdsRead, OffsetsRead
  <1> HIDE DEF w, b, n
  <1>6. DeserializeDirectory(b) = [i \in 1..n |-> [id |-> ids[i], offset |-> at[i],
                                    length |-> w[1 + 2 * n + i], run |-> w[1 + n + i]]]
    BY <1>3, <1>4 DEF DeserializeDirectory
  <1> HIDE DEF ids, at
  <1>7. \A i \in 1..n : [id |-> ids[i], offset |-> at[i], length |-> w[1 + 2 * n + i],
                         run |-> w[1 + n + i]] = es[i]
    BY <1>2, <1>4, <1>5
  <1>8. DeserializeDirectory(b) = es
    BY <1>1, <1>6, <1>7
  <1> QED
    BY <1>8 DEF b

-----------------------------------------------------------------------------
(* The tiles in the order of their ids.                                     *)

(* s has what ts has in its first k places, its keys ascending.            *)
SortedTo(s, ts, k, key, A) ==
    /\ s \in [1..k -> A]
    /\ {s[i] : i \in 1..k} = {ts[i] : i \in 1..k}
    /\ \A i, j \in 1..k : i < j => key[s[i]] < key[s[j]]

LEMMA SortInsert ==
  ASSUME NEW A, NEW key \in [A -> Nat], NEW ts \in Seq(A), NEW k \in Nat, k + 1 <= Len(ts),
         \A i \in 1..k : key[ts[i]] # key[ts[k + 1]],
         NEW s, SortedTo(s, ts, k, key, A)
  PROVE  \E t : SortedTo(t, ts, k + 1, key, A)
  <1> USE DEF SortedTo
  <1> DEFINE e == ts[k + 1]
  <1>1. e \in A /\ key[e] \in Nat /\ k + 1 \in 1..Len(ts)
    <2>1. k + 1 \in 1..Len(ts)
      OBVIOUS
    <2>2. e \in A
      BY <2>1
    <2> QED
      BY <2>1, <2>2
  <1> HIDE DEF e
  <1>2. \A i \in 1..k : s[i] \in A /\ key[s[i]] \in Nat /\ key[s[i]] # key[e]
    <2> SUFFICES ASSUME NEW i \in 1..k PROVE s[i] \in A /\ key[s[i]] \in Nat /\ key[s[i]] # key[e]
      OBVIOUS
    <2>1. s[i] \in A
      OBVIOUS
    <2>2. PICK j \in 1..k : s[i] = ts[j]
      OBVIOUS
    <2> QED
      BY <2>1, <2>2 DEF e
  <1>3. PICK m \in 0..k : \A i \in 1..k : IF i <= m THEN key[s[i]] < key[e] ELSE key[e] < key[s[i]]
    <2> DEFINE B == {i \in 1..k : key[e] < key[s[i]]}
    <2>1. CASE B = {}
      <3>1. ASSUME NEW i \in 1..k PROVE ~ (key[e] < key[s[i]])
        <4>1. i \notin B
          BY <2>1
        <4> QED
          BY <4>1
      <3>2. k \in 0..k /\ \A i \in 1..k : i <= k
        OBVIOUS
      <3>3. \A i \in 1..k : IF i <= k THEN key[s[i]] < key[e] ELSE key[e] < key[s[i]]
        <4> HIDE DEF B
        <4> QED
          BY <3>1, <3>2, <1>1, <1>2
      <3> QED
        BY <3>2, <3>3
    <2>2. CASE B # {}
      <3>1. PICK b \in B : \A i \in B : b <= i
        <4> B \in SUBSET Nat
          OBVIOUS
        <4> HIDE DEF B
        <4> QED
          BY <2>2, LeastNumber
      <3>2. b \in 1..k /\ b - 1 \in 0..k
        OBVIOUS
      <3>3. ASSUME NEW i \in 1..k
            PROVE  IF i <= b - 1 THEN key[s[i]] < key[e] ELSE key[e] < key[s[i]]
        <4>1. CASE i <= b - 1
          <5>1. i \notin B
            BY <3>1, <3>2, <4>1
          <5> QED
            BY <5>1, <4>1, <1>1, <1>2
        <4>2. CASE i = b
          BY <3>1, <3>2, <4>2
        <4>3. CASE b < i
          <5>1. key[s[b]] < key[s[i]] /\ key[e] < key[s[b]]
            BY <3>1, <3>2, <4>3
          <5> QED
            BY <5>1, <4>3, <3>2, <1>1, <1>2
        <4> QED
          BY <3>2, <4>1, <4>2, <4>3
      <3> QED
        BY <3>2, <3>3
    <2> QED
      BY <2>1, <2>2
  <1> DEFINE t == [i \in 1 .. k + 1 |-> IF i <= m THEN s[i] ELSE IF i = m + 1 THEN e ELSE s[i - 1]]
  <1>4. t \in [1 .. k + 1 -> A]
    <2>1. \A i \in 1 .. k + 1 : (i <= m => i \in 1..k) /\ (~ (i <= m) /\ i # m + 1 => i - 1 \in 1..k)
      OBVIOUS
    <2> QED
      BY <2>1, <1>1, <1>2
  <1>5. /\ \A i \in 1 .. k + 1 : t[i] = IF i <= m THEN s[i] ELSE IF i = m + 1 THEN e ELSE s[i - 1]
        /\ \A i \in 1..k : \E j \in 1 .. k + 1 : t[j] = s[i]
        /\ \E j \in 1 .. k + 1 : t[j] = e
    <2>1. \A i \in 1 .. k + 1 : t[i] = IF i <= m THEN s[i] ELSE IF i = m + 1 THEN e ELSE s[i - 1]
      OBVIOUS
    <2> HIDE DEF t
    <2>2. ASSUME NEW i \in 1..k PROVE \E j \in 1 .. k + 1 : t[j] = s[i]
      <3>1. CASE i <= m
        <4> i \in 1 .. k + 1
          OBVIOUS
        <4> QED
          BY <2>1, <3>1
      <3>2. CASE ~ (i <= m)
        <4>1. i + 1 \in 1 .. k + 1 /\ ~ (i + 1 <= m) /\ i + 1 # m + 1 /\ (i + 1) - 1 = i
          BY <3>2
        <4>2. t[i + 1] = s[i]
          BY <2>1, <4>1
        <4> QED
          BY <4>1, <4>2
      <3> QED
        BY <3>1, <3>2
    <2>3. m + 1 \in 1 .. k + 1 /\ ~ (m + 1 <= m)
      OBVIOUS
    <2>4. t[m + 1] = e
      BY <2>1, <2>3
    <2> QED
      BY <2>1, <2>2, <2>3, <2>4
  <1> HIDE DEF t
  <1>6. {t[i] : i \in 1 .. k + 1} = {ts[i] : i \in 1 .. k + 1}
    <2>1. \A i \in 1 .. k + 1 : t[i] = e \/ \E j \in 1..k : t[i] = s[j]
      <3> SUFFICES ASSUME NEW i \in 1 .. k + 1 PROVE t[i] = e \/ \E j \in 1..k : t[i] = s[j]
        OBVIOUS
      <3>1. (i <= m => i \in 1..k) /\ (~ (i <= m) /\ i # m + 1 => i - 1 \in 1..k)
        OBVIOUS
      <3> QED
        BY <3>1, <1>5
    <2>2. \A j \in 1..k : \E i \in 1 .. k + 1 : s[j] = ts[i]
      <3> \A i \in 1..k : i \in 1 .. k + 1
        OBVIOUS
      <3> QED
        OBVIOUS
    <2>3. \A i \in 1 .. k + 1 : ts[i] = e \/ \E j \in 1..k : ts[i] = s[j]
      <3> \A i \in 1 .. k + 1 : i = k + 1 \/ i \in 1..k
        OBVIOUS
      <3> QED
        BY DEF e
    <2>4. k + 1 \in 1 .. k + 1 /\ e = ts[k + 1]
      BY DEF e
    <2> DEFINE K == 1 .. k + 1
               J == 1..k
    <2>5. /\ \A i \in K : t[i] = e \/ \E j \in J : t[i] = s[j]
          /\ \A j \in J : \E i \in K : s[j] = ts[i]
          /\ \A i \in K : ts[i] = e \/ \E j \in J : ts[i] = s[j]
          /\ \E i \in K : e = ts[i]
          /\ \A i \in J : \E j \in K : t[j] = s[i]
          /\ \E j \in K : t[j] = e
      BY <2>1, <2>2, <2>3, <2>4, <1>5
    <2> HIDE DEF K, J
    <2>6. \A i \in K : \E j \in K : t[i] = ts[j]
      BY ONLY <2>5
    <2>7. \A i \in K : \E j \in K : ts[i] = t[j]
      BY ONLY <2>5
    <2>8. {t[i] : i \in K} = {ts[i] : i \in K}
      <3>1. ASSUME NEW x \in {t[i] : i \in K} PROVE x \in {ts[i] : i \in K}
        <4>1. PICK i \in K : x = t[i]
          OBVIOUS
        <4>2. PICK j \in K : t[i] = ts[j]
          BY <2>6
        <4> QED
          BY <4>1, <4>2
      <3>2. ASSUME NEW x \in {ts[i] : i \in K} PROVE x \in {t[i] : i \in K}
        <4>1. PICK i \in K : x = ts[i]
          OBVIOUS
        <4>2. PICK j \in K : ts[i] = t[j]
          BY <2>7
        <4> QED
          BY <4>1, <4>2
      <3> QED
        BY <3>1, <3>2
    <2> QED
      BY <2>8 DEF K
  <1>7. ASSUME NEW i \in 1 .. k + 1, NEW j \in 1 .. k + 1, i < j PROVE key[t[i]] < key[t[j]]
    <2>1. CASE j <= m
      <3>1. i \in 1..k /\ j \in 1..k /\ i <= m
        BY <1>7, <2>1
      <3> QED
        BY <3>1, <2>1, <1>5, <1>7
    <2>2. CASE j = m + 1
      <3>1. i \in 1..k /\ i <= m /\ ~ (j <= m)
        BY <1>7, <2>2
      <3>2. t[i] = s[i] /\ t[j] = e
        BY <3>1, <2>2, <1>5
      <3> QED
        BY <3>1, <3>2, <1>3
    <2>3. CASE m + 1 < j /\ i <= m
      <3>1. i \in 1..k /\ j - 1 \in 1..k /\ i < j - 1 /\ ~ (j <= m) /\ j # m + 1
        BY <2>3
      <3>2. t[i] = s[i] /\ t[j] = s[j - 1]
        BY <3>1, <2>3, <1>5
      <3> QED
        BY <3>1, <3>2
    <2>4. CASE m + 1 < j /\ i = m + 1
      <3>1. j - 1 \in 1..k /\ ~ (j - 1 <= m) /\ ~ (j <= m) /\ j # m + 1 /\ ~ (i <= m)
        BY <2>4
      <3>2. t[i] = e /\ t[j] = s[j - 1]
        BY <3>1, <2>4, <1>5
      <3> QED
        BY <3>1, <3>2, <1>3
    <2>5. CASE m + 1 < i
      <3>1. i - 1 \in 1..k /\ j - 1 \in 1..k /\ i - 1 < j - 1 /\ ~ (j <= m) /\ j # m + 1 /\ ~ (i <= m) /\ i # m + 1
        BY <2>5, <1>7
      <3>2. t[i] = s[i - 1] /\ t[j] = s[j - 1]
        BY <3>1, <1>5
      <3> QED
        BY <3>1, <3>2
    <2>6. m \in Nat /\ i \in Nat /\ j \in Nat
      OBVIOUS
    <2> QED
      BY <1>7, <2>1, <2>2, <2>3, <2>4, <2>5, <2>6
  <1> QED
    BY <1>4, <1>6, <1>7

LEMMA SortExists ==
  ASSUME NEW A, NEW key \in [A -> Nat], NEW ts \in Seq(A),
         \A i, j \in 1..Len(ts) : key[ts[i]] = key[ts[j]] => i = j
  PROVE  \E s : SortedTo(s, ts, Len(ts), key, A)
  <1> DEFINE n == Len(ts)
             P(k) == \E s : SortedTo(s, ts, k, key, A)
             Bad == {k \in 0..n : ~ P(k)}
  <1>0. n \in Nat
    OBVIOUS
  <1>1. P(0)
    <2>1. <<>> \in [1..0 -> A]
      OBVIOUS
    <2>2. 1..0 = {}
      OBVIOUS
    <2>3. SortedTo(<<>>, ts, 0, key, A)
      BY <2>1, <2>2 DEF SortedTo
    <2> QED
      BY <2>3
  <1>2. ASSUME NEW k \in 0 .. n - 1, P(k) PROVE P(k + 1)
    <2>1. PICK s : SortedTo(s, ts, k, key, A)
      BY <1>2
    <2>2. k \in Nat /\ k + 1 <= Len(ts)
      OBVIOUS
    <2>3. \A i \in 1..k : key[ts[i]] # key[ts[k + 1]]
      <3> \A i \in 1..k : i \in 1..Len(ts) /\ k + 1 \in 1..Len(ts) /\ i # k + 1
        OBVIOUS
      <3> QED
        OBVIOUS
    <2> QED
      BY <2>1, <2>2, <2>3, SortInsert
  <1>3. Bad = {}
    <2> SUFFICES ASSUME Bad # {} PROVE FALSE
      OBVIOUS
    <2> HIDE DEF P
    <2>1. PICK k \in Bad : \A i \in Bad : k <= i
      <3> Bad \in SUBSET Nat
        BY <1>0
      <3> HIDE DEF Bad
      <3> QED
        BY LeastNumber
    <2>2. k # 0
      BY <1>1
    <2>3. k - 1 \in 0 .. n - 1 /\ k - 1 \in 0..n /\ ~ (k <= k - 1) /\ (k - 1) + 1 = k
      BY <1>0, <2>2
    <2>4. P(k - 1)
      BY <2>1, <2>3
    <2>5. P((k - 1) + 1)
      BY <1>2, <2>3, <2>4
    <2> QED
      BY <2>1, <2>3, <2>5
  <1>4. n \in 0..n
    BY <1>0
  <1>5. P(n)
    <2> HIDE DEF P, n
    <2> QED
      BY <1>3, <1>4
  <1> QED
    BY <1>5

-----------------------------------------------------------------------------
(* Where things begin that follow one another.                             *)

LEMMA OffsetsDef ==
  ASSUME NEW lengths \in Seq(Nat)
  PROVE  /\ TileOffsets(lengths) \in [1 .. Len(lengths) + 1 -> Nat]
         /\ TileOffsets(lengths)[1] = 0
         /\ \A i \in 1..Len(lengths) :
              TileOffsets(lengths)[i + 1] = TileOffsets(lengths)[i] + lengths[i]
  <1> DEFINE n == Len(lengths)
             S == 1 .. n + 1
             val(i, f) == IF i = 1 THEN 0 ELSE f[i - 1] + lengths[i - 1]
             m == [i \in S |-> i]
             step == [sf \in S \X [S -> Nat] |-> val(sf[1], sf[2])]
  <1>0. n \in Nat /\ (\A i \in 1..n : lengths[i] \in Nat)
        /\ \A i \in S : i \in Nat /\ (i # 1 => i - 1 \in S /\ i - 1 \in 1..n /\ ~ (i <= i - 1))
    OBVIOUS
  <1> HIDE DEF S, n
  <1>1. m \in [S -> Nat] /\ Nat # {}
    BY <1>0
  <1>2. \A i \in S : \A f \in [S -> Nat] : step[<<i, f>>] = val(i, f)
    <2> HIDE DEF val
    <2> QED
      OBVIOUS
  <1>3. \A i \in S : \A f : (i # 1 => f[i - 1] \in Nat) => val(i, f) \in Nat
    BY <1>0
  <1>4. step \in [S \X [S -> Nat] -> Nat]
    <2>1. \A i \in S : \A f \in [S -> Nat] : val(i, f) \in Nat
      <3> HIDE DEF val
      <3> QED
        BY <1>0, <1>3
    <2> HIDE DEF val
    <2> QED
      BY <2>1
  <1>5. \A i \in S : \A f, g \in [S -> Nat] :
          (\A r \in S : m[r] < m[i] => f[r] = g[r]) => step[<<i, f>>] = step[<<i, g>>]
    <2> SUFFICES ASSUME NEW i \in S, NEW f \in [S -> Nat], NEW g \in [S -> Nat],
                        \A r \in S : m[r] < m[i] => f[r] = g[r]
                 PROVE  val(i, f) = val(i, g)
      <3> HIDE DEF val, m
      <3> QED
        BY <1>2
    <2>1. i # 1 => f[i - 1] = g[i - 1]
      BY <1>0
    <2> QED
      BY <2>1
  <1>6. PICK f \in [S -> Nat] : \A i \in S : f[i] = step[<<i, f>>]
    <2>1. Recursive(S, m, Nat, step)
      <3> HIDE DEF m, step
      <3> QED
        BY <1>1, <1>4, <1>5 DEF Recursive
    <2> HIDE DEF m, step
    <2> QED
      BY <2>1, RecursionExists
  <1>7. f = [i \in S |-> val(i, f)]
    <2> HIDE DEF val, step
    <2> QED
      BY <1>2, <1>6
  <1> DEFINE off == TileOffsets(lengths)
  <1>8. off = [i \in S |-> val(i, off)]
    <2> HIDE DEF m, step
    <2> QED
      BY <1>7 DEF TileOffsets, S, n
  <1> HIDE DEF off
  <1>9. \A i \in S : off[i] \in Nat
    <2> DEFINE Bad == {i \in S : off[i] \notin Nat}
    <2> SUFFICES ASSUME Bad # {} PROVE FALSE
      OBVIOUS
    <2>1. PICK i \in Bad : \A k \in Bad : i <= k
      <3> Bad \in SUBSET Nat
        BY <1>0
      <3> HIDE DEF Bad
      <3> QED
        BY LeastNumber
    <2>2. i # 1 => off[i - 1] \in Nat
      BY <1>0, <2>1
    <2>3. val(i, off) \in Nat
      <3> HIDE DEF val
      <3> QED
        BY <1>3, <2>2
    <2> HIDE DEF val
    <2> QED
      BY <1>8, <2>1, <2>3
  <1>10. off \in [S -> Nat]
    <2> HIDE DEF val
    <2>1. off = [i \in S |-> off[i]]
      BY <1>8
    <2> QED
      BY <1>9, <2>1
  <1>11. off[1] = 0
    <2>1. 1 \in S
      BY <1>0 DEF S
    <2> QED
      BY <1>8, <2>1
  <1>12. \A i \in 1..n : off[i + 1] = off[i] + lengths[i]
    <2> SUFFICES ASSUME NEW i \in 1..n PROVE off[i + 1] = off[i] + lengths[i]
      OBVIOUS
    <2>1. i + 1 \in S /\ i + 1 # 1 /\ (i + 1) - 1 = i
      BY <1>0 DEF S
    <2> QED
      BY <1>8, <2>1
  <1> QED
    BY <1>10, <1>11, <1>12 DEF off, S, n

(* What w holds from one place on.                                         *)
Block(w, from, part) ==
    /\ from \in Nat /\ Len(part) \in Nat /\ from + Len(part) <= Len(w)
    /\ \A i \in 1..Len(part) : w[from + i] = part[i]

LEMMA BlockAdded ==
  ASSUME NEW A, NEW s \in Seq(A), NEW t \in Seq(A)
  PROVE  Block(s \o t, Len(s), t)
  <1> DEFINE k == Len(s)
             n == Len(t)
             w == s \o t
  <1>1. k \in Nat /\ n \in Nat
    OBVIOUS
  <1>2. Len(w) = k + n /\ \A i \in 1 .. k + n : w[i] = IF i <= k THEN s[i] ELSE t[i - k]
    BY ConcatProperties
  <1> HIDE DEF k, n, w
  <1>3. ASSUME NEW i \in 1..n PROVE w[k + i] = t[i]
    <2>1. k + i \in 1 .. k + n /\ ~ (k + i <= k) /\ (k + i) - k = i
      BY <1>1
    <2> QED
      BY <1>2, <2>1
  <1> QED
    BY <1>1, <1>2, <1>3 DEF Block, k, n, w

LEMMA BlockKept ==
  ASSUME NEW A, NEW s \in Seq(A), NEW t \in Seq(A), NEW from, NEW part, Block(s, from, part)
  PROVE  Block(s \o t, from, part)
  <1> DEFINE k == Len(s)
             n == Len(t)
             w == s \o t
             l == Len(part)
  <1>1. k \in Nat /\ n \in Nat
    OBVIOUS
  <1>2. Len(w) = k + n /\ \A i \in 1 .. k + n : w[i] = IF i <= k THEN s[i] ELSE t[i - k]
    BY ConcatProperties
  <1>3. from \in Nat /\ l \in Nat /\ from + l <= k /\ \A i \in 1..l : s[from + i] = part[i]
    BY DEF Block
  <1> HIDE DEF k, n, w, l
  <1>4. ASSUME NEW i \in 1..l PROVE w[from + i] = part[i]
    <2>1. from + i \in 1 .. k + n /\ from + i <= k
      BY <1>1, <1>3
    <2>2. w[from + i] = s[from + i]
      BY <1>2, <2>1
    <2> QED
      BY <1>3, <2>2
  <1>5. from + l <= k + n
    BY <1>1, <1>3
  <1> QED
    BY <1>2, <1>3, <1>4, <1>5 DEF Block, k, n, w, l

LEMMA BlockBehind ==
  ASSUME NEW A, NEW s \in Seq(A), NEW t \in Seq(A), NEW from, NEW part, Block(t, from, part)
  PROVE  Block(s \o t, Len(s) + from, part)
  <1> DEFINE k == Len(s)
             n == Len(t)
             w == s \o t
             l == Len(part)
  <1>1. k \in Nat /\ n \in Nat
    OBVIOUS
  <1>2. Len(w) = k + n /\ \A i \in 1 .. k + n : w[i] = IF i <= k THEN s[i] ELSE t[i - k]
    BY ConcatProperties
  <1>3. from \in Nat /\ l \in Nat /\ from + l <= n /\ \A i \in 1..l : t[from + i] = part[i]
    BY DEF Block
  <1> HIDE DEF k, n, w, l
  <1>4. ASSUME NEW i \in 1..l PROVE w[(k + from) + i] = part[i]
    <2>1. (k + from) + i \in 1 .. k + n /\ ~ ((k + from) + i <= k) /\ ((k + from) + i) - k = from + i
      BY <1>1, <1>3
    <2>2. w[(k + from) + i] = t[from + i]
      BY <1>2, <2>1
    <2> QED
      BY <1>3, <2>2
  <1>5. k + from \in Nat /\ (k + from) + l <= k + n
    BY <1>1, <1>3
  <1> QED
    BY <1>2, <1>3, <1>4, <1>5 DEF Block, k, n, w, l

(* Each of the sequences begins at its offset in all of them together.      *)
LEMMA FlattenPlaces ==
  ASSUME NEW A, NEW ss \in Seq(Seq(A)), NEW lengths \in Seq(Nat), Len(lengths) = Len(ss),
         \A i \in 1..Len(ss) : lengths[i] = Len(ss[i])
  PROVE  \A k \in 1..Len(ss) : Block(FlattenSeq(ss), TileOffsets(lengths)[k], ss[k])
  <1> DEFINE n == Len(ss)
             off == TileOffsets(lengths)
  <1>1. PICK g : FlattenedBy(g, ss, A)
    BY FlattenParts
  <1>2. /\ n \in Nat /\ \A i \in 0..n : g[i] \in Seq(A)
        /\ g[0] = <<>> /\ g[n] = FlattenSeq(ss)
        /\ \A i \in 1..n : g[i] = g[i - 1] \o ss[i] /\ ss[i] \in Seq(A)
    <2>1. n \in Nat /\ \A i \in 1..n : ss[i] \in Seq(A)
      <3> DEFINE X == Seq(A)
      <3>1. ss \in Seq(X)
        OBVIOUS
      <3> HIDE DEF X
      <3>2. n \in Nat /\ \A i \in 1..n : ss[i] \in X
        BY <3>1
      <3> QED
        BY <3>2 DEF X
    <2> QED
      BY <1>1, <2>1 DEF FlattenedBy
  <1>3. off[1] = 0 /\ (\A i \in 1 .. n + 1 : off[i] \in Nat) /\ \A i \in 1..n : off[i + 1] = off[i] + Len(ss[i])
    BY OffsetsDef
  <1> HIDE DEF off, n
  <1> DEFINE P(i) == Len(g[i]) = off[i + 1] /\ \A k \in 1..i : Block(g[i], off[k], ss[k])
             Bad == {i \in 0..n : ~ P(i)}
  <1>4. P(0)
    <2>1. Len(g[0]) = 0 /\ 0 + 1 = 1 /\ 1..0 = {}
      BY <1>2
    <2> QED
      BY <1>3, <2>1
  <1>5. ASSUME NEW i \in 1..n, P(i - 1) PROVE P(i)
    <2> DEFINE u == g[i - 1]
               v == ss[i]
    <2>1. i - 1 \in 0..n /\ i \in Nat /\ i + 1 \in 1 .. n + 1 /\ i \in 1 .. n + 1 /\ (i - 1) + 1 = i
      BY <1>2
    <2>2. u \in Seq(A) /\ v \in Seq(A) /\ g[i] = u \o v
      BY <1>2, <2>1
    <2>3. Len(u) = off[i] /\ \A k \in 1 .. i - 1 : Block(u, off[k], ss[k])
      BY <1>5, <2>1
    <2>4. Len(g[i]) = off[i + 1]
      <3>1. Len(g[i]) = Len(u) + Len(v)
        <4> HIDE DEF u, v
        <4> QED
          BY <2>2
      <3>2. off[i + 1] = off[i] + Len(v)
        BY <1>3
      <3> QED
        BY <2>3, <3>1, <3>2
    <2>5. ASSUME NEW k \in 1..i PROVE Block(g[i], off[k], ss[k])
      <3>1. CASE k = i
        <4>1. Block(u \o v, Len(u), v)
          <5> HIDE DEF u, v
          <5> QED
            BY <2>2, BlockAdded
        <4> QED
          BY <2>2, <2>3, <3>1, <4>1
      <3>2. CASE k # i
        <4>1. k \in 1 .. i - 1
          BY <2>1, <3>2
        <4>2. Block(u, off[k], ss[k])
          BY <2>3, <4>1
        <4>3. Block(u \o v, off[k], ss[k])
          <5> HIDE DEF u, v
          <5> QED
            BY <2>2, <4>2, BlockKept
        <4> QED
          BY <2>2, <4>3
      <3> QED
        BY <3>1, <3>2
    <2> QED
      BY <2>4, <2>5
  <1>6. Bad = {}
    <2> SUFFICES ASSUME Bad # {} PROVE FALSE
      OBVIOUS
    <2> HIDE DEF P
    <2>1. PICK i \in Bad : \A k \in Bad : i <= k
      <3> Bad \in SUBSET Nat
        BY <1>2
      <3> HIDE DEF Bad
      <3> QED
        BY LeastNumber
    <2>2. i # 0
      BY <1>4
    <2>3. i \in 1..n /\ i - 1 \in 0..n /\ ~ (i <= i - 1)
      BY <1>2, <2>2
    <2>4. P(i - 1)
      BY <2>1, <2>3
    <2> QED
      BY <1>5, <2>1, <2>3, <2>4
  <1>7. P(n)
    <2>1. n \in 0..n
      BY <1>2
    <2> HIDE DEF P
    <2> QED
      BY <1>6, <2>1
  <1>8. \A k \in 1..n : Block(FlattenSeq(ss), off[k], ss[k])
    BY <1>2, <1>7
  <1> QED
    BY <1>8 DEF off, n

-----------------------------------------------------------------------------
(* The tiles of an archive, and their entries.                              *)

TileInput == [at : TilePlaces, data : TilePayloads]

LEMMA PlacesAddressed ==
  /\ \A a \in TileLookups : a \in TileAddresses
  /\ \A t \in TileInput : t.at \in TileAddresses /\ TileId(t.at) \in Nat /\ TileSize[t.data] \in Nat
  <1>1. \A a \in TileLookups : a \in TileAddresses
    BY TileAssumption DEF TileAddresses
  <1>2. \A t \in TileInput : t.at \in TileLookups /\ t.data \in DOMAIN TileSize
    BY TileAssumption DEF TileInput, TilePayloads
  <1>3. \A t \in TileInput : t.at \in TileAddresses /\ TileSize[t.data] \in Nat
    <2> HIDE DEF TileAddresses
    <2> QED
      BY <1>1, <1>2, TileAssumption
  <1> QED
    BY <1>1, <1>3, IdsTurnBack

IdsRise(norm) == \A i, j \in 1..Len(norm) : i < j => TileId(norm[i].at) < TileId(norm[j].at)

LEMMA TilesSort ==
  ASSUME tiles \in Seq(TileInput), TileDistinct
  PROVE  /\ TileSorted \in Seq(TileInput)
         /\ \A i \in 1..Len(TileSorted) : \E j \in 1..Len(tiles) : TileSorted[i] = tiles[j]
         /\ \A j \in 1..Len(tiles) : \E i \in 1..Len(TileSorted) : TileSorted[i] = tiles[j]
         /\ IdsRise(TileSorted)
  <1> DEFINE n == Len(tiles)
             key == [t \in TileInput |-> TileId(t.at)]
             S == [DOMAIN tiles -> ToSet(tiles)]
             Sorts(s) == /\ ToSet(s) = ToSet(tiles)
                         /\ \A i, j \in DOMAIN s : i < j => TileId(s[i].at) < TileId(s[j].at)
  <1>1. n \in Nat /\ DOMAIN tiles = 1..n /\ \A i \in 1..n : tiles[i] \in TileInput
    OBVIOUS
  <1>2. key \in [TileInput -> Nat]
    BY PlacesAddressed
  <1>3. \A t \in TileInput : key[t] = TileId(t.at)
    OBVIOUS
  <1> HIDE DEF key
  <1>4. \A i, j \in 1..n : key[tiles[i]] = key[tiles[j]] => i = j
    <2> SUFFICES ASSUME NEW i \in 1..n, NEW j \in 1..n, key[tiles[i]] = key[tiles[j]] PROVE i = j
      OBVIOUS
    <2>1. TileId(tiles[i].at) = TileId(tiles[j].at)
      BY <1>1, <1>3
    <2>2. tiles[i].at \in TileAddresses /\ tiles[j].at \in TileAddresses
      BY <1>1, PlacesAddressed
    <2>3. tiles[i].at = tiles[j].at
      BY <2>1, <2>2, IdsDiffer
    <2> QED
      BY <1>1, <2>3 DEF TileDistinct
  <1>5. PICK s : SortedTo(s, tiles, n, key, TileInput)
    BY <1>2, <1>4, SortExists
  <1>6. s \in S /\ Sorts(s)
    <2>1. s \in [1..n -> TileInput] /\ {s[i] : i \in 1..n} = {tiles[i] : i \in 1..n}
          /\ \A i, j \in 1..n : i < j => key[s[i]] < key[s[j]]
      BY <1>5 DEF SortedTo
    <2> HIDE DEF n
    <2>2. DOMAIN s = 1..n /\ ToSet(s) = {s[i] : i \in 1..n} /\ ToSet(tiles) = {tiles[i] : i \in 1..n}
      BY <1>1, <2>1 DEF ToSet
    <2>3. \A i \in 1..n : s[i] \in TileInput /\ s[i] \in ToSet(tiles)
      BY <2>1, <2>2
    <2>4. s \in S
      BY <1>1, <2>1, <2>2, <2>3
    <2>5. \A i, j \in 1..n : i < j => TileId(s[i].at) < TileId(s[j].at)
      BY <1>3, <2>1, <2>3
    <2> QED
      BY <2>1, <2>2, <2>4, <2>5
  <1> DEFINE r == TileSorted
  <1>7. r \in S /\ Sorts(r)
    BY <1>6 DEF TileSorted
  <1> HIDE DEF r
  <1>8. ToSet(tiles) = {tiles[i] : i \in 1..n} /\ ToSet(tiles) \subseteq TileInput
    <2> HIDE DEF n
    <2> QED
      BY <1>1 DEF ToSet
  <1>9. DOMAIN r = 1..n /\ r \in [1..n -> TileInput] /\ ToSet(r) = {r[i] : i \in 1..n}
    <2> HIDE DEF n
    <2>1. r \in [1..n -> ToSet(tiles)]
      BY <1>1, <1>7
    <2> QED
      BY <1>8, <2>1 DEF ToSet
  <1>10. r \in Seq(TileInput) /\ Len(r) = n
    <2> HIDE DEF n
    <2> QED
      BY <1>1, <1>9
  <1>11. {r[i] : i \in 1..n} = {tiles[i] : i \in 1..n}
    BY <1>7, <1>8, <1>9
  <1>12. IdsRise(r)
    <2> HIDE DEF n
    <2> QED
      BY <1>7, <1>9, <1>10 DEF IdsRise
  <1>13. /\ \A i \in 1..n : \E j \in 1..n : r[i] = tiles[j]
         /\ \A j \in 1..n : \E i \in 1..n : r[i] = tiles[j]
    <2> HIDE DEF n
    <2>1. \A i \in 1..n : r[i] \in {tiles[j] : j \in 1..n}
      BY <1>11
    <2>2. \A j \in 1..n : tiles[j] \in {r[i] : i \in 1..n}
      BY <1>11
    <2> QED
      BY <2>1, <2>2
  <1> QED
    BY <1>10, <1>12, <1>13 DEF r

LEMMA EntriesAre ==
  ASSUME NEW norm \in Seq(TileInput), IdsRise(norm)
  PROVE  LET es == TileEntries(norm)
             sizes == [i \in DOMAIN norm |-> TileSize[norm[i].data]]
         IN  /\ es \in Seq(TileEntrySet) /\ Len(es) = Len(norm) /\ Ascending(es)
             /\ sizes \in Seq(Nat) /\ Len(sizes) = Len(norm)
             /\ \A i \in 1..Len(norm) :
                  /\ es[i].id = TileId(norm[i].at) /\ es[i].offset = TileOffsets(sizes)[i]
                  /\ es[i].length = TileSize[norm[i].data] /\ es[i].run = 1
                  /\ sizes[i] = TileSize[norm[i].data]
  <1> DEFINE n == Len(norm)
             sizes == [i \in DOMAIN norm |-> TileSize[norm[i].data]]
             off == TileOffsets(sizes)
             es == TileEntries(norm)
  <1>1. n \in Nat /\ DOMAIN norm = 1..n /\ \A i \in 1..n : norm[i] \in TileInput
    OBVIOUS
  <1>2. \A i \in 1..n : TileId(norm[i].at) \in Nat /\ TileSize[norm[i].data] \in Nat
    BY <1>1, PlacesAddressed
  <1>3. sizes \in Seq(Nat) /\ Len(sizes) = n /\ \A i \in 1..n : sizes[i] = TileSize[norm[i].data]
    <2> HIDE DEF n
    <2>1. sizes \in [1..n -> Nat]
      BY <1>1, <1>2
    <2>2. \A i \in 1..n : sizes[i] = TileSize[norm[i].data]
      BY <1>1
    <2> HIDE DEF sizes
    <2> QED
      BY <1>1, <2>1, <2>2
  <1>4. es = [i \in 1..n |-> [id |-> TileId(norm[i].at), offset |-> off[i],
                              length |-> TileSize[norm[i].data], run |-> 1]]
    BY <1>1 DEF TileEntries
  <1>5. \A i \in 1..n : off[i] \in Nat
    <2>1. \A i \in 1 .. Len(sizes) + 1 : off[i] \in Nat
      <3> HIDE DEF sizes
      <3> QED
        BY <1>3, OffsetsDef
    <2>2. \A i \in 1..n : i \in 1 .. n + 1
      BY <1>1
    <2> HIDE DEF sizes, off, n
    <2> QED
      BY <1>3, <2>1, <2>2
  <1> HIDE DEF es, sizes, off, n
  <1>6. \A i \in 1..n : /\ es[i] \in TileEntrySet
                        /\ es[i].id = TileId(norm[i].at) /\ es[i].offset = off[i]
                        /\ es[i].length = TileSize[norm[i].data] /\ es[i].run = 1
    BY <1>2, <1>4, <1>5 DEF TileEntrySet
  <1>7. es \in Seq(TileEntrySet) /\ Len(es) = n
    BY <1>1, <1>4, <1>6
  <1>8. Ascending(es)
    <2> SUFFICES ASSUME NEW i \in 2..n PROVE es[i - 1].id <= es[i].id
      BY <1>7 DEF Ascending
    <2>1. i - 1 \in 1..n /\ i \in 1..n /\ i - 1 < i
      BY <1>1
    <2>2. TileId(norm[i - 1].at) < TileId(norm[i].at)
      BY <2>1 DEF IdsRise, n
    <2> QED
      BY <1>2, <1>6, <2>1, <2>2
  <1> QED
    BY <1>3, <1>6, <1>7, <1>8 DEF es, sizes, off, n

-----------------------------------------------------------------------------
(* The leaves, and the pointers to them.                                    *)

\* cs is not empty, nor a chunk of it; ids do not descend in a chunk, nor from
\* chunk to chunk; the last entry is e.
Chunked(cs, e) ==
    /\ cs \in Seq(Seq(TileEntrySet)) /\ Len(cs) \in Nat \ {0}
    /\ \A i \in 1..Len(cs) : cs[i] \in Seq(TileEntrySet) /\ Len(cs[i]) \in Nat \ {0} /\ Ascending(cs[i])
    /\ \A i \in 2..Len(cs) : cs[i - 1][1].id <= cs[i][1].id
    /\ cs[Len(cs)][1].id <= e.id /\ cs[Len(cs)][Len(cs[Len(cs)])] = e

LEMMA ChunkAlone ==
  ASSUME NEW e \in TileEntrySet
  PROVE  /\ <<e>> \in Seq(TileEntrySet) /\ Len(<<e>>) = 1 /\ Ascending(<<e>>)
         /\ <<e>>[1] = e /\ e.id \in Nat /\ e.id <= e.id
  <1>1. 2..1 = {}
    OBVIOUS
  <1> QED
    BY <1>1 DEF Ascending, TileEntrySet

LEMMA ChunkGrows ==
  ASSUME NEW c \in Seq(TileEntrySet), Len(c) \in Nat \ {0}, Ascending(c),
         NEW e \in TileEntrySet, c[Len(c)].id <= e.id
  PROVE  LET d == Append(c, e)
         IN  /\ d \in Seq(TileEntrySet) /\ Len(d) = Len(c) + 1 /\ Ascending(d)
             /\ d[1] = c[1] /\ d[Len(d)] = e
  <1> DEFINE n == Len(c)
             d == Append(c, e)
  <1>1. d \in Seq(TileEntrySet) /\ Len(d) = n + 1 /\ d[n + 1] = e /\ \A i \in 1..n : d[i] = c[i]
    OBVIOUS
  <1> HIDE DEF d
  <1>2. 1 \in 1..n
    OBVIOUS
  <1>3. ASSUME NEW i \in 2 .. n + 1 PROVE d[i - 1].id <= d[i].id
    <2>1. CASE i = n + 1
      <3>1. i - 1 = n /\ n \in 1..n
        BY <2>1
      <3> QED
        BY <1>1, <2>1, <3>1
    <2>2. CASE i # n + 1
      <3>1. i \in 2..n /\ i - 1 \in 1..n /\ i \in 1..n
        BY <2>2
      <3> QED
        BY <1>1, <3>1 DEF Ascending
    <2> QED
      BY <2>1, <2>2
  <1> QED
    BY <1>1, <1>2, <1>3 DEF d, Ascending

LEMMA ChunkFirst ==
  ASSUME NEW e \in TileEntrySet
  PROVE  Chunked(TileChunkAdd(<<>>, e), e)
  <1> DEFINE c == <<e>>
             X == Seq(TileEntrySet)
             cs == <<c>>
  <1>1. c \in X /\ Len(c) = 1 /\ Ascending(c) /\ c[1] = e /\ e.id <= e.id
    BY ChunkAlone
  <1>2. TileChunkAdd(<<>>, e) = cs
    BY DEF TileChunkAdd
  <1> HIDE DEF c, X
  <1>3. cs \in Seq(X) /\ Len(cs) = 1 /\ cs[1] = c /\ 2..1 = {}
    BY <1>1
  <1> HIDE DEF cs
  <1>4. \A i \in 1..Len(cs) : i = 1
    BY <1>3
  <1>5. \A i \in 1..Len(cs) : cs[i] \in X /\ Len(cs[i]) \in Nat \ {0} /\ Ascending(cs[i])
    BY <1>1, <1>3, <1>4
  <1>6. Len(cs) \in Nat \ {0} /\ \A i \in 2..Len(cs) : cs[i - 1][1].id <= cs[i][1].id
    BY <1>3
  <1>7. cs[Len(cs)][1].id <= e.id /\ cs[Len(cs)][Len(cs[Len(cs)])] = e
    BY <1>1, <1>3
  <1> QED
    BY <1>2, <1>3, <1>5, <1>6, <1>7 DEF Chunked, X

LEMMA ChunkAdded ==
  ASSUME NEW cs, NEW d \in TileEntrySet, NEW e \in TileEntrySet, Chunked(cs, d), d.id <= e.id
  PROVE  Chunked(TileChunkAdd(cs, e), e)
  <1> DEFINE X == Seq(TileEntrySet)
             n == Len(cs)
             c == cs[n]
             ds == TileChunkAdd(cs, e)
  <1>1. /\ cs \in Seq(X) /\ n \in Nat \ {0}
        /\ \A i \in 1..n : cs[i] \in X /\ Len(cs[i]) \in Nat \ {0} /\ Ascending(cs[i])
        /\ \A i \in 2..n : cs[i - 1][1].id <= cs[i][1].id
        /\ c[1].id <= d.id /\ c[Len(c)] = d
    BY DEF Chunked
  <1>2. n \in 1..n /\ c \in X /\ Len(c) \in Nat \ {0} /\ Ascending(c)
    <2>1. n \in 1..n
      BY <1>1
    <2> HIDE DEF X, n
    <2> QED
      BY <1>1, <2>1
  <1>3. d.id \in Nat /\ e.id \in Nat /\ c[1].id \in Nat
    <2>1. 1 \in 1..Len(c)
      BY <1>2
    <2>2. c[1] \in TileEntrySet
      <3> HIDE DEF c
      <3> QED
        BY <1>2, <2>1
    <2> HIDE DEF c
    <2> QED
      BY <2>2 DEF TileEntrySet
  <1>4. CASE ds = Append(cs, <<e>>)
    <2> DEFINE a == <<e>>
    <2>1. a \in X /\ Len(a) = 1 /\ Ascending(a) /\ a[1] = e /\ e.id <= e.id
      BY ChunkAlone
    <2>2. ds = Append(cs, a)
      BY <1>4
    <2> HIDE DEF X, a, ds
    <2>3. ds \in Seq(X) /\ Len(ds) = n + 1 /\ ds[n + 1] = a /\ \A i \in 1..n : ds[i] = cs[i]
      BY <1>1, <2>1, <2>2
    <2> HIDE DEF n
    <2>4. ASSUME NEW i \in 1 .. n + 1 PROVE ds[i] \in X /\ Len(ds[i]) \in Nat \ {0} /\ Ascending(ds[i])
      <3>1. CASE i = n + 1
        <4>1. ds[i] = a
          BY <2>3, <3>1
        <4>2. a \in X /\ Len(a) \in Nat \ {0} /\ Ascending(a)
          BY <2>1
        <4> QED
          BY ONLY <4>1, <4>2, Zenon
      <3>2. CASE i # n + 1
        <4>1. i \in 1..n
          BY <1>1, <3>2
        <4>2. ds[i] = cs[i]
          BY <2>3, <4>1
        <4> QED
          BY <1>1, <4>1, <4>2
      <3> QED
        BY <3>1, <3>2
    <2>5. ASSUME NEW i \in 2 .. n + 1 PROVE ds[i - 1][1].id <= ds[i][1].id
      <3>1. CASE i = n + 1
        <4>1. i - 1 = n
          BY <1>1, <3>1
        <4>2. ds[i - 1] = c /\ ds[i] = a
          BY <1>2, <2>3, <3>1, <4>1
        <4> HIDE DEF c
        <4> QED
          BY <1>1, <1>3, <2>1, <4>2
      <3>2. CASE i # n + 1
        <4>1. i \in 2..n /\ i - 1 \in 1..n /\ i \in 1..n
          BY <1>1, <3>2
        <4> QED
          BY <1>1, <2>3, <4>1
      <3> QED
        BY <3>1, <3>2
    <2>6. n + 1 \in Nat \ {0}
      BY <1>1
    <2>7. ds[n + 1][1].id <= e.id /\ ds[n + 1][Len(ds[n + 1])] = e
      BY <2>1, <2>3
    <2>8. Len(ds) \in Nat \ {0} /\ ds[Len(ds)][1].id <= e.id /\ ds[Len(ds)][Len(ds[Len(ds)])] = e
      BY <2>3, <2>6, <2>7
    <2>9. /\ \A i \in 1..Len(ds) : ds[i] \in X /\ Len(ds[i]) \in Nat \ {0} /\ Ascending(ds[i])
          /\ \A i \in 2..Len(ds) : ds[i - 1][1].id <= ds[i][1].id
      BY <2>3, <2>4, <2>5
    <2>10. Chunked(ds, e)
      BY <2>3, <2>8, <2>9 DEF Chunked, X
    <2> QED
      BY <2>10 DEF ds
  <1>5. CASE ds = [cs EXCEPT ![n] = Append(c, e)]
    <2> DEFINE a == Append(c, e)
    <2>1. a \in X /\ Len(a) = Len(c) + 1 /\ Ascending(a) /\ a[1] = c[1] /\ a[Len(a)] = e
      <3>1. c[Len(c)].id <= e.id
        BY <1>1
      <3> HIDE DEF c
      <3> QED
        BY <1>2, <3>1, ChunkGrows
    <2>2. ds = [cs EXCEPT ![n] = a]
      BY <1>5
    <2>3. Len(a) \in Nat \ {0}
      BY <1>2, <2>1
    <2> HIDE DEF X, a, ds
    <2>4. ds \in Seq(X) /\ Len(ds) = n /\ ds[n] = a /\ \A i \in 1..n : i # n => ds[i] = cs[i]
      BY <1>1, <1>2, <2>1, <2>2
    <2> HIDE DEF n
    <2>5. \A i \in 1..n : ds[i] \in X /\ Len(ds[i]) \in Nat \ {0} /\ Ascending(ds[i])
      BY <1>1, <2>1, <2>3, <2>4
    <2>6. \A i \in 1..n : ds[i][1] = cs[i][1]
      BY <2>1, <2>4
    <2>7. \A i \in 2..n : ds[i - 1][1].id <= ds[i][1].id
      <3> \A i \in 2..n : i - 1 \in 1..n /\ i \in 1..n
        BY <1>1
      <3> QED
        BY <1>1, <2>6
    <2>8. ds[n][1].id <= e.id /\ ds[n][Len(ds[n])] = e
      <3>1. ds[n][1] = c[1]
        BY <1>2, <2>6
      <3> HIDE DEF c
      <3> QED
        BY <1>1, <1>3, <2>1, <2>4, <3>1
    <2>9. Chunked(ds, e)
      BY <1>1, <2>4, <2>5, <2>7, <2>8 DEF Chunked, X
    <2> QED
      BY <2>9 DEF ds
  <1>6. ds = Append(cs, <<e>>) \/ ds = [cs EXCEPT ![n] = Append(c, e)]
    BY DEF TileChunkAdd
  <1> QED
    BY <1>4, <1>5, <1>6

LEMMA ChunkAddTyped ==
  ASSUME NEW cs \in Seq(Seq(TileEntrySet)), NEW e \in TileEntrySet
  PROVE  TileChunkAdd(cs, e) \in Seq(Seq(TileEntrySet))
  <1> DEFINE X == Seq(TileEntrySet)
             a == <<e>>
             n == Len(cs)
             d == Append(cs[n], e)
  <1>1. a \in X /\ cs \in Seq(X) /\ n \in Nat
    OBVIOUS
  <1>2. n # 0 => n \in 1..n /\ d \in X
    <2> SUFFICES ASSUME n # 0 PROVE n \in 1..n /\ d \in X
      OBVIOUS
    <2>1. n \in 1..n
      BY <1>1
    <2>2. cs[n] \in X
      <3> HIDE DEF X
      <3> QED
        BY <1>1, <2>1
    <2> QED
      BY <2>1, <2>2
  <1>3. Append(cs, a) \in Seq(X)
    <2> HIDE DEF X, a
    <2> QED
      BY <1>1
  <1>4. cs # <<>> => [cs EXCEPT ![n] = d] \in Seq(X)
    <2> HIDE DEF X, d
    <2> SUFFICES ASSUME cs # <<>> PROVE [cs EXCEPT ![n] = d] \in Seq(X)
      OBVIOUS
    <2>1. n \in 1..n /\ d \in X
      BY <1>1, <1>2
    <2> QED
      BY <1>1, <2>1
  <1>5. TileChunkAdd(cs, e) = Append(cs, a)
        \/ (cs # <<>> /\ TileChunkAdd(cs, e) = [cs EXCEPT ![n] = d])
    BY DEF TileChunkAdd
  <1> HIDE DEF X, a, d
  <1>6. TileChunkAdd(cs, e) \in Seq(X)
    BY <1>3, <1>4, <1>5
  <1> QED
    BY <1>6 DEF X

\* The chunks after each of the entries.
ChunksTaken(taken, es) ==
    /\ \A m \in 0..Len(es) : taken[m] \in Seq(Seq(TileEntrySet))
    /\ taken[0] = <<>> /\ taken[Len(es)] = TileChunks(es)
    /\ \A m \in 1..Len(es) : taken[m] = TileChunkAdd(taken[m - 1], es[m])

LEMMA ChunksDef ==
  ASSUME NEW es \in Seq(TileEntrySet)
  PROVE  \E taken : ChunksTaken(taken, es)
  <1> DEFINE n == Len(es)
             X == Seq(Seq(TileEntrySet))
             S == 0..n
             val(i, f) == IF i = 0 THEN <<>> ELSE TileChunkAdd(f[i - 1], es[i])
             m == [i \in S |-> i]
             step == [sf \in S \X [S -> X] |-> val(sf[1], sf[2])]
  <1>0. n \in Nat /\ (\A i \in 1..n : es[i] \in TileEntrySet)
        /\ \A i \in S : i \in Nat /\ (i # 0 => i - 1 \in S /\ i \in 1..n /\ ~ (i <= i - 1))
    OBVIOUS
  <1>00. <<>> \in X
    OBVIOUS
  <1>01. \A cs \in X : \A e \in TileEntrySet : TileChunkAdd(cs, e) \in X
    BY ChunkAddTyped
  <1> HIDE DEF S, n, X
  <1>1. m \in [S -> Nat] /\ X # {}
    BY <1>0, <1>00
  <1>2. \A i \in S : \A f \in [S -> X] : step[<<i, f>>] = val(i, f)
    <2> HIDE DEF val
    <2> QED
      OBVIOUS
  <1>3. \A i \in S : \A f : (i # 0 => f[i - 1] \in X) => val(i, f) \in X
    BY <1>0, <1>00, <1>01
  <1>4. step \in [S \X [S -> X] -> X]
    <2>1. \A i \in S : \A f \in [S -> X] : val(i, f) \in X
      <3> HIDE DEF val
      <3> QED
        BY <1>0, <1>3
    <2> HIDE DEF val
    <2> QED
      BY <2>1
  <1>5. \A i \in S : \A f, g \in [S -> X] :
          (\A r \in S : m[r] < m[i] => f[r] = g[r]) => step[<<i, f>>] = step[<<i, g>>]
    <2> SUFFICES ASSUME NEW i \in S, NEW f \in [S -> X], NEW g \in [S -> X],
                        \A r \in S : m[r] < m[i] => f[r] = g[r]
                 PROVE  val(i, f) = val(i, g)
      <3> HIDE DEF val, m
      <3> QED
        BY <1>2
    <2>1. i # 0 => f[i - 1] = g[i - 1]
      BY <1>0
    <2> QED
      BY <2>1
  <1>6. PICK f \in [S -> X] : \A i \in S : f[i] = step[<<i, f>>]
    <2>1. Recursive(S, m, X, step)
      <3> HIDE DEF m, step
      <3> QED
        BY <1>1, <1>4, <1>5 DEF Recursive
    <2> HIDE DEF m, step
    <2> QED
      BY <2>1, RecursionExists
  <1>7. f = [i \in S |-> val(i, f)]
    <2> HIDE DEF val, step
    <2> QED
      BY <1>2, <1>6
  <1> DEFINE taken == CHOOSE g : g = [i \in S |-> val(i, g)]
  <1>8. taken = [i \in S |-> val(i, taken)] /\ TileChunks(es) = taken[n]
    <2> HIDE DEF m, step
    <2> QED
      BY <1>7 DEF TileChunks, S, n
  <1> HIDE DEF taken
  <1>9. \A i \in S : taken[i] \in X
    <2> DEFINE Bad == {i \in S : taken[i] \notin X}
    <2> SUFFICES ASSUME Bad # {} PROVE FALSE
      OBVIOUS
    <2>1. PICK i \in Bad : \A k \in Bad : i <= k
      <3> Bad \in SUBSET Nat
        BY <1>0
      <3> HIDE DEF Bad
      <3> QED
        BY LeastNumber
    <2>2. i # 0 => taken[i - 1] \in X
      BY <1>0, <2>1
    <2>3. val(i, taken) \in X
      <3> HIDE DEF val
      <3> QED
        BY <1>3, <2>2
    <2> HIDE DEF val
    <2> QED
      BY <1>8, <2>1, <2>3
  <1>10. taken[0] = <<>>
    <2>1. 0 \in S
      BY <1>0 DEF S
    <2> QED
      BY <1>8, <2>1
  <1>11. \A i \in 1..n : taken[i] = TileChunkAdd(taken[i - 1], es[i])
    <2> SUFFICES ASSUME NEW i \in 1..n PROVE taken[i] = TileChunkAdd(taken[i - 1], es[i])
      OBVIOUS
    <2>1. i \in S /\ i # 0
      BY <1>0 DEF S
    <2> QED
      BY <1>8, <2>1
  <1>12. ChunksTaken(taken, es)
    BY <1>8, <1>9, <1>10, <1>11 DEF ChunksTaken, S, n, X
  <1> QED
    BY <1>12

LEMMA ChunksAre ==
  ASSUME NEW es \in Seq(TileEntrySet), Ascending(es), es # <<>>
  PROVE  Chunked(TileChunks(es), es[Len(es)])
  <1> DEFINE n == Len(es)
  <1>1. PICK taken : ChunksTaken(taken, es)
    BY ChunksDef
  <1>2. n \in Nat \ {0} /\ \A i \in 1..n : es[i] \in TileEntrySet
    OBVIOUS
  <1>3. /\ taken[0] = <<>> /\ taken[n] = TileChunks(es)
        /\ \A i \in 1..n : taken[i] = TileChunkAdd(taken[i - 1], es[i])
        /\ \A i \in 2..n : es[i - 1].id <= es[i].id
    BY <1>1 DEF ChunksTaken, Ascending
  <1> HIDE DEF n
  <1> DEFINE Bad == {i \in 1..n : ~ Chunked(taken[i], es[i])}
  <1>4. Bad = {}
    <2> SUFFICES ASSUME Bad # {} PROVE FALSE
      OBVIOUS
    <2>1. PICK i \in Bad : \A k \in Bad : i <= k
      <3> Bad \in SUBSET Nat
        BY <1>2
      <3> HIDE DEF Bad
      <3> QED
        BY LeastNumber
    <2>2. CASE i = 1
      <3>1. i \in 1..n /\ i - 1 = 0 /\ es[i] \in TileEntrySet
        BY <1>2, <2>2
      <3>2. taken[i] = TileChunkAdd(<<>>, es[i])
        BY <1>3, <3>1
      <3> QED
        BY <2>1, <3>1, <3>2, ChunkFirst
    <2>3. CASE i # 1
      <3>1. i \in 1..n /\ i \in 2..n /\ i - 1 \in 1..n /\ ~ (i <= i - 1)
        BY <1>2, <2>3
      <3>2. es[i] \in TileEntrySet /\ es[i - 1] \in TileEntrySet /\ es[i - 1].id <= es[i].id
            /\ taken[i] = TileChunkAdd(taken[i - 1], es[i])
        BY <1>2, <1>3, <3>1
      <3>3. Chunked(taken[i - 1], es[i - 1])
        BY <2>1, <3>1
      <3>4. Chunked(taken[i], es[i])
        BY <3>2, <3>3, ChunkAdded
      <3> QED
        BY <2>1, <3>4
    <2> QED
      BY <2>2, <2>3
  <1>5. n \in 1..n
    BY <1>2
  <1>6. Chunked(taken[n], es[n])
    BY <1>4, <1>5
  <1> QED
    BY <1>3, <1>6 DEF n

LEMMA PointersAre ==
  ASSUME NEW cs, NEW e, Chunked(cs, e), NEW blobs \in Seq(Seq(Nat)), Len(blobs) = Len(cs)
  PROVE  TilePointers(blobs, cs) \in Seq(TileEntrySet) /\ Ascending(TilePointers(blobs, cs))
  <1> DEFINE n == Len(cs)
             X == Seq(TileEntrySet)
             B == Seq(Nat)
             lengths == [i \in DOMAIN blobs |-> Len(blobs[i])]
             off == TileOffsets(lengths)
             ps == TilePointers(blobs, cs)
  <1>1. /\ cs \in Seq(X) /\ n \in Nat
        /\ \A i \in 1..n : cs[i] \in X /\ Len(cs[i]) \in Nat \ {0}
        /\ \A i \in 2..n : cs[i - 1][1].id <= cs[i][1].id
    BY DEF Chunked
  <1>2. DOMAIN cs = 1..n /\ DOMAIN blobs = 1..n /\ \A i \in 1..n : blobs[i] \in B
    <2> blobs \in Seq(B)
      OBVIOUS
    <2> HIDE DEF X, B
    <2> QED
      BY <1>1
  <1>3. \A i \in 1..n : cs[i][1].id \in Nat
    <2> SUFFICES ASSUME NEW i \in 1..n PROVE cs[i][1].id \in Nat
      OBVIOUS
    <2> DEFINE c == cs[i]
    <2>1. c \in X /\ 1 \in 1..Len(c)
      BY <1>1
    <2>2. c[1] \in TileEntrySet
      <3> HIDE DEF c
      <3> QED
        BY <2>1
    <2> HIDE DEF c
    <2>3. c[1].id \in Nat
      BY <2>2 DEF TileEntrySet
    <2> QED
      BY <2>3 DEF c
  <1>4. \A i \in 1..n : Len(blobs[i]) \in Nat
    BY <1>2
  <1> HIDE DEF B, X
  <1>5. lengths \in [1..n -> Nat]
    BY <1>2, <1>4
  <1>6. lengths \in Seq(Nat) /\ Len(lengths) = n /\ \A i \in 1..n : lengths[i] = Len(blobs[i])
    <2> HIDE DEF n
    <2>1. \A i \in 1..n : lengths[i] = Len(blobs[i])
      BY <1>2
    <2> HIDE DEF lengths
    <2> QED
      BY <1>1, <1>5, <2>1
  <1>7. \A i \in 1..n : off[i] \in Nat
    <2>1. \A i \in 1 .. Len(lengths) + 1 : off[i] \in Nat
      <3> HIDE DEF lengths
      <3> QED
        BY <1>6, OffsetsDef
    <2>2. \A i \in 1..n : i \in 1 .. n + 1
      BY <1>1
    <2> HIDE DEF lengths, off, n
    <2> QED
      BY <1>6, <2>1, <2>2
  <1>8. ps = [i \in 1..n |-> [id |-> cs[i][1].id, offset |-> off[i], length |-> Len(blobs[i]), run |-> 0]]
    BY <1>2 DEF TilePointers
  <1> HIDE DEF ps, off, lengths, n
  <1>9. \A i \in 1..n : ps[i] \in TileEntrySet /\ ps[i].id = cs[i][1].id
    BY <1>3, <1>4, <1>7, <1>8 DEF TileEntrySet
  <1>10. ps \in Seq(TileEntrySet) /\ Len(ps) = n
    BY <1>1, <1>8, <1>9
  <1>11. Ascending(ps)
    <2> SUFFICES ASSUME NEW i \in 2..n PROVE ps[i - 1].id <= ps[i].id
      BY <1>10 DEF Ascending
    <2>1. i - 1 \in 1..n /\ i \in 1..n
      BY <1>1
    <2> QED
      BY <1>1, <1>9, <2>1
  <1> QED
    BY <1>10, <1>11 DEF ps

LEMMA BlobsAre ==
  ASSUME NEW cs, NEW e, Chunked(cs, e)
  PROVE  LET blobs == [i \in DOMAIN cs |-> SerializeDirectory(cs[i])]
         IN  blobs \in Seq(Seq(Nat)) /\ Len(blobs) = Len(cs)
  <1> DEFINE n == Len(cs)
             X == Seq(TileEntrySet)
             B == Seq(Nat)
             blobs == [i \in DOMAIN cs |-> SerializeDirectory(cs[i])]
  <1>1. cs \in Seq(X) /\ n \in Nat /\ \A i \in 1..n : cs[i] \in X /\ Ascending(cs[i])
    BY DEF Chunked
  <1>2. DOMAIN cs = 1..n
    <2> HIDE DEF X
    <2> QED
      BY <1>1
  <1>3. \A i \in 1..n : SerializeDirectory(cs[i]) \in B
    BY <1>1, DirectoryBytes
  <1> HIDE DEF n, B
  <1>4. blobs \in [1..n -> B]
    BY <1>2, <1>3
  <1> HIDE DEF blobs
  <1>5. blobs \in Seq(B) /\ Len(blobs) = n
    BY <1>1, <1>4
  <1> QED
    BY <1>5 DEF blobs, n, B

-----------------------------------------------------------------------------
(* The parts of an archive.                                                 *)

HeadSet == [root : Nat, rootLength : Nat, leaf : Nat, data : Nat]

\* What an archive is made of.
Units ==
    UNION {{"header"} \X HeadSet, {"gzip"} \X Seq(Nat) \X Nat, {"data"} \X TilePayloads \X Nat}

\* A stream is never empty, and is turned back into the bytes it is of.
LEMMA StreamIs ==
  ASSUME NEW b \in Seq(Nat)
  PROVE  /\ Compress(b) \in Seq(Units) /\ Len(Compress(b)) \in Nat \ {0}
         /\ Decompress(Compress(b)) = b
  <1> DEFINE n == (Len(b) \div TileRatio) + TileOverhead
             c == Compress(b)
  <1>1. Len(b) \div TileRatio \in Nat /\ TileOverhead \in Nat \ {0}
    <2>1. TileRatio \in Nat \ {0} /\ TileOverhead \in Nat \ {0} /\ Len(b) \in Nat
      BY TileAssumption
    <2> QED
      BY <2>1, QuotientNat
  <1>2. n \in Nat \ {0}
    BY <1>1
  <1>3. c = [i \in 1..n |-> <<"gzip", b, i>>]
    BY DEF Compress
  <1> HIDE DEF c, n
  <1>4. \A i \in 1..n : i \in Nat
    BY <1>2
  <1>5. \A i \in Nat : <<"gzip", b, i>> \in Units
    BY DEF Units
  <1>6. c \in [1..n -> Units]
    <2> HIDE DEF Units
    <2> QED
      BY <1>3, <1>4, <1>5
  <1>7. c \in Seq(Units) /\ Len(c) = n
    BY <1>2, <1>3, <1>6
  <1>8. c # <<>> /\ c[1] = <<"gzip", b, 1>>
    <2>1. 1 \in 1..n
      BY <1>2
    <2>2. c[1] = <<"gzip", b, 1>>
      BY <1>3, <2>1
    <2>3. Len(<<>>) = 0
      OBVIOUS
    <2> QED
      BY <1>2, <1>7, <2>2, <2>3
  <1>9. c[1][1] = "gzip" /\ c[1][2] = b
    BY <1>8
  <1>10. Decompress(c) = b
    BY <1>8, <1>9 DEF Decompress, c
  <1> QED
    BY <1>2, <1>7, <1>10 DEF c

LEMMA PayloadIs ==
  ASSUME NEW d \in TilePayloads
  PROVE  TilePayload(d) \in Seq(Units) /\ Len(TilePayload(d)) = TileSize[d] /\ TileSize[d] \in Nat
  <1> DEFINE n == TileSize[d]
             c == TilePayload(d)
  <1>1. n \in Nat
    BY TileAssumption DEF TilePayloads
  <1>2. c = [i \in 1..n |-> <<"data", d, i>>]
    BY DEF TilePayload
  <1> HIDE DEF c, n
  <1>3. \A i \in 1..n : i \in Nat
    BY <1>1
  <1>4. \A i \in Nat : <<"data", d, i>> \in Units
    BY DEF Units
  <1>5. c \in [1..n -> Units]
    <2> HIDE DEF Units
    <2> QED
      BY <1>2, <1>3, <1>4
  <1>6. c \in Seq(Units) /\ Len(c) = n
    BY <1>1, <1>2, <1>5
  <1> QED
    BY <1>1, <1>6 DEF c, n

\* Every payload is where its entry says.
LEMMA UnitsAre ==
  ASSUME NEW norm \in Seq(TileInput), IdsRise(norm)
  PROVE  /\ TileUnits(norm) \in Seq(Units)
         /\ \A k \in 1..Len(norm) :
              Block(TileUnits(norm), TileEntries(norm)[k].offset, TilePayload(norm[k].data))
  <1> DEFINE n == Len(norm)
             X == Seq(Units)
             ss == [k \in DOMAIN norm |-> TilePayload(norm[k].data)]
             sizes == [i \in DOMAIN norm |-> TileSize[norm[i].data]]
             es == TileEntries(norm)
  <1>0. n \in Nat /\ DOMAIN norm = 1..n /\ \A i \in 1..n : norm[i] \in TileInput
    OBVIOUS
  <1>1. n \in Nat /\ DOMAIN norm = 1..n /\ \A i \in 1..n : norm[i].data \in TilePayloads
    BY <1>0 DEF TileInput
  <1>2. \A i \in 1..n : TilePayload(norm[i].data) \in X /\ Len(TilePayload(norm[i].data)) = TileSize[norm[i].data]
    BY <1>1, PayloadIs
  <1>3. sizes \in Seq(Nat) /\ Len(sizes) = n /\ \A i \in 1..n : es[i].offset = TileOffsets(sizes)[i]
        /\ sizes[i] = TileSize[norm[i].data]
    BY EntriesAre
  <1> HIDE DEF n, X, sizes, es
  <1>4. ss \in [1..n -> X] /\ \A i \in 1..n : ss[i] = TilePayload(norm[i].data)
    BY <1>1, <1>2
  <1>5. TileUnits(norm) = FlattenSeq(ss)
    BY DEF TileUnits
  <1> HIDE DEF ss
  <1>6. ss \in Seq(X) /\ Len(ss) = n
    BY <1>1, <1>4
  <1>7. FlattenSeq(ss) \in X
    BY <1>6, FlattenTyped DEF X
  <1>8. \A i \in 1..Len(ss) : sizes[i] = Len(ss[i])
    BY <1>2, <1>3, <1>4, <1>6
  <1>9. \A k \in 1..Len(ss) : Block(FlattenSeq(ss), TileOffsets(sizes)[k], ss[k])
    <2>1. ss \in Seq(Seq(Units)) /\ Len(sizes) = Len(ss) /\ sizes \in Seq(Nat)
      BY <1>3, <1>6 DEF X
    <2> QED
      BY <1>8, <2>1, FlattenPlaces
  <1>10. \A k \in 1..n : Block(FlattenSeq(ss), es[k].offset, TilePayload(norm[k].data))
    BY <1>3, <1>4, <1>6, <1>9
  <1> QED
    BY <1>5, <1>7, <1>10 DEF X, n, es

-----------------------------------------------------------------------------
(* An archive.                                                              *)

LEMMA LeavesAre ==
  ASSUME NEW es \in Seq(TileEntrySet), Ascending(es)
  PROVE  LET cs == TileChunks(es)
             blobs == [i \in DOMAIN cs |-> SerializeDirectory(cs[i])]
         IN  /\ blobs \in Seq(Seq(Nat))
             /\ TilePointers(blobs, cs) \in Seq(TileEntrySet) /\ Ascending(TilePointers(blobs, cs))
  <1> DEFINE cs == TileChunks(es)
             blobs == [i \in DOMAIN cs |-> SerializeDirectory(cs[i])]
             ps == TilePointers(blobs, cs)
  <1>1. CASE es = <<>>
    <2>1. PICK taken : ChunksTaken(taken, es)
      BY ChunksDef
    <2>2. cs = <<>>
      <3>1. Len(es) = 0
        BY <1>1
      <3> QED
        BY <2>1, <3>1 DEF ChunksTaken
    <2> HIDE DEF cs
    <2>3. blobs = <<>>
      BY <2>2
    <2> HIDE DEF blobs
    <2>4. ps = <<>>
      BY <2>2 DEF TilePointers
    <2>5. <<>> \in Seq(Seq(Nat)) /\ <<>> \in Seq(TileEntrySet) /\ Len(<<>>) = 0 /\ 2..0 = {}
      OBVIOUS
    <2>6. blobs \in Seq(Seq(Nat)) /\ ps \in Seq(TileEntrySet) /\ Ascending(ps)
      <3> HIDE DEF ps
      <3> QED
        BY <2>3, <2>4, <2>5 DEF Ascending
    <2> QED
      BY <2>6 DEF cs, blobs
  <1>2. CASE es # <<>>
    <2>1. Chunked(cs, es[Len(es)])
      BY <1>2, ChunksAre
    <2> HIDE DEF cs
    <2>2. blobs \in Seq(Seq(Nat)) /\ Len(blobs) = Len(cs)
      BY <2>1, BlobsAre
    <2> HIDE DEF blobs
    <2>3. ps \in Seq(TileEntrySet) /\ Ascending(ps)
      BY <2>1, <2>2, PointersAre
    <2> QED
      BY <2>2, <2>3 DEF cs, blobs
  <1> QED
    BY <1>1, <1>2

\* The root and the leaves are streams; the root is never empty.
LEMMA DirectoriesAre ==
  ASSUME NEW es \in Seq(TileEntrySet), Ascending(es)
  PROVE  LET dirs == TileDirectories(es)
         IN  /\ dirs.root \in Seq(Units) /\ dirs.leaf \in Seq(Units)
             /\ Len(SerializeDirectory(es)) <= TileMaxRoot
                  => dirs.root = Compress(SerializeDirectory(es)) /\ dirs.leaf = <<>>
  <1> DEFINE cs == TileChunks(es)
             blobs == [i \in DOMAIN cs |-> SerializeDirectory(cs[i])]
             ps == TilePointers(blobs, cs)
             whole == SerializeDirectory(es)
             dirs == TileDirectories(es)
             B == Seq(Nat)
  <1>1. whole \in B
    BY DirectoryBytes
  <1>2. blobs \in Seq(B) /\ ps \in Seq(TileEntrySet) /\ Ascending(ps)
    BY LeavesAre
  <1>3. dirs = IF Len(whole) <= TileMaxRoot THEN [root |-> Compress(whole), leaf |-> <<>>]
               ELSE [root |-> Compress(SerializeDirectory(ps)), leaf |-> Compress(FlattenSeq(blobs))]
    BY DEF TileDirectories
  <1> HIDE DEF whole, ps, dirs, blobs, cs
  <1>4. SerializeDirectory(ps) \in B
    BY <1>2, DirectoryBytes
  <1>5. FlattenSeq(blobs) \in B
    BY <1>2, FlattenTyped
  <1>6. Compress(whole) \in Seq(Units)
    BY <1>1, StreamIs
  <1>7. Compress(SerializeDirectory(ps)) \in Seq(Units)
    BY <1>4, StreamIs
  <1>8. Compress(FlattenSeq(blobs)) \in Seq(Units)
    BY <1>5, StreamIs
  <1>9. <<>> \in Seq(Units)
    OBVIOUS
  <1> QED
    BY <1>3, <1>6, <1>7, <1>8, <1>9 DEF whole, dirs

LEMMA PartsFollow ==
  ASSUME NEW A, NEW h \in Seq(A), NEW r \in Seq(A), NEW l \in Seq(A), NEW u \in Seq(A)
  PROVE  LET w == h \o r \o l \o u
         IN  /\ w \in Seq(A) /\ Len(w) = Len(h) + Len(r) + Len(l) + Len(u)
             /\ Block(w, 0, h) /\ Block(w, Len(h), r) /\ Block(w, Len(h) + Len(r), l)
             /\ \A from, part : Block(u, from, part) => Block(w, Len(h) + Len(r) + Len(l) + from, part)
  <1> DEFINE v == h \o r
             x == v \o l
             w == x \o u
  <1>1. v \in Seq(A) /\ Len(v) = Len(h) + Len(r)
    BY ConcatProperties
  <1> HIDE DEF v
  <1>2. x \in Seq(A) /\ Len(x) = Len(v) + Len(l)
    BY <1>1, ConcatProperties
  <1> HIDE DEF x
  <1>3. w \in Seq(A) /\ Len(w) = Len(x) + Len(u)
    BY <1>2, ConcatProperties
  <1> HIDE DEF w
  <1>4. Block(h, 0, h)
    BY DEF Block
  <1>5. Block(w, 0, h)
    <2>1. Block(v, 0, h)
      BY <1>4, BlockKept DEF v
    <2>2. Block(x, 0, h)
      BY <1>1, <2>1, BlockKept DEF x
    <2> QED
      BY <1>2, <2>2, BlockKept DEF w
  <1>6. Block(w, Len(h), r)
    <2>1. Block(v, Len(h), r)
      BY BlockAdded DEF v
    <2>2. Block(x, Len(h), r)
      BY <1>1, <2>1, BlockKept DEF x
    <2> QED
      BY <1>2, <2>2, BlockKept DEF w
  <1>7. ASSUME NEW from, NEW part, Block(u, from, part)
        PROVE  Block(w, Len(x) + from, part)
    BY <1>2, <1>7, BlockBehind DEF w
  <1>8. Len(x) = Len(h) + Len(r) + Len(l) /\ Len(w) = Len(h) + Len(r) + Len(l) + Len(u)
    BY <1>1, <1>2, <1>3
  <1>9. w = h \o r \o l \o u
    BY DEF w, x, v
  <1>10. Block(w, Len(h) + Len(r), l)
    <2>1. Block(x, Len(v), l)
      BY <1>1, BlockAdded DEF x
    <2>2. Block(w, Len(v), l)
      BY <1>2, <2>1, BlockKept DEF w
    <2> QED
      BY <1>1, <2>2
  <1> QED
    BY <1>3, <1>5, <1>6, <1>7, <1>8, <1>9, <1>10

\* What is asked for is read when it is there.
LEMMA BlockRead ==
  ASSUME NEW A, archive \in Seq(A), NEW part \in Seq(A), NEW from, Block(archive, from, part)
  PROVE  ReadAt(from, Len(part)) = part
  <1> DEFINE n == Len(part)
             k == Len(archive)
             low == Min({from + n, k})
             first == from + 1
             r == ReadAt(from, n)
  <1>1. n \in Nat /\ k \in Nat /\ from \in Nat /\ from + n <= k /\ \A i \in 1..n : archive[from + i] = part[i]
    BY DEF Block
  <1>2. low = from + n
    <2> DEFINE T == {from + n, k}
    <2>1. from + n \in T /\ \A y \in T : from + n <= y
      BY <1>1
    <2>2. \A x \in T : (\A y \in T : x <= y) => x = from + n
      BY <1>1
    <2> HIDE DEF T, n, k
    <2>3. Min(T) = from + n
      BY <2>1, <2>2 DEF Min
    <2> QED
      BY <2>3 DEF T
  <1>3. r = SubSeq(archive, first, low)
    BY DEF ReadAt
  <1> HIDE DEF r, low
  <1>4. first \in Int /\ low \in Int /\ low - first + 1 = n /\ (IF first <= low THEN n ELSE 0) = n
        /\ \A i \in first..low : i \in 1..k
    BY <1>1, <1>2
  <1>04. \A i \in first..low : archive[i] \in A
    <2> HIDE DEF first
    <2> QED
      BY <1>4
  <1> HIDE DEF first, n, k
  <1>5. /\ SubSeq(archive, first, low) \in Seq(A)
        /\ Len(SubSeq(archive, first, low)) = IF first <= low THEN low - first + 1 ELSE 0
        /\ \A i \in 1 .. low - first + 1 : SubSeq(archive, first, low)[i] = archive[first + i - 1]
    BY <1>4, <1>04, SubSeqProperties
  <1>6. r \in Seq(A) /\ Len(r) = n /\ \A i \in 1..n : r[i] = archive[first + i - 1]
    BY <1>3, <1>4, <1>5
  <1>7. \A i \in 1..n : first + i - 1 = from + i
    BY <1>1 DEF first
  <1>8. \A i \in 1..n : r[i] = part[i]
    BY <1>1, <1>6, <1>7
  <1>9. r = part
    BY <1>6, <1>8, SeqEqual DEF n
  <1> QED
    BY <1>9 DEF r, n

LEMMA ArchiveIs ==
  ASSUME tiles \in Seq(TileInput), TileDistinct, archive = TileFile
  PROVE  LET es == TileEntries(TileSorted)
             dirs == TileDirectories(es)
         IN  /\ archive \in Seq(Units)
             /\ ReadHeader = TileHead(dirs.root, dirs.leaf)
             /\ TileHead(dirs.root, dirs.leaf) \in HeadSet
             /\ TileHead(dirs.root, dirs.leaf).data <= Len(archive)
             /\ dirs.root \in Seq(Units) /\ Block(archive, TileHeader, dirs.root)
             /\ dirs.leaf \in Seq(Units)
             /\ Block(archive, TileHead(dirs.root, dirs.leaf).leaf, dirs.leaf)
             /\ Len(archive) = TileHead(dirs.root, dirs.leaf).data + Len(TileUnits(TileSorted))
             /\ \A from, part : Block(TileUnits(TileSorted), from, part)
                  => Block(archive, TileHead(dirs.root, dirs.leaf).data + from, part)
  <1> DEFINE norm == TileSorted
             es == TileEntries(norm)
             dirs == TileDirectories(es)
             r == dirs.root
             l == dirs.leaf
             head == TileHead(r, l)
             h == [i \in 1..TileHeader |-> <<"header", head>>]
             u == TileUnits(norm)
             A == Units
  <1>1. norm \in Seq(TileInput) /\ IdsRise(norm)
    BY TilesSort
  <1>2. archive = h \o r \o l \o u
    BY DEF TileFile
  <1> HIDE DEF norm
  <1>3. es \in Seq(TileEntrySet) /\ Ascending(es)
    BY <1>1, EntriesAre
  <1>4. u \in Seq(A)
    BY <1>1, UnitsAre
  <1> HIDE DEF es, u, A
  <1>5. r \in Seq(A) /\ l \in Seq(A)
    BY <1>3, DirectoriesAre DEF A
  <1> HIDE DEF dirs
  <1>6. TileHeader \in Nat \ {0} /\ Len(r) \in Nat /\ Len(l) \in Nat /\ Len(u) \in Nat
    BY <1>4, <1>5, TileAssumption
  <1> HIDE DEF r, l
  <1>7. head \in HeadSet /\ head.leaf = TileHeader + Len(r) /\ head.data = TileHeader + Len(r) + Len(l)
    <2>1. TileHeader + Len(r) \in Nat /\ TileHeader + Len(r) + Len(l) \in Nat
      BY <1>6
    <2>2. head = [root |-> TileHeader, rootLength |-> Len(r),
                  leaf |-> TileHeader + Len(r), data |-> TileHeader + Len(r) + Len(l)]
      BY DEF TileHead
    <2> HIDE DEF head
    <2> QED
      BY <1>6, <2>1, <2>2 DEF HeadSet
  <1> HIDE DEF head
  <1>8. <<"header", head>> \in A
    BY <1>7 DEF A, Units
  <1>9. h \in Seq(A) /\ Len(h) = TileHeader /\ h[1] = <<"header", head>>
    <2>1. 1 \in 1..TileHeader
      BY <1>6
    <2>2. h[1] = <<"header", head>> /\ h \in [1..TileHeader -> A]
      BY <1>8, <2>1
    <2>3. DOMAIN h = 1..TileHeader
      OBVIOUS
    <2> HIDE DEF h
    <2> QED
      BY <1>6, <2>2, <2>3
  <1> HIDE DEF h
  <1>10. /\ archive \in Seq(A) /\ Len(archive) = Len(h) + Len(r) + Len(l) + Len(u)
         /\ Block(archive, 0, h) /\ Block(archive, Len(h), r) /\ Block(archive, Len(h) + Len(r), l)
         /\ \A from, part : Block(u, from, part) => Block(archive, Len(h) + Len(r) + Len(l) + from, part)
    <2> DEFINE w == h \o r \o l \o u
    <2>1. /\ w \in Seq(A) /\ Len(w) = Len(h) + Len(r) + Len(l) + Len(u)
          /\ Block(w, 0, h) /\ Block(w, Len(h), r) /\ Block(w, Len(h) + Len(r), l)
          /\ \A from, part : Block(u, from, part) => Block(w, Len(h) + Len(r) + Len(l) + from, part)
      BY <1>4, <1>5, <1>9, PartsFollow
    <2>2. archive = w
      BY <1>2 DEF h
    <2> HIDE DEF w
    <2> QED
      BY <2>1, <2>2
  <1>11. ReadAt(0, TileHeader) = h
    BY <1>9, <1>10, BlockRead
  <1>12. ReadHeader = head
    <2>1. h[1][2] = head
      BY <1>9
    <2> QED
      BY <1>11, <2>1 DEF ReadHeader
  <1>13. head.data <= Len(archive)
    BY <1>6, <1>7, <1>9, <1>10
  <1>14. \A from, part : Block(u, from, part) => Block(archive, head.data + from, part)
    BY <1>7, <1>9, <1>10
  <1>15. Block(archive, TileHeader, r) /\ Block(archive, head.leaf, l)
    BY <1>7, <1>9, <1>10
  <1>16. Len(archive) = head.data + Len(u)
    BY <1>7, <1>9, <1>10
  <1> QED
    BY <1>5, <1>7, <1>10, <1>12, <1>13, <1>14, <1>15, <1>16 DEF norm, es, dirs, r, l, head, u, A

-----------------------------------------------------------------------------
(* Looking a tile up.                                                       *)

LEMMA SearchEnds ==
  ASSUME NEW id, NEW x, NEW y
  PROVE  TileSearch(id, 4, x) = TileSearch(id, 4, y)
  BY DEF TileSearch

LEMMA ResolveStarts ==
  ASSUME NEW id
  PROVE  \E deeper :
           TileResolve(id)
             = TileSearch(id, 0, deeper)[
                 DeserializeDirectory(Decompress(ReadAt(ReadHeader.root, ReadHeader.rootLength)))]
  <1> DEFINE S == 0..4
             F4 == TileSearch(id, 4, TileNone)
             F3 == TileSearch(id, 3, F4)
             F2 == TileSearch(id, 2, F3)
             F1 == TileSearch(id, 1, F2)
             F0 == TileSearch(id, 0, F1)
             F == [d \in S |-> IF d = 0 THEN F0 ELSE IF d = 1 THEN F1 ELSE IF d = 2 THEN F2
                               ELSE IF d = 3 THEN F3 ELSE F4]
             G(g) == [d \in S |-> TileSearch(id, d, g[d + 1])]
             resolve == CHOOSE g : g = G(g)
  <1>0. 0 \in S /\ 1 \in S /\ 2 \in S /\ 3 \in S /\ 4 \in S
        /\ 0 + 1 = 1 /\ 1 + 1 = 2 /\ 2 + 1 = 3 /\ 3 + 1 = 4
        /\ \A d \in S : d = 0 \/ d = 1 \/ d = 2 \/ d = 3 \/ d = 4
    OBVIOUS
  <1>1. F[0] = F0 /\ F[1] = F1 /\ F[2] = F2 /\ F[3] = F3 /\ F[4] = F4 /\ DOMAIN F = S
    <2> HIDE DEF F0, F1, F2, F3, F4, S
    <2> QED
      BY <1>0
  <1>2. TileSearch(id, 4, F[4 + 1]) = F4
    BY SearchEnds
  <1>3. TileSearch(id, 3, F[3 + 1]) = F3
    <2> HIDE DEF F
    <2> QED
      BY <1>0, <1>1
  <1>4. TileSearch(id, 2, F[2 + 1]) = F2
    <2> HIDE DEF F
    <2> QED
      BY <1>0, <1>1
  <1>5. TileSearch(id, 1, F[1 + 1]) = F1
    <2> HIDE DEF F
    <2> QED
      BY <1>0, <1>1
  <1>6. TileSearch(id, 0, F[0 + 1]) = F0
    <2> HIDE DEF F
    <2> QED
      BY <1>0, <1>1
  <1>7. F = [d \in S |-> F[d]]
    <2> HIDE DEF F0, F1, F2, F3, F4, S
    <2> QED
      OBVIOUS
  <1> HIDE DEF F, F0, F1, F2, F3, F4, S
  <1>8. \A d \in S : F[d] = TileSearch(id, d, F[d + 1])
    BY <1>0, <1>1, <1>2, <1>3, <1>4, <1>5, <1>6
  <1>9. F = G(F)
    BY <1>7, <1>8
  <1>10. resolve = G(resolve)
    <2> HIDE DEF G
    <2> QED
      BY <1>9
  <1>11. TileResolve(id)
           = resolve[0][DeserializeDirectory(Decompress(ReadAt(ReadHeader.root, ReadHeader.rootLength)))]
    BY DEF TileResolve, S
  <1> HIDE DEF resolve
  <1>12. resolve[0] = TileSearch(id, 0, resolve[0 + 1])
    BY <1>0, <1>10
  <1> QED
    BY <1>11, <1>12

LEMMA GreatestNumber ==
  ASSUME NEW n \in Nat, NEW T \in SUBSET (1..n), T # {}
  PROVE  Max(T) \in T /\ \A y \in T : y <= Max(T)
  <1> DEFINE D == {n - i : i \in T}
  <1>1. D \in SUBSET Nat /\ D # {}
    <2>1. \A i \in T : n - i \in Nat
      OBVIOUS
    <2>2. PICK i : i \in T
      OBVIOUS
    <2>3. n - i \in D
      BY <2>2
    <2>4. D \in SUBSET Nat
      BY <2>1
    <2> QED
      BY <2>3, <2>4
  <1>2. PICK d \in D : \A e \in D : d <= e
    <2> HIDE DEF D
    <2> QED
      BY <1>1, LeastNumber
  <1>3. PICK x \in T : d = n - x
    OBVIOUS
  <1>4. \A y \in T : x >= y
    <2> SUFFICES ASSUME NEW y \in T PROVE x >= y
      OBVIOUS
    <2>1. n - y \in D
      OBVIOUS
    <2>2. d <= n - y
      BY <1>2, <2>1
    <2> QED
      BY <1>3, <2>2
  <1>5. Max(T) \in T /\ \A y \in T : Max(T) >= y
    <2> HIDE DEF D
    <2> QED
      BY <1>4 DEF Max
  <1>6. \A y \in T : y <= Max(T)
    <2> DEFINE m == Max(T)
    <2>1. m \in T /\ \A y \in T : m >= y
      BY <1>5
    <2> HIDE DEF m
    <2>2. \A y \in T : y <= m
      BY <2>1
    <2> QED
      BY <2>2 DEF m
  <1> QED
    BY <1>5, <1>6

\* In entries whose ids ascend and whose runs are 1, an id finds its own entry.
LEMMA SearchFinds ==
  ASSUME NEW es \in Seq(TileEntrySet),
         \A i \in 1..Len(es) : es[i].run = 1,
         \A i, j \in 1..Len(es) : i < j => es[i].id < es[j].id,
         NEW id \in Nat, NEW deeper
  PROVE  /\ \A i \in 1..Len(es) : es[i].id = id => TileSearch(id, 0, deeper)[es] = es[i]
         /\ (\A i \in 1..Len(es) : es[i].id # id) => TileSearch(id, 0, deeper)[es] = TileNone
  <1> DEFINE n == Len(es)
             below == {i \in DOMAIN es : es[i].id <= id}
             m == Max(below)
             r == TileSearch(id, 0, deeper)[es]
  <1>1. n \in Nat /\ DOMAIN es = 1..n /\ \A i \in 1..n : es[i] \in TileEntrySet
    OBVIOUS
  <1>2. \A i \in 1..n : es[i].id \in Nat /\ es[i].run = 1
    BY <1>1 DEF TileEntrySet
  <1>3. r = IF below = {} THEN TileNone
            ELSE IF es[m].run > 0 THEN (IF TileCovers(es[m], id) THEN es[m] ELSE TileNone)
            ELSE LET raw == Decompress(ReadAt(ReadHeader.leaf + es[m].offset, es[m].length))
                 IN  IF raw = TileUnreadable THEN TileUnreadable ELSE deeper[DeserializeDirectory(raw)]
    BY DEF TileSearch
  <1>4. below \subseteq 1..n /\ \A i \in 1..n : i \in below <=> es[i].id <= id
    BY <1>1
  <1> HIDE DEF below, r, n, m
  <1>5. below # {} => /\ m \in 1..n /\ es[m].id <= id /\ (\A y \in below : y <= m)
                      /\ r = IF TileCovers(es[m], id) THEN es[m] ELSE TileNone
    <2> SUFFICES ASSUME below # {}
                 PROVE  /\ m \in 1..n /\ es[m].id <= id /\ (\A y \in below : y <= m)
                        /\ r = IF TileCovers(es[m], id) THEN es[m] ELSE TileNone
      OBVIOUS
    <2>1. m \in below /\ \A y \in below : y <= m
      BY <1>1, <1>4, GreatestNumber DEF m
    <2>2. m \in 1..n /\ es[m].id <= id /\ es[m].run > 0
      <3>1. m \in 1..n
        BY <1>4, <2>1
      <3>2. es[m].run = 1 /\ 1 > 0
        BY <1>2, <3>1
      <3> QED
        BY <1>4, <2>1, <3>1, <3>2
    <2> QED
      BY <1>3, <2>1, <2>2
  <1>6. \A i \in 1..n : TileCovers(es[i], id) <=> id - es[i].id < 1
    BY <1>2 DEF TileCovers
  <1>7. ASSUME NEW i \in 1..n, es[i].id = id PROVE r = es[i]
    <2>1. i \in below
      BY <1>2, <1>4, <1>7
    <2>2. m \in 1..n /\ es[m].id <= id /\ i <= m
      BY <1>5, <2>1
    <2>3. m = i
      <3>1. ~ (i < m)
        <4> SUFFICES ASSUME i < m PROVE FALSE
          OBVIOUS
        <4>1. es[i].id < es[m].id
          BY <2>2 DEF n
        <4> QED
          BY <1>2, <1>7, <2>2, <4>1
      <3> QED
        BY <1>1, <2>2, <3>1
    <2>4. TileCovers(es[i], id)
      BY <1>2, <1>6, <1>7
    <2> QED
      BY <1>5, <2>1, <2>3, <2>4
  <1>8. ASSUME \A i \in 1..n : es[i].id # id PROVE r = TileNone
    <2>1. CASE below = {}
      BY <1>3, <2>1
    <2>2. CASE below # {}
      <3>1. m \in 1..n /\ es[m].id <= id /\ es[m].id # id /\ es[m].id \in Nat
        BY <1>2, <1>5, <1>8, <2>2
      <3>2. ~ (id - es[m].id < 1)
        BY <3>1
      <3> QED
        BY <1>5, <1>6, <2>2, <3>1, <3>2
    <2> QED
      BY <2>1, <2>2
  <1> QED
    BY <1>7, <1>8 DEF r, n

-----------------------------------------------------------------------------
(* What an archive gives.                                                   *)

\* The root holds all entries: no leaves are written (pmtiles.py:214-223).
TileRootHolds == Len(SerializeDirectory(TileEntries(TileSorted))) <= TileMaxRoot

\* An archive is made of distinct tiles that were all collected before it.
TileInv ==
    /\ tiles \in Seq(TileInput)
    /\ Len(tiles) <= TileMax
    /\ archive = TileNone \/ (TileDistinct /\ archive = TileFile)

LEMMA TileInvTyped == TileInv => TileTypeOK
  <1> SUFFICES ASSUME TileInv PROVE TileTypeOK
    OBVIOUS
  <1>1. tiles \in Seq([at : TilePlaces, data : TilePayloads]) /\ Len(tiles) <= TileMax
    BY DEF TileInv, TileInput
  <1>2. CASE archive = TileNone
    BY <1>1, <1>2 DEF TileTypeOK
  <1>3. CASE TileDistinct /\ archive = TileFile
    <2> DEFINE dirs == TileDirectories(TileEntries(TileSorted))
               head == TileHead(dirs.root, dirs.leaf)
    <2>1. ReadHeader = head /\ head \in HeadSet /\ head.data <= Len(archive)
      BY <1>3, ArchiveIs DEF TileInv
    <2> HIDE DEF head
    <2>2. DOMAIN head = {"root", "rootLength", "leaf", "data"}
      BY <2>1 DEF HeadSet
    <2>3. DOMAIN ReadHeader = {"root", "rootLength", "leaf", "data"} /\ ReadHeader.data <= Len(archive)
      BY <2>1, <2>2
    <2> QED
      BY <1>1, <2>3 DEF TileTypeOK
  <1> QED
    BY <1>2, <1>3 DEF TileInv

\* The entry that an id resolves to when there are no leaves.
LEMMA ResolveFinds ==
  ASSUME tiles \in Seq(TileInput), TileDistinct, archive = TileFile, TileRootHolds,
         NEW id \in Nat
  PROVE  LET es == TileEntries(TileSorted)
         IN  /\ \A i \in 1..Len(es) : es[i].id = id => TileResolve(id) = es[i]
             /\ (\A i \in 1..Len(es) : es[i].id # id) => TileResolve(id) = TileNone
  <1> DEFINE norm == TileSorted
             es == TileEntries(norm)
             b == SerializeDirectory(es)
             dirs == TileDirectories(es)
             r == dirs.root
             head == TileHead(r, dirs.leaf)
             u == ReadAt(ReadHeader.root, ReadHeader.rootLength)
  <1>1. norm \in Seq(TileInput) /\ IdsRise(norm)
    BY TilesSort
  <1>2. /\ archive \in Seq(Units) /\ ReadHeader = head
        /\ r \in Seq(Units) /\ Block(archive, TileHeader, r)
    BY ArchiveIs
  <1>3. Len(b) <= TileMaxRoot
    BY DEF TileRootHolds
  <1> HIDE DEF norm
  <1>4. /\ es \in Seq(TileEntrySet) /\ Ascending(es) /\ Len(es) = Len(norm)
        /\ \A i \in 1..Len(norm) : es[i].id = TileId(norm[i].at) /\ es[i].run = 1
    BY <1>1, EntriesAre
  <1> HIDE DEF es
  <1>5. b \in Seq(Nat)
    BY <1>4, DirectoryBytes
  <1>6. r = Compress(b)
    BY <1>3, <1>4, DirectoriesAre
  <1>7. u = r
    <2>1. ReadHeader.root = TileHeader /\ ReadHeader.rootLength = Len(r)
      <3> HIDE DEF r
      <3> QED
        BY <1>2 DEF TileHead
    <2> HIDE DEF r
    <2>2. ReadAt(TileHeader, Len(r)) = r
      BY <1>2, BlockRead
    <2> QED
      BY <2>1, <2>2
  <1>8. Decompress(u) = b
    <2> HIDE DEF r, u, b
    <2> QED
      BY <1>5, <1>6, <1>7, StreamIs
  <1>9. DeserializeDirectory(Decompress(u)) = es
    <2>1. DeserializeDirectory(b) = es
      BY <1>4, DirectoriesTurnBack
    <2> HIDE DEF u, b
    <2> QED
      BY <1>8, <2>1
  <1>10. PICK deeper : TileResolve(id) = TileSearch(id, 0, deeper)[DeserializeDirectory(Decompress(u))]
    BY ResolveStarts
  <1> HIDE DEF u, b, r, head
  <1>11. TileResolve(id) = TileSearch(id, 0, deeper)[es]
    BY <1>9, <1>10
  <1>12. \A i, j \in 1..Len(es) : i < j => es[i].id < es[j].id
    BY <1>1, <1>4 DEF IdsRise
  <1>13. \A i \in 1..Len(es) : es[i].run = 1
    BY <1>4
  <1>14. /\ \A i \in 1..Len(es) : es[i].id = id => TileSearch(id, 0, deeper)[es] = es[i]
         /\ (\A i \in 1..Len(es) : es[i].id # id) => TileSearch(id, 0, deeper)[es] = TileNone
    BY <1>4, <1>12, <1>13, SearchFinds
  <1> QED
    BY <1>11, <1>14 DEF es, norm

LEMMA TileInvFinds == TileInv => (TileRootHolds => TilesFound)
  <1> SUFFICES ASSUME TileInv, TileRootHolds, archive # TileNone, NEW a \in TileLookups
               PROVE  /\ TileAddress(TileId(a)) = a
                      /\ GetTile(a) =
                           IF \E i \in DOMAIN tiles : tiles[i].at = a
                           THEN TilePayload(tiles[CHOOSE i \in DOMAIN tiles : tiles[i].at = a].data)
                           ELSE TileNone
    BY DEF TilesFound
  <1> DEFINE norm == TileSorted
             es == TileEntries(norm)
             dirs == TileDirectories(es)
             head == TileHead(dirs.root, dirs.leaf)
             u == TileUnits(norm)
             id == TileId(a)
             n == Len(tiles)
             Tiles == {i \in DOMAIN tiles : tiles[i].at = a}
             c == CHOOSE i \in DOMAIN tiles : tiles[i].at = a
  <1>1. a \in TileAddresses /\ id \in Nat /\ TileAddress(id) = a
    BY PlacesAddressed, IdsTurnBack
  <1>2. /\ tiles \in Seq(TileInput) /\ TileDistinct /\ archive = TileFile
        /\ DOMAIN tiles = 1..n /\ n \in Nat /\ \A i \in 1..n : tiles[i] \in TileInput
    <2>1. tiles \in Seq(TileInput) /\ TileDistinct /\ archive = TileFile
      BY DEF TileInv
    <2>2. DOMAIN tiles = 1..n /\ n \in Nat /\ \A i \in 1..n : tiles[i] \in TileInput
      BY <2>1
    <2> QED
      BY <2>1, <2>2
  <1>3. /\ norm \in Seq(TileInput) /\ IdsRise(norm)
        /\ \A i \in 1..Len(norm) : \E j \in 1..n : norm[i] = tiles[j]
        /\ \A j \in 1..n : \E i \in 1..Len(norm) : norm[i] = tiles[j]
    BY <1>2, TilesSort
  <1>4. /\ archive \in Seq(Units) /\ ReadHeader = head
        /\ \A from, part : Block(u, from, part) => Block(archive, head.data + from, part)
    BY <1>2, ArchiveIs
  <1>5. /\ \A i \in 1..Len(es) : es[i].id = id => TileResolve(id) = es[i]
        /\ (\A i \in 1..Len(es) : es[i].id # id) => TileResolve(id) = TileNone
    BY <1>1, <1>2, ResolveFinds
  <1> HIDE DEF norm
  <1>6. /\ es \in Seq(TileEntrySet) /\ Len(es) = Len(norm)
        /\ \A i \in 1..Len(norm) : es[i].id = TileId(norm[i].at) /\ es[i].length = TileSize[norm[i].data]
    BY <1>3, EntriesAre
  <1>7. \A k \in 1..Len(norm) : Block(u, es[k].offset, TilePayload(norm[k].data))
    BY <1>3, UnitsAre
  <1> HIDE DEF es, u, head, id
  <1>8. GetTile(a) = IF TileResolve(id) \in {TileNone, TileUnreadable} THEN TileResolve(id)
                     ELSE ReadAt(head.data + TileResolve(id).offset, TileResolve(id).length)
    BY <1>4 DEF GetTile, id
  <1>9. CASE \E i \in DOMAIN tiles : tiles[i].at = a
    <2>1. c \in DOMAIN tiles /\ tiles[c].at = a
      BY <1>9
    <2> HIDE DEF c
    <2> DEFINE d == tiles[c].data
    <2>2. c \in 1..n /\ tiles[c] \in TileInput
      BY <1>2, <2>1
    <2>3. d \in TilePayloads
      BY <2>2 DEF TileInput
    <2>4. PICK k \in 1..Len(norm) : norm[k] = tiles[c]
      BY <1>3, <2>2
    <2> DEFINE e == es[k]
    <2>5. k \in 1..Len(es) /\ e.id = id /\ e.length = TileSize[d]
      BY <1>6, <2>1, <2>4 DEF id
    <2>6. TileResolve(id) = e
      BY <1>5, <2>5
    <2>7. e \in TileEntrySet
      BY <1>6, <2>5
    <2>8. e \notin {TileNone, TileUnreadable}
      BY <2>7, TileAssumption
    <2>9. Block(archive, head.data + e.offset, TilePayload(d))
      BY <1>4, <1>7, <2>4
    <2> HIDE DEF e, d
    <2>10. TilePayload(d) \in Seq(Units) /\ Len(TilePayload(d)) = TileSize[d]
      BY <2>3, PayloadIs
    <2>11. ReadAt(head.data + e.offset, TileSize[d]) = TilePayload(d)
      BY <1>4, <2>9, <2>10, BlockRead
    <2>12. GetTile(a) = TilePayload(d)
      BY <1>8, <2>5, <2>6, <2>8, <2>11
    <2> QED
      BY <1>1, <1>9, <2>12 DEF id, d, c
  <1>10. CASE ~ \E i \in DOMAIN tiles : tiles[i].at = a
    <2>1. ASSUME NEW i \in 1..Len(es) PROVE es[i].id # id
      <3>1. i \in 1..Len(norm) /\ es[i].id = TileId(norm[i].at)
        BY <1>6
      <3>2. PICK j \in 1..n : norm[i] = tiles[j]
        BY <1>3, <3>1
      <3>3. norm[i].at # a
        BY <1>2, <1>10, <3>2
      <3>4. norm[i].at \in TileAddresses
        BY <1>2, <3>2, PlacesAddressed
      <3>5. TileId(norm[i].at) # TileId(a)
        BY <1>1, <3>3, <3>4, IdsDiffer
      <3> QED
        BY <3>1, <3>5 DEF id
    <2>2. TileResolve(id) = TileNone
      BY <1>5, <2>1
    <2>3. GetTile(a) = TileNone
      BY <1>8, <2>2
    <2> QED
      BY <1>1, <1>10, <2>3 DEF id
  <1> QED
    BY <1>9, <1>10

LEMMA TileInvInit == TileInit => TileInv
  <1>1. TileMax \in Nat /\ Len(<<>>) = 0 /\ <<>> \in Seq(TileInput)
    BY TileAssumption
  <1>2. 0 <= TileMax
    BY <1>1
  <1> QED
    BY <1>1, <1>2 DEF TileInit, TileInv

LEMMA TileInvNext == TileInv /\ [TileNext]_tileVars => TileInv'
  <1> SUFFICES ASSUME TileInv, [TileNext]_tileVars PROVE TileInv'
    OBVIOUS
  <1>1. CASE TileCollect
    <2>1. PICK a \in TilePlaces, d \in TilePayloads : tiles' = Append(tiles, [at |-> a, data |-> d])
      BY <1>1 DEF TileCollect
    <2>2. archive' = TileNone /\ Len(tiles) < TileMax /\ tiles \in Seq(TileInput) /\ TileMax \in Nat
      BY <1>1, TileAssumption DEF TileCollect, TileInv
    <2> DEFINE t == [at |-> a, data |-> d]
    <2>3. t \in TileInput
      BY DEF TileInput
    <2> HIDE DEF t
    <2>4. tiles' \in Seq(TileInput) /\ Len(tiles') = Len(tiles) + 1
      BY <2>1, <2>2, <2>3 DEF t
    <2>5. Len(tiles') <= TileMax
      BY <2>2, <2>4
    <2> QED
      BY <2>2, <2>4, <2>5 DEF TileInv, TileInput
  <1>2. ASSUME tiles' = tiles PROVE TileDistinct' = TileDistinct /\ TileFile' = TileFile
    BY <1>2 DEF TileDistinct, TileFile, TileSorted
  <1>3. CASE TileWrite
    BY <1>2, <1>3 DEF TileWrite, TileInv, TileInput
  <1>4. CASE UNCHANGED tileVars
    BY <1>2, <1>4 DEF tileVars, TileInv, TileInput
  <1> QED
    BY <1>1, <1>3, <1>4 DEF TileNext

LEMMA TileInvAlways == TileSpec => []TileInv
  BY TileInvInit, TileInvNext, PTL DEF TileSpec

(* The state stays in its type, and an archive's header says where in the   *)
(* file its data begin (write_pmtiles, pmtiles.py:205-290).                *)
THEOREM TilesTyped == TileSpec => []TileTypeOK
  BY TileInvAlways, TileInvTyped, PTL

(* Every tile of an archive whose root holds all entries is found at its     *)
(* address with its payload, and nothing at any other address: ids, the      *)
(* directory, its stream, the search in it and the places of the payloads    *)
(* agree between write_pmtiles and PMTilesReader.get_tile.                  *)
THEOREM TilesFoundByRoot == TileSpec => [](TileRootHolds => TilesFound)
  BY TileInvAlways, TileInvFinds, PTL

-----------------------------------------------------------------------------
(* Leaves.                                                                  *)

\* A directory is never empty: it says at least how many entries it has.
LEMMA DirectoryNotEmpty ==
  ASSUME NEW es \in Seq(TileEntrySet), Ascending(es)
  PROVE  Len(SerializeDirectory(es)) \in Nat \ {0}
  <1> DEFINE b == SerializeDirectory(es)
             w == TileNumbers(es)
  <1>1. b \in Seq(Nat) /\ Numbers[b] = w
    BY DirectoryBytes
  <1>2. Len(w) # 0
    BY DirectoryNumbers
  <1>3. Numbers[<<>>] = <<>> /\ Len(<<>>) = 0
    <2>1. <<>> \in Seq(Nat) /\ Len(<<>>) = 0
      OBVIOUS
    <2> QED
      BY <2>1, NumbersDef DEF NumbersOf
  <1> HIDE DEF b, w
  <1>4. b # <<>>
    BY <1>1, <1>2, <1>3
  <1>5. Len(b) \in Nat \ {0}
    BY <1>1, <1>4, EmptySeq
  <1> QED
    BY <1>5 DEF b

\* The pointers of a root: the first leaf is at 0, the others behind it.
LEMMA PointersSay ==
  ASSUME NEW cs, NEW e, Chunked(cs, e)
  PROVE  LET blobs == [i \in DOMAIN cs |-> SerializeDirectory(cs[i])]
             ps == TilePointers(blobs, cs)
         IN  /\ Len(ps) = Len(cs)
             /\ \A i \in 1..Len(cs) : ps[i].id = cs[i][1].id /\ ps[i].run = 0
             /\ \A i \in 2..Len(cs) : ps[i].offset > 0
  <1> DEFINE n == Len(cs)
             X == Seq(TileEntrySet)
             B == Seq(Nat)
             blobs == [i \in DOMAIN cs |-> SerializeDirectory(cs[i])]
             lengths == [i \in DOMAIN blobs |-> Len(blobs[i])]
             off == TileOffsets(lengths)
             ps == TilePointers(blobs, cs)
  <1>1. cs \in Seq(X) /\ n \in Nat /\ \A i \in 1..n : cs[i] \in X /\ Ascending(cs[i])
    BY DEF Chunked
  <1>2. DOMAIN cs = 1..n
    <2> HIDE DEF X
    <2> QED
      BY <1>1
  <1>3. \A i \in 1..n : Len(SerializeDirectory(cs[i])) \in Nat \ {0}
    BY <1>1, DirectoryNotEmpty
  <1> HIDE DEF n
  <1>4. DOMAIN blobs = 1..n /\ \A i \in 1..n : blobs[i] = SerializeDirectory(cs[i])
    BY <1>2
  <1> HIDE DEF blobs
  <1>5. lengths \in [1..n -> Nat] /\ \A i \in 1..n : lengths[i] \in Nat \ {0}
    BY <1>3, <1>4
  <1> HIDE DEF lengths
  <1>6. lengths \in Seq(Nat) /\ Len(lengths) = n
    BY <1>1, <1>5
  <1>7. (\A i \in 1 .. n + 1 : off[i] \in Nat) /\ \A i \in 1..n : off[i + 1] = off[i] + lengths[i]
    BY <1>6, OffsetsDef
  <1>8. ps = [i \in 1..n |-> [id |-> cs[i][1].id, offset |-> off[i], length |-> Len(blobs[i]), run |-> 0]]
    BY <1>2 DEF TilePointers, lengths
  <1> HIDE DEF ps, off
  <1>9. \A i \in 1..n : ps[i].id = cs[i][1].id /\ ps[i].run = 0 /\ ps[i].offset = off[i]
    BY <1>8
  <1>10. ASSUME NEW i \in 2..n PROVE ps[i].offset > 0
    <2>1. i \in 1..n /\ i - 1 \in 1..n /\ i - 1 \in 1 .. n + 1 /\ (i - 1) + 1 = i
      BY <1>1
    <2>2. off[i] = off[i - 1] + lengths[i - 1] /\ off[i - 1] \in Nat /\ lengths[i - 1] \in Nat \ {0}
      BY <1>5, <1>7, <2>1
    <2> QED
      BY <1>9, <2>1, <2>2
  <1>11. Len(ps) = n
    BY <1>1, <1>8
  <1> QED
    BY <1>9, <1>10, <1>11 DEF n, ps, blobs

\* The units of a stream say of which bytes it is, and where in it they are.
LEMMA StreamUnits ==
  ASSUME NEW b \in Seq(Nat)
  PROVE  /\ Len(Compress(b)) \in Nat \ {0}
         /\ \A i \in 1..Len(Compress(b)) : Compress(b)[i] = <<"gzip", b, i>>
  <1> DEFINE n == (Len(b) \div TileRatio) + TileOverhead
             c == Compress(b)
  <1>1. Len(c) \in Nat \ {0} /\ c \in Seq(Units)
    BY StreamIs
  <1>2. c = [i \in 1..n |-> <<"gzip", b, i>>]
    BY DEF Compress
  <1> HIDE DEF n, c
  <1>3. DOMAIN c = 1..n /\ DOMAIN c = 1..Len(c)
    <2>1. DOMAIN c = 1..Len(c)
      BY <1>1, LenProperties
    <2> QED
      BY <1>2, <2>1
  <1>4. \A i \in 1..Len(c) : c[i] = <<"gzip", b, i>>
    BY <1>2, <1>3
  <1> QED
    BY <1>1, <1>4 DEF c

DataUnits == {"data"} \X TilePayloads \X Nat

LEMMA DataAre ==
  ASSUME NEW norm \in Seq(TileInput)
  PROVE  TileUnits(norm) \in Seq(DataUnits)
  <1> DEFINE n == Len(norm)
             X == Seq(DataUnits)
             ss == [k \in DOMAIN norm |-> TilePayload(norm[k].data)]
  <1>0. n \in Nat /\ DOMAIN norm = 1..n /\ \A i \in 1..n : norm[i] \in TileInput
    OBVIOUS
  <1>1. \A i \in 1..n : norm[i].data \in TilePayloads
    BY <1>0 DEF TileInput
  <1>2. ASSUME NEW d \in TilePayloads PROVE TilePayload(d) \in X
    <2> DEFINE l == TileSize[d]
               c == TilePayload(d)
    <2>1. l \in Nat
      BY TileAssumption DEF TilePayloads
    <2>2. c = [i \in 1..l |-> <<"data", d, i>>]
      BY DEF TilePayload
    <2> HIDE DEF l, c
    <2>3. \A i \in 1..l : <<"data", d, i>> \in DataUnits
      BY <2>1 DEF DataUnits
    <2>4. c \in Seq(DataUnits)
      BY <2>1, <2>2, <2>3
    <2> QED
      BY <2>4 DEF c
  <1> HIDE DEF n, X
  <1>3. ss \in [1..n -> X]
    BY <1>0, <1>1, <1>2
  <1>4. TileUnits(norm) = FlattenSeq(ss)
    BY DEF TileUnits
  <1> HIDE DEF ss
  <1>5. ss \in Seq(X)
    BY <1>0, <1>3
  <1> QED
    BY <1>4, <1>5, FlattenTyped DEF X


\* A reader that begins anywhere but at a stream's first unit raises.
LEMMA CutUnreadable ==
  ASSUME NEW u, u # <<>>,
         \/ u[1] \in DataUnits
         \/ \E b \in Seq(Nat), i \in Nat : i # 1 /\ u[1] = <<"gzip", b, i>>
  PROVE  Decompress(u) = TileUnreadable
  <1>1. CASE u[1] \in DataUnits
    <2>1. u[1][1] = "data"
      BY <1>1 DEF DataUnits
    <2>2. u[1][1] # "gzip"
      BY <2>1
    <2> QED
      BY <2>2 DEF Decompress
  <1>2. CASE \E b \in Seq(Nat), i \in Nat : i # 1 /\ u[1] = <<"gzip", b, i>>
    <2>1. PICK b \in Seq(Nat), i \in Nat : i # 1 /\ u[1] = <<"gzip", b, i>>
      BY <1>2
    <2>2. u[1][2] = b /\ u[1][3] = i
      BY <2>1
    <2> DEFINE c == Compress(b)
    <2>3. c[1] = <<"gzip", b, 1>>
      <3>1. Len(c) \in Nat \ {0} /\ \A k \in 1..Len(c) : c[k] = <<"gzip", b, k>>
        BY StreamUnits
      <3> HIDE DEF c
      <3>2. 1 \in 1..Len(c)
        BY <3>1
      <3> QED
        BY <3>1, <3>2
    <2>4. c[1][3] = 1
      <3> HIDE DEF c
      <3> QED
        BY <2>3
    <2> HIDE DEF c
    <2>5. u # c
      BY <2>1, <2>2, <2>4
    <2>6. u # Compress(u[1][2])
      BY <2>2, <2>5 DEF c
    <2> QED
      BY <2>6 DEF Decompress
  <1> QED
    BY <1>1, <1>2

\* What is read of an archive is empty, or begins with the unit that is there.
LEMMA ReadBegins ==
  ASSUME NEW A, archive \in Seq(A), NEW from \in Nat, NEW n \in Nat
  PROVE  \/ ReadAt(from, n) = <<>>
         \/ ReadAt(from, n) # <<>> /\ from + 1 \in 1..Len(archive) /\ ReadAt(from, n)[1] = archive[from + 1]
  <1> DEFINE k == Len(archive)
             low == Min({from + n, k})
             first == from + 1
             r == ReadAt(from, n)
  <1>1. k \in Nat
    OBVIOUS
  <1>2. low \in Nat /\ low <= k
    <2> DEFINE T == {from + n, k}
    <2>1. \E x \in T : \A y \in T : x <= y
      <3>1. CASE from + n <= k
        BY <1>1, <3>1
      <3>2. CASE ~ (from + n <= k)
        <4>1. k <= from + n /\ k <= k
          BY <1>1, <3>2
        <4> QED
          BY <1>1, <4>1
      <3> QED
        BY <3>1, <3>2
    <2>2. k \in T /\ T \subseteq Nat
      BY <1>1
    <2> HIDE DEF T
    <2>3. Min(T) \in T /\ \A y \in T : Min(T) <= y
      BY <2>1 DEF Min
    <2> QED
      BY <2>2, <2>3 DEF T
  <1>3. r = SubSeq(archive, first, low)
    BY DEF ReadAt
  <1>4. \A i \in 1..k : archive[i] \in A
    OBVIOUS
  <1> HIDE DEF r, low, k
  <1>5. first \in Int /\ low \in Int /\ \A i \in first..low : i \in 1..k
    BY <1>1, <1>2
  <1>6. \A i \in first..low : archive[i] \in A
    BY <1>4, <1>5
  <1>7. CASE low < first
    <2>1. r = <<>>
      BY <1>3, <1>5, <1>7, SubSeqEmpty
    <2> QED
      BY <2>1 DEF r
  <1>8. CASE first <= low
    <2>1. 1 \in 1 .. low - first + 1 /\ first + 1 - 1 = first /\ first \in first..low /\ low - first + 1 # 0
      BY <1>5, <1>8
    <2>2. /\ SubSeq(archive, first, low)[1] = archive[first + 1 - 1]
          /\ Len(SubSeq(archive, first, low)) = low - first + 1
      <3> HIDE DEF first
      <3> QED
        BY <1>5, <1>6, <1>8, <2>1, SubSeqProperties
    <2>3. r[1] = archive[first] /\ Len(r) # 0 /\ first \in 1..k /\ Len(<<>>) = 0
      <3> HIDE DEF first
      <3> QED
        BY <1>3, <1>5, <2>1, <2>2
    <2>4. r # <<>>
      BY <2>3
    <2> QED
      BY <2>3, <2>4 DEF r, k
  <1> QED
    BY <1>5, <1>7, <1>8

\* In pointers that cannot be followed, an id at or behind one cannot be read.
LEMMA SearchRaises ==
  ASSUME NEW ps \in Seq(TileEntrySet), NEW k \in 1..Len(ps), NEW id \in Nat, NEW deeper,
         ps[k].id <= id,
         \A i \in 1..Len(ps) : ps[i].run = 0,
         \A i \in k..Len(ps) :
           Decompress(ReadAt(ReadHeader.leaf + ps[i].offset, ps[i].length)) = TileUnreadable
  PROVE  TileSearch(id, 0, deeper)[ps] = TileUnreadable
  <1> DEFINE n == Len(ps)
             below == {i \in DOMAIN ps : ps[i].id <= id}
             m == Max(below)
             r == TileSearch(id, 0, deeper)[ps]
  <1>1. n \in Nat /\ DOMAIN ps = 1..n
    OBVIOUS
  <1>2. r = IF below = {} THEN TileNone
            ELSE IF ps[m].run > 0 THEN (IF TileCovers(ps[m], id) THEN ps[m] ELSE TileNone)
            ELSE LET raw == Decompress(ReadAt(ReadHeader.leaf + ps[m].offset, ps[m].length))
                 IN  IF raw = TileUnreadable THEN TileUnreadable ELSE deeper[DeserializeDirectory(raw)]
    BY DEF TileSearch
  <1>3. below \subseteq 1..n /\ k \in below
    BY <1>1
  <1> HIDE DEF below
  <1>4. m \in below /\ \A y \in below : y <= m
    BY <1>1, <1>3, GreatestNumber
  <1> HIDE DEF m, r, n
  <1>5. m \in 1..n /\ m \in k..n
    BY <1>1, <1>3, <1>4 DEF n
  <1>6. ps[m].run = 0 /\ ~ (0 > 0)
    BY <1>5 DEF n
  <1>7. Decompress(ReadAt(ReadHeader.leaf + ps[m].offset, ps[m].length)) = TileUnreadable
    BY <1>5 DEF n
  <1> QED
    BY <1>2, <1>3, <1>6, <1>7 DEF r


\* The root of an archive with leaves, and the bytes whose stream they are.
LEMMA LeavesOf ==
  ASSUME NEW es \in Seq(TileEntrySet), Ascending(es), ~ (Len(SerializeDirectory(es)) <= TileMaxRoot)
  PROVE  LET cs == TileChunks(es)
             blobs == [i \in DOMAIN cs |-> SerializeDirectory(cs[i])]
             ps == TilePointers(blobs, cs)
             dirs == TileDirectories(es)
         IN  /\ ps \in Seq(TileEntrySet) /\ Ascending(ps) /\ dirs.root = Compress(SerializeDirectory(ps))
             /\ FlattenSeq(blobs) \in Seq(Nat) /\ dirs.leaf = Compress(FlattenSeq(blobs))
  <1> DEFINE cs == TileChunks(es)
             blobs == [i \in DOMAIN cs |-> SerializeDirectory(cs[i])]
             ps == TilePointers(blobs, cs)
             whole == SerializeDirectory(es)
             dirs == TileDirectories(es)
  <1>1. blobs \in Seq(Seq(Nat)) /\ ps \in Seq(TileEntrySet) /\ Ascending(ps)
    BY LeavesAre
  <1>2. dirs = IF Len(whole) <= TileMaxRoot THEN [root |-> Compress(whole), leaf |-> <<>>]
               ELSE [root |-> Compress(SerializeDirectory(ps)), leaf |-> Compress(FlattenSeq(blobs))]
    BY DEF TileDirectories
  <1>3. ~ (Len(whole) <= TileMaxRoot)
    OBVIOUS
  <1> HIDE DEF whole, ps, dirs, blobs, cs
  <1>4. FlattenSeq(blobs) \in Seq(Nat)
    BY <1>1, FlattenTyped
  <1>5. dirs.root = Compress(SerializeDirectory(ps)) /\ dirs.leaf = Compress(FlattenSeq(blobs))
    BY <1>2, <1>3
  <1> QED
    BY <1>1, <1>4, <1>5 DEF ps, dirs, blobs, cs

\* An archive that was made of the tiles, and whose root has no room for them.
TileLeavesMade ==
    tiles \in Seq(TileInput) /\ TileDistinct /\ archive = TileFile /\ ~TileRootHolds

\* Where any leaf but the first is looked for, no stream begins.
LEMMA LeafCut ==
  ASSUME TileLeavesMade, NEW offset \in Nat, offset # 0, NEW length \in Nat
  PROVE  Decompress(ReadAt(ReadHeader.leaf + offset, length)) = TileUnreadable
  <1> DEFINE norm == TileSorted
             es == TileEntries(norm)
             dirs == TileDirectories(es)
             l == dirs.leaf
             head == TileHead(dirs.root, l)
             u == TileUnits(norm)
             from == ReadHeader.leaf + offset
             r == ReadAt(from, length)
  <1>1. norm \in Seq(TileInput) /\ IdsRise(norm)
    BY TilesSort DEF TileLeavesMade
  <1>2. /\ archive \in Seq(Units) /\ ReadHeader = head /\ head \in HeadSet /\ l \in Seq(Units)
        /\ Block(archive, head.leaf, l) /\ Len(archive) = head.data + Len(u)
        /\ \A f, part : Block(u, f, part) => Block(archive, head.data + f, part)
    BY ArchiveIs DEF TileLeavesMade
  <1>3. ~ (Len(SerializeDirectory(es)) <= TileMaxRoot)
    BY DEF TileLeavesMade, TileRootHolds
  <1> HIDE DEF norm
  <1>4. es \in Seq(TileEntrySet) /\ Ascending(es)
    BY <1>1, EntriesAre
  <1>5. u \in Seq(DataUnits)
    BY <1>1, DataAre
  <1> HIDE DEF es, u
  <1>6. \E b \in Seq(Nat) : l = Compress(b)
    BY <1>3, <1>4, LeavesOf
  <1>7. PICK b \in Seq(Nat) : l = Compress(b)
    BY <1>6
  <1>8. Len(l) \in Nat /\ \A i \in 1..Len(l) : l[i] = <<"gzip", b, i>>
    BY <1>7, StreamUnits
  <1>9. head.leaf \in Nat /\ head.data = head.leaf + Len(l)
    <2>1. head.leaf = TileHeader + Len(dirs.root) /\ head.data = TileHeader + Len(dirs.root) + Len(l)
      <3> HIDE DEF dirs, l
      <3> QED
        BY DEF TileHead
    <2>2. head.leaf \in Nat
      <3> HIDE DEF head
      <3> QED
        BY <1>2 DEF HeadSet
    <2> HIDE DEF head, l
    <2> QED
      BY <2>1, <2>2
  <1> HIDE DEF head, l, dirs
  <1>10. from = head.leaf + offset /\ from \in Nat
    BY <1>2, <1>9
  <1> HIDE DEF from
  <1>11. \/ r = <<>>
         \/ r # <<>> /\ from + 1 \in 1..Len(archive) /\ r[1] = archive[from + 1]
    BY <1>2, <1>10, ReadBegins
  <1> HIDE DEF r
  <1>12. CASE r = <<>>
    <2>1. Decompress(r) = TileUnreadable
      BY <1>12 DEF Decompress
    <2> QED
      BY <2>1 DEF r, from
  <1>13. CASE r # <<>> /\ from + 1 \in 1..Len(archive) /\ r[1] = archive[from + 1]
    <2> DEFINE i == offset + 1
               j == i - Len(l)
    <2>1. CASE i <= Len(l)
      <3>1. i \in 1..Len(l) /\ i \in Nat /\ i # 1 /\ head.leaf + i = from + 1
        BY <1>8, <1>9, <1>10, <2>1
      <3> HIDE DEF i
      <3>2. archive[head.leaf + i] = l[i]
        BY <1>2, <3>1 DEF Block
      <3>3. r[1] = <<"gzip", b, i>>
        BY <1>8, <1>13, <3>1, <3>2
      <3>4. Decompress(r) = TileUnreadable
        BY <1>13, <3>1, <3>3, CutUnreadable
      <3> QED
        BY <3>4 DEF r, from
    <2>2. CASE ~ (i <= Len(l))
      <3>1. Len(u) \in Nat /\ \A k \in 1..Len(u) : u[k] \in DataUnits
        BY <1>5
      <3>2. j \in 1..Len(u) /\ head.data + 0 + j = from + 1
        <4>1. from + 1 <= head.data + Len(u)
          BY <1>2, <1>9, <1>10, <1>13, <3>1
        <4> QED
          BY <1>8, <1>9, <1>10, <2>2, <3>1, <4>1, SMTT(60)
      <3>3. Block(u, 0, u)
        <4>1. \A k \in 1..Len(u) : 0 + k = k
          BY <3>1
        <4> QED
          BY <3>1, <4>1 DEF Block
      <3>4. Block(archive, head.data + 0, u)
        BY <1>2, <3>3
      <3> HIDE DEF j
      <3>5. archive[head.data + 0 + j] = u[j]
        BY <3>2, <3>4 DEF Block
      <3>6. r[1] \in DataUnits
        BY <1>13, <3>1, <3>2, <3>5
      <3>7. Decompress(r) = TileUnreadable
        BY <1>13, <3>6, CutUnreadable
      <3> QED
        BY <3>7 DEF r, from
    <2> QED
      BY <2>1, <2>2
  <1> QED
    BY <1>11, <1>12, <1>13


\* The ids that leaves behind the first are for: from the second's first id on.
TileInLaterLeaf(id) ==
    LET cs == TileChunks(TileEntries(TileSorted)) IN Len(cs) > 1 /\ cs[2][1].id <= id

LEMMA LaterLeafRaises ==
  ASSUME TileLeavesMade, NEW id \in Nat, TileInLaterLeaf(id)
  PROVE  TileResolve(id) = TileUnreadable
  <1> DEFINE norm == TileSorted
             es == TileEntries(norm)
             cs == TileChunks(es)
             blobs == [i \in DOMAIN cs |-> SerializeDirectory(cs[i])]
             ps == TilePointers(blobs, cs)
             b == SerializeDirectory(ps)
             dirs == TileDirectories(es)
             r == dirs.root
             head == TileHead(r, dirs.leaf)
             u == ReadAt(ReadHeader.root, ReadHeader.rootLength)
             n == Len(cs)
  <1>1. norm \in Seq(TileInput) /\ IdsRise(norm)
    BY TilesSort DEF TileLeavesMade
  <1>2. /\ archive \in Seq(Units) /\ ReadHeader = head
        /\ r \in Seq(Units) /\ Block(archive, TileHeader, r)
    BY ArchiveIs DEF TileLeavesMade
  <1>3. ~ (Len(SerializeDirectory(es)) <= TileMaxRoot)
    BY DEF TileLeavesMade, TileRootHolds
  <1>4. n > 1 /\ cs[2][1].id <= id
    BY DEF TileInLaterLeaf
  <1> HIDE DEF norm
  <1>5. es \in Seq(TileEntrySet) /\ Ascending(es)
    BY <1>1, EntriesAre
  <1> HIDE DEF es
  <1>6. es # <<>>
    <2> SUFFICES ASSUME es = <<>> PROVE FALSE
      OBVIOUS
    <2>1. PICK taken : ChunksTaken(taken, es)
      BY <1>5, ChunksDef
    <2>2. Len(es) = 0 /\ Len(<<>>) = 0
      OBVIOUS
    <2>3. cs = <<>>
      BY <2>1, <2>2 DEF ChunksTaken
    <2> HIDE DEF cs
    <2> QED
      BY <1>4, <2>2, <2>3
  <1>7. Chunked(cs, es[Len(es)])
    BY <1>5, <1>6, ChunksAre
  <1>8. /\ ps \in Seq(TileEntrySet) /\ Ascending(ps) /\ r = Compress(b)
    BY <1>3, <1>5, LeavesOf
  <1> HIDE DEF cs, n
  <1>9. /\ Len(ps) = n
        /\ \A i \in 1..n : ps[i].id = cs[i][1].id /\ ps[i].run = 0
        /\ \A i \in 2..n : ps[i].offset > 0
    BY <1>7, PointersSay DEF n
  <1>10. n \in Nat /\ 2 \in 1..n /\ \A i \in 2..n : i \in 1..n
    <2>1. n \in Nat
      BY <1>7 DEF Chunked, n
    <2> QED
      BY <1>4, <2>1
  <1> HIDE DEF ps
  <1>11. b \in Seq(Nat)
    BY <1>8, DirectoryBytes
  <1>12. u = r
    <2>1. ReadHeader.root = TileHeader /\ ReadHeader.rootLength = Len(r)
      <3> HIDE DEF r
      <3> QED
        BY <1>2 DEF TileHead
    <2> HIDE DEF r
    <2>2. ReadAt(TileHeader, Len(r)) = r
      BY <1>2, BlockRead
    <2> QED
      BY <2>1, <2>2
  <1>13. Decompress(u) = b
    <2> HIDE DEF r, u, b
    <2> QED
      BY <1>8, <1>11, <1>12, StreamIs
  <1>14. DeserializeDirectory(Decompress(u)) = ps
    <2>1. DeserializeDirectory(b) = ps
      BY <1>8, DirectoriesTurnBack
    <2> HIDE DEF u, b
    <2> QED
      BY <1>13, <2>1
  <1>15. PICK deeper : TileResolve(id) = TileSearch(id, 0, deeper)[DeserializeDirectory(Decompress(u))]
    BY ResolveStarts
  <1> HIDE DEF u, b, r, head, dirs
  <1>16. TileResolve(id) = TileSearch(id, 0, deeper)[ps]
    BY <1>14, <1>15
  <1>17. ASSUME NEW i \in 2..n
         PROVE  Decompress(ReadAt(ReadHeader.leaf + ps[i].offset, ps[i].length)) = TileUnreadable
    <2>1. ps[i] \in TileEntrySet
      BY <1>8, <1>9, <1>10
    <2>2. ps[i].offset \in Nat /\ ps[i].length \in Nat
      BY <2>1 DEF TileEntrySet
    <2>3. ps[i].offset # 0
      BY <1>9, <2>2
    <2> QED
      BY <2>2, <2>3, LeafCut
  <1>18. TileSearch(id, 0, deeper)[ps] = TileUnreadable
    <2>1. ps[2].id <= id
      BY <1>4, <1>9, <1>10
    <2>2. 2 \in 1..Len(ps)
      BY <1>9, <1>10
    <2>3. \A i \in 1..Len(ps) : ps[i].run = 0
      BY <1>9
    <2>4. \A i \in 2..Len(ps) :
            Decompress(ReadAt(ReadHeader.leaf + ps[i].offset, ps[i].length)) = TileUnreadable
      BY <1>9, <1>17
    <2> QED
      BY <1>8, <2>1, <2>2, <2>3, <2>4, SearchRaises
  <1> QED
    BY <1>16, <1>18

\* No tile that is in a leaf behind the first can be had.
TileLeavesLost ==
    archive # TileNone /\ ~TileRootHolds =>
      \A a \in TileLookups : TileInLaterLeaf(TileId(a)) => GetTile(a) = TileUnreadable

LEMMA TileInvLoses == TileInv => TileLeavesLost
  <1> SUFFICES ASSUME TileInv, archive # TileNone, ~TileRootHolds,
                      NEW a \in TileLookups, TileInLaterLeaf(TileId(a))
               PROVE  GetTile(a) = TileUnreadable
    BY DEF TileLeavesLost
  <1>1. TileLeavesMade
    BY DEF TileInv, TileLeavesMade
  <1>2. TileId(a) \in Nat
    BY PlacesAddressed, IdsTurnBack
  <1>3. TileResolve(TileId(a)) = TileUnreadable
    BY <1>1, <1>2, LaterLeafRaises
  <1> QED
    BY <1>3 DEF GetTile

(* Why TilesFoundByRoot asks for a root that holds all entries: when it has   *)
(* no room for them, the reader raises at every address whose id is in a     *)
(* leaf behind the first.  The leaves are compressed as one stream           *)
(* (pmtiles.py:247), the root says where each was before that (236-242), and *)
(* what get_tile slices from inside a stream (409-410) is no stream.         *)
THEOREM LaterLeavesLost == TileSpec => []TileLeavesLost
  BY TileInvAlways, TileInvLoses, PTL
=============================================================================
