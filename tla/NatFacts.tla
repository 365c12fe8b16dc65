------------------------------ MODULE NatFacts ------------------------------
(***************************************************************************)
(* Facts about natural numbers that the proofs about the models cite:      *)
(* induction, as statements about sets, and division.                      *)
(***************************************************************************)
EXTENDS Integers, WellFoundedInduction, TLAPS

-----------------------------------------------------------------------------
(* Induction.                                                              *)

Below == OpToRel(<, Nat)

LEMMA BelowIs == \A x, y \in Nat : <<x, y>> \in Below <=> x < y
BY DEF Below, OpToRel

\* A set of numbers that is not empty has a least one.
LEMMA LeastOf ==
  ASSUME NEW S \in SUBSET Nat, S # {}
  PROVE  \E n \in S : \A m \in S : n <= m
<1>1. IsWellFoundedOn(Below, Nat)
  BY NatLessThanWellFounded DEF Below
<1>2. \E n \in S : \A m \in S : <<m, n>> \notin Below
  BY <1>1, WFMin
<1>3. PICK n \in S : \A m \in S : <<m, n>> \notin Below
  BY <1>2
<1>4. ASSUME NEW m \in S PROVE n <= m
  <2>1. n \in Nat /\ m \in Nat
    OBVIOUS
  <2>2. ~(m < n)
    BY <1>3, <2>1, BelowIs
  <2>. QED BY <2>1, <2>2
<1>. QED BY <1>4

\* A set that holds every number all smaller numbers of which it holds, holds them all.
LEMMA Induct ==
  ASSUME NEW S, \A n \in Nat : (\A m \in 0 .. n - 1 : m \in S) => n \in S
  PROVE  Nat \subseteq S
<1>. SUFFICES ASSUME Nat \ S # {} PROVE FALSE
  OBVIOUS
<1>1. PICK n \in Nat \ S : \A m \in Nat \ S : n <= m
  BY LeastOf
<1>. QED BY <1>1

-----------------------------------------------------------------------------
(* Recursion.                                                              *)

\* What a recursive function that looks at one smaller argument says of its values.
Recursion(f, stop, base, pred, F) ==
  \A d \in DOMAIN f : f[d] = IF d \in stop THEN base[d] ELSE F[<<d, f[pred[d]]>>]

\* There is a function like that: rank falls from an argument to the one it looks at.
LEMMA RecursionExists ==
  ASSUME NEW D, NEW V, NEW stop, NEW base, NEW pred, NEW F, NEW rank \in [D -> Nat],
         \A d \in D : d \in stop => base[d] \in V,
         \A d \in D : d \notin stop => pred[d] \in D /\ rank[pred[d]] < rank[d],
         \A d \in D, v \in V : d \notin stop => F[<<d, v>>] \in V
  PROVE  \E f \in [D -> V] : Recursion(f, stop, base, pred, F)
<1>. DEFINE Part(k) == {d \in D : rank[d] < k}
            Approx(f, k) == f \in [Part(k) -> V] /\ Recursion(f, stop, base, pred, F)
            S == {k \in Nat : \E f : Approx(f, k)}
<1>1. \A k \in Nat : \A d \in D : d \in Part(k) /\ d \notin stop => pred[d] \in Part(k)
  OBVIOUS
<1>2. ASSUME NEW k \in Nat, \A j \in 0 .. k - 1 : j \in S
      PROVE  \E f : Approx(f, k)
  <2>1. CASE k = 0
    <3>1. Part(k) = {}
      BY <2>1
    <3>2. Approx([d \in Part(k) |-> 0], k)
      BY <3>1 DEF Recursion
    <3>. QED BY <3>2
  <2>2. CASE k > 0
    <3>1. k - 1 \in Nat /\ k - 1 \in S
      <4>. HIDE DEF S
      <4>. QED BY <1>2, <2>2
    <3>2. PICK f : Approx(f, k - 1)
      BY <3>1
    <3>. DEFINE g == [d \in Part(k) |-> IF d \in stop THEN base[d] ELSE F[<<d, f[pred[d]]>>]]
    <3>3. ASSUME NEW d \in Part(k), d \notin stop
          PROVE  pred[d] \in Part(k - 1) /\ f[pred[d]] \in V /\ f[pred[d]] = g[pred[d]]
      <4>1. pred[d] \in Part(k - 1)
        BY <3>3
      <4>2. pred[d] \in Part(k)
        BY <4>1
      <4>. QED BY <3>2, <4>1, <4>2 DEF Recursion
    <3>4. g \in [Part(k) -> V]
      BY <3>3
    <3>5. Recursion(g, stop, base, pred, F)
      BY <3>3 DEF Recursion
    <3>6. Approx(g, k)
      BY <3>4, <3>5
    <3>. QED BY <3>6
  <2>3. k = 0 \/ k > 0
    OBVIOUS
  <2>. HIDE DEF Approx
  <2>. QED BY <2>1, <2>2, <2>3
<1>3. \A k \in Nat : \E f : Approx(f, k)
  <2>. HIDE DEF Approx, Part
  <2>1. Nat \subseteq S
    <3>1. \A k \in Nat : (\A j \in 0 .. k - 1 : j \in S) => k \in S
      BY <1>2
    <3>. HIDE DEF S
    <3>. QED BY <3>1, Induct
  <2>. QED BY <2>1
<1>. DEFINE G(k) == CHOOSE f : Approx(f, k)
<1>4. \A k \in Nat : Approx(G(k), k)
  BY <1>3
<1>. DEFINE T == {n \in Nat : \A d \in D : rank[d] = n =>
                    \A k, l \in Nat : d \in Part(k) /\ d \in Part(l) => G(k)[d] = G(l)[d]}
<1>5. ASSUME NEW n \in Nat, \A m \in 0 .. n - 1 : m \in T PROVE n \in T
  <2>1. ASSUME NEW d \in D, rank[d] = n, NEW k \in Nat, NEW l \in Nat,
               d \in Part(k), d \in Part(l)
        PROVE  G(k)[d] = G(l)[d]
    <3>1. /\ G(k)[d] = IF d \in stop THEN base[d] ELSE F[<<d, G(k)[pred[d]]>>]
          /\ G(l)[d] = IF d \in stop THEN base[d] ELSE F[<<d, G(l)[pred[d]]>>]
      <4>1. d \in DOMAIN G(k) /\ d \in DOMAIN G(l)
        BY <1>4, <2>1
      <4>2. Recursion(G(k), stop, base, pred, F) /\ Recursion(G(l), stop, base, pred, F)
        BY <1>4
      <4>. HIDE DEF G
      <4>. QED BY <4>1, <4>2 DEF Recursion
    <3>2. CASE d \notin stop
      <4>1. pred[d] \in Part(k) /\ pred[d] \in Part(l) /\ rank[pred[d]] \in 0 .. n - 1
        BY <2>1, <3>2
      <4>2. pred[d] \in D
        BY <3>2
      <4>. HIDE DEF G, Part
      <4>3. G(k)[pred[d]] = G(l)[pred[d]]
        BY <1>5, <4>1, <4>2
      <4>. QED BY <3>1, <3>2, <4>3
    <3>. QED BY <3>1, <3>2
  <2>. HIDE DEF G, Part
  <2>. QED BY <2>1
<1>6. Nat \subseteq T
  <2>. HIDE DEF T
  <2>. QED BY <1>5, Induct
<1>. DEFINE f == [d \in D |-> G(rank[d] + 1)[d]]
<1>7. \A d \in D : rank[d] + 1 \in Nat /\ d \in Part(rank[d] + 1)
  OBVIOUS
<1>8. f \in [D -> V]
  BY <1>4, <1>7
<1>9. ASSUME NEW d \in D PROVE f[d] = IF d \in stop THEN base[d] ELSE F[<<d, f[pred[d]]>>]
  <2>. DEFINE k == rank[d] + 1
  <2>1. G(k)[d] = IF d \in stop THEN base[d] ELSE F[<<d, G(k)[pred[d]]>>]
    <3>1. d \in DOMAIN G(k) /\ Recursion(G(k), stop, base, pred, F)
      BY <1>4, <1>7
    <3>. HIDE DEF G, k
    <3>. QED BY <3>1 DEF Recursion
  <2>2. CASE d \notin stop
    <3>. DEFINE e == pred[d]
    <3>1. e \in D /\ e \in Part(k) /\ e \in Part(rank[e] + 1) /\ rank[e] \in Nat
          /\ k \in Nat /\ rank[e] + 1 \in Nat
      BY <2>2
    <3>2. rank[e] \in T
      BY <1>6, <3>1
    <3>3. G(k)[e] = G(rank[e] + 1)[e]
      <4>. HIDE DEF G, Part, k, e
      <4>. QED BY <3>1, <3>2
    <3>4. f[e] = G(rank[e] + 1)[e]
      BY <3>1
    <3>. HIDE DEF G
    <3>. QED BY <2>1, <2>2, <3>3, <3>4
  <2>. QED BY <2>1, <2>2
<1>. QED
  <2>1. Recursion(f, stop, base, pred, F)
    <3>. HIDE DEF G
    <3>. QED BY <1>8, <1>9 DEF Recursion
  <2>. QED BY <1>8, <2>1

\* f is the end of the walk along next that stops in stop.
EndsWalk(f, D, stop, next) ==
  \A d \in D : f[d] = IF d \in stop THEN d ELSE f[next[d]]

\* Every step of the walk goes down.
Descends(rank, D, stop, next) ==
  /\ rank \in [D -> Nat]
  /\ \A d \in D : d \notin stop => next[d] \in D /\ rank[next[d]] < rank[d]

\* No step of the walk leaves K.
StaysIn(K, D, stop, next) == K \subseteq D /\ \A d \in K : d \notin stop => next[d] \in K

\* A walk that starts in K, and does not leave K while it goes on, ends in K at a place
\* where it stops.
LEMMA WalkEnds ==
  ASSUME NEW D, NEW next, NEW stop, NEW rank, Descends(rank, D, stop, next),
         NEW f, EndsWalk(f, D, stop, next),
         NEW K, StaysIn(K, D, stop, next), NEW s \in K
  PROVE  f[s] \in K /\ f[s] \in stop
<1>. DEFINE S == {n \in Nat : \A d \in K : rank[d] = n => f[d] \in K /\ f[d] \in stop}
<1>1. ASSUME NEW n \in Nat, \A m \in 0 .. n - 1 : m \in S PROVE n \in S
  <2>. SUFFICES ASSUME NEW d \in K, rank[d] = n PROVE f[d] \in K /\ f[d] \in stop
    OBVIOUS
  <2>0. f[d] = IF d \in stop THEN d ELSE f[next[d]]
    BY DEF EndsWalk, StaysIn
  <2>1. CASE d \notin stop
    <3>1. next[d] \in K /\ rank[next[d]] \in 0 .. n - 1
      BY <2>1 DEF Descends, StaysIn
    <3>2. f[next[d]] \in K /\ f[next[d]] \in stop
      BY <1>1, <3>1
    <3>. QED BY <2>0, <2>1, <3>2
  <2>2. CASE d \in stop
    BY <2>0, <2>2
  <2>. QED BY <2>1, <2>2
<1>2. Nat \subseteq S
  <2>. HIDE DEF S
  <2>. QED BY <1>1, Induct
<1>3. rank[s] \in Nat
  BY DEF Descends, StaysIn
<1>. QED BY <1>2, <1>3

-----------------------------------------------------------------------------
(* Division.                                                               *)

LEMMA DivMod ==
  ASSUME NEW a \in Int, NEW n \in Nat \ {0}
  PROVE  /\ a \div n \in Int /\ a % n \in 0 .. n - 1
         /\ a = n * (a \div n) + (a % n)
OBVIOUS

\* The quotient and the remainder are the only numbers like that.
LEMMA DivModUnique ==
  ASSUME NEW n \in Nat \ {0}, NEW q \in Int, NEW r \in 0 .. n - 1
  PROVE  (n * q + r) \div n = q /\ (n * q + r) % n = r
<1>. DEFINE a == n * q + r
<1>1. a \in Int
  OBVIOUS
<1>. DEFINE p == a \div n
            s == a % n
<1>2. p \in Int /\ s \in 0 .. n - 1 /\ a = n * p + s
  BY <1>1, DivMod
<1>3. n * (q - p) = s - r
  <2>. HIDE DEF p, s
  <2>1. n * (q - p) = n * q - n * p
    BY <1>2
  <2>. QED BY <1>2, <2>1
<1>. HIDE DEF p, s
<1>4. q - p = 0
  <2>1. q - p \in Int
    BY <1>2
  <2>2. ASSUME q - p >= 1 PROVE FALSE
    <3>1. n * (q - p) >= n
      BY <2>1, <2>2
    <3>. QED BY <3>1, <1>2, <1>3
  <2>3. ASSUME q - p <= -1 PROVE FALSE
    <3>1. n * (q - p) <= -n
      BY <2>1, <2>3
    <3>. QED BY <3>1, <1>2, <1>3
  <2>. QED BY <2>1, <2>2, <2>3
<1>5. p = q /\ s = r
  BY <1>2, <1>3, <1>4
<1>. QED BY <1>5 DEF p, s

\* a is a multiple of n.
Divides(n, a) == a % n = 0

LEMMA Multiple ==
  ASSUME NEW a \in Int, NEW n \in Nat \ {0}
  PROVE  /\ Divides(n, a) => a = n * (a \div n) /\ a \div n \in Int
         /\ \A k \in Int : a = n * k => Divides(n, a) /\ a \div n = k
<1>1. a % n = 0 => a = n * (a \div n) /\ a \div n \in Int
  BY DivMod
<1>2. ASSUME NEW k \in Int, a = n * k PROVE a % n = 0 /\ a \div n = k
  <2>1. 0 \in 0 .. n - 1 /\ n * k + 0 = a
    BY <1>2
  <2>. QED BY <2>1, DivModUnique
<1>. QED BY <1>1, <1>2 DEF Divides

LEMMA MultipleSum ==
  ASSUME NEW n \in Nat \ {0}, NEW a \in Int, NEW b \in Int, Divides(n, a), Divides(n, b)
  PROVE  /\ Divides(n, a + b) /\ (a + b) \div n = a \div n + b \div n
         /\ Divides(n, a - b) /\ (a - b) \div n = a \div n - b \div n
<1>. DEFINE i == a \div n
            j == b \div n
<1>1. i \in Int /\ j \in Int /\ a = n * i /\ b = n * j
  BY Multiple
<1>. HIDE DEF i, j
<1>2. a + b = n * (i + j) /\ a - b = n * (i - j)
  BY <1>1
<1>3. i + j \in Int /\ i - j \in Int /\ a + b \in Int /\ a - b \in Int
  BY <1>1
<1>4. \A c, k \in Int : c = n * k => Divides(n, c) /\ c \div n = k
  BY Multiple
<1>5. Divides(n, a + b) /\ (a + b) \div n = i + j
  BY ONLY <1>2, <1>3, <1>4
<1>6. Divides(n, a - b) /\ (a - b) \div n = i - j
  BY ONLY <1>2, <1>3, <1>4
<1>. QED BY <1>5, <1>6 DEF i, j

LEMMA MultipleTrans ==
  ASSUME NEW n \in Nat \ {0}, NEW m \in Nat \ {0}, NEW a \in Int,
         Divides(n, m), Divides(m, a)
  PROVE  Divides(n, a)
<1>. DEFINE i == a \div m
            j == m \div n
<1>1. i \in Int /\ j \in Int /\ a = m * i /\ m = n * j
  BY Multiple
<1>. HIDE DEF i, j
<1>2. a = n * (j * i) /\ j * i \in Int
  BY <1>1
<1>. QED BY <1>2, Multiple

\* Two multiples are n apart at least.
LEMMA MultipleGap ==
  ASSUME NEW n \in Nat \ {0}, NEW a \in Int, NEW b \in Int,
         Divides(n, a), Divides(n, b), a < b
  PROVE  a + n <= b
<1>. DEFINE i == a \div n
            j == b \div n
<1>1. i \in Int /\ j \in Int /\ a = n * i /\ b = n * j
  BY Multiple
<1>. HIDE DEF i, j
<1>2. ASSUME j <= i PROVE FALSE
  <2>1. n * j <= n * i
    BY <1>1, <1>2
  <2>. QED BY <2>1, <1>1
<1>3. j >= i + 1
  BY <1>1, <1>2
<1>4. n * j >= n * (i + 1)
  BY <1>1, <1>3
<1>5. n * (i + 1) = n * i + n
  BY <1>1
<1>. QED BY <1>1, <1>4, <1>5

LEMMA DividesSelf == \A n \in Nat \ {0} : Divides(n, n) /\ Divides(n, 0)
BY DEF Divides

LEMMA DividesSum ==
  \A n \in Nat \ {0} : \A a, b \in Int :
    Divides(n, a) /\ Divides(n, b) => Divides(n, a + b) /\ Divides(n, a - b)
BY MultipleSum

\* n times a number keeps the order.
LEMMA TimesOrder ==
  ASSUME NEW i \in Int, NEW j \in Int, NEW n \in Nat \ {0}
  PROVE  /\ n * i \in Int /\ n * j \in Int
         /\ i < j <=> n * i < n * j
         /\ i < j <=> n * i + n <= n * j
         /\ i <= j <=> n * i <= n * j
<1>1. i <= j => n * i <= n * j
  OBVIOUS
<1>2. i < j => n * i + n <= n * j
  <2>1. i < j => n * (i + 1) <= n * j
    OBVIOUS
  <2>. QED BY <2>1
<1>3. j <= i => n * j <= n * i
  OBVIOUS
<1>4. j < i => n * j + n <= n * i
  <2>1. j < i => n * (j + 1) <= n * i
    OBVIOUS
  <2>. QED BY <2>1
<1>. QED BY <1>1, <1>2, <1>3, <1>4

\* The multiple of n at or before a.
LEMMA Aligning ==
  ASSUME NEW n \in Nat \ {0}, NEW a \in Nat
  PROVE  /\ a - (a % n) \in Nat /\ Divides(n, a - (a % n))
         /\ a - (a % n) <= a /\ a < a - (a % n) + n
         /\ \A b \in Int : Divides(n, b) /\ b <= a /\ a < b + n => a - (a % n) = b
<1>. DEFINE d == a - (a % n)
            q == a \div n
<1>1. q \in Int /\ a % n \in 0 .. n - 1 /\ a = n * q + (a % n)
  BY DivMod
<1>2. d = n * q /\ d <= a /\ a < d + n /\ d \in Int
  BY <1>1
<1>. HIDE DEF d, q
<1>3. Divides(n, d)
  BY <1>1, <1>2, Multiple
<1>4. d \in Nat
  <2>1. Divides(n, 0)
    BY Multiple
  <2>2. d < 0 => d + n <= 0
    BY <1>2, <1>3, <2>1, MultipleGap
  <2>. QED BY <1>2, <2>2
<1>6. ASSUME NEW b \in Int, Divides(n, b), b <= a, a < b + n PROVE d = b
  <2>1. ~(d < b)
    BY <1>2, <1>3, <1>6, MultipleGap
  <2>2. ~(b < d)
    BY <1>2, <1>3, <1>6, MultipleGap
  <2>. QED BY <1>2, <1>6, <2>1, <2>2
<1>. QED BY <1>2, <1>3, <1>4, <1>6 DEF d
=============================================================================
