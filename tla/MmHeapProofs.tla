---------------------------- MODULE MmHeapProofs ----------------------------
(***************************************************************************)
(* The heap stays sound whatever is asked of it: the type invariant, the   *)
(* four invariants and the two action properties of MmHeap, for every heap *)
(* and granule, any number of size classes, and any sizes asked for.       *)
(*                                                                         *)
(* The inductive invariant IInv says of the heap that it is WellFormed     *)
(* (chunks tile it and none that are free touch; the list is in order and  *)
(* has the free chunks), damaged or not, that the blocks are Kept, that    *)
(* headers are Aligned, and what is on record of the use (PeakInv).        *)
(* The list is in order if some numbering counts it down (Placed): so it   *)
(* ends, and the walks along it, which are recursive functions, do.        *)
(***************************************************************************)
EXTENDS MmHeap, NatFacts, FiniteSetTheorems

-----------------------------------------------------------------------------
(* Size classes.                                                           *)

\* The recursion of PowerOf2 is well founded: it has a value for every n.
LEMMA PowerIs ==
  /\ PowerOf2 \in [Nat -> Nat \ {0}]
  /\ PowerOf2[0] = 1
  /\ \A n \in Nat : n > 0 => PowerOf2[n] = 2 * PowerOf2[n - 1]
<1>. DEFINE stop == {0}
            base == [n \in {0} |-> 1]
            pred == [n \in Nat |-> n - 1]
            F == [x \in Nat \X (Nat \ {0}) |-> 2 * x[2]]
            rank == [n \in Nat |-> n]
            E(f) == [n \in Nat |-> IF n = 0 THEN 1 ELSE 2 * f[n - 1]]
<1>1. \E f \in [Nat -> Nat \ {0}] : Recursion(f, stop, base, pred, F)
  <2>1. rank \in [Nat -> Nat]
    OBVIOUS
  <2>2. \A d \in Nat : d \in stop => base[d] \in Nat \ {0}
    OBVIOUS
  <2>3. \A d \in Nat : d \notin stop => pred[d] \in Nat /\ rank[pred[d]] < rank[d]
    OBVIOUS
  <2>4. \A d \in Nat, v \in Nat \ {0} : d \notin stop => F[<<d, v>>] \in Nat \ {0}
    OBVIOUS
  <2>. HIDE DEF stop, base, pred, F, rank
  <2>. QED BY <2>1, <2>2, <2>3, <2>4, RecursionExists
<1>2. PICK f \in [Nat -> Nat \ {0}] : Recursion(f, stop, base, pred, F)
  BY <1>1
<1>3. f = E(f)
  <2>1. \A n \in Nat : f[n] = IF n = 0 THEN 1 ELSE 2 * f[n - 1]
    <3>. SUFFICES ASSUME NEW n \in Nat PROVE f[n] = IF n = 0 THEN 1 ELSE 2 * f[n - 1]
      OBVIOUS
    <3>1. f[n] = IF n \in stop THEN base[n] ELSE F[<<n, f[pred[n]]>>]
      BY <1>2 DEF Recursion
    <3>2. n # 0 => n - 1 \in Nat /\ f[n - 1] \in Nat \ {0} /\ pred[n] = n - 1
      OBVIOUS
    <3>3. n # 0 => F[<<n, f[n - 1]>>] = 2 * f[n - 1]
      BY <3>2
    <3>. QED BY <3>1, <3>2, <3>3
  <2>. QED BY <2>1
<1>4. PowerOf2 = E(PowerOf2)
  <2>1. PowerOf2 = CHOOSE g : g = E(g)
    BY DEF PowerOf2
  <2>. HIDE DEF E
  <2>. QED BY <1>3, <2>1
<1>. DEFINE S == {n \in Nat : PowerOf2[n] \in Nat \ {0}}
<1>5. \A n \in Nat : PowerOf2[n] = IF n = 0 THEN 1 ELSE 2 * PowerOf2[n - 1]
  BY <1>4
<1>6. ASSUME NEW n \in Nat, \A m \in 0 .. n - 1 : m \in S PROVE n \in S
  <2>1. n > 0 => n - 1 \in 0 .. n - 1
    OBVIOUS
  <2>. QED BY <1>5, <1>6, <2>1
<1>7. Nat \subseteq S
  <2>. HIDE DEF S
  <2>. QED BY <1>6, Induct
<1>8. \A n \in Nat : PowerOf2[n] \in Nat \ {0}
  BY <1>7
<1>9. PowerOf2 \in [Nat -> Nat \ {0}]
  <2>1. PowerOf2 = [n \in Nat |-> PowerOf2[n]]
    BY <1>4, <1>5
  <2>. QED BY ONLY <1>8, <2>1
<1>. QED BY <1>5, <1>9

\* The loop of mm_size2ndx ends for every number of granules.
LEMMA Log2Is ==
  /\ Log2 \in [Nat -> Nat]
  /\ \A n \in Nat : n <= 1 => Log2[n] = 0
  /\ \A n \in Nat : n > 1 => n \div 2 \in Nat /\ n \div 2 < n /\ Log2[n] = 1 + Log2[n \div 2]
<1>. DEFINE stop == {0, 1}
            base == [n \in {0, 1} |-> 0]
            pred == [n \in Nat |-> n \div 2]
            F == [x \in Nat \X Nat |-> 1 + x[2]]
            rank == [n \in Nat |-> n]
            E(f) == [n \in Nat |-> IF n <= 1 THEN 0 ELSE 1 + f[n \div 2]]
<1>0. \A n \in Nat : n > 1 => n \div 2 \in Nat /\ n \div 2 < n
  OBVIOUS
<1>1. \E f \in [Nat -> Nat] : Recursion(f, stop, base, pred, F)
  <2>1. rank \in [Nat -> Nat]
    OBVIOUS
  <2>2. \A d \in Nat : d \in stop => base[d] \in Nat
    OBVIOUS
  <2>3. \A d \in Nat : d \notin stop => pred[d] \in Nat /\ rank[pred[d]] < rank[d]
    BY <1>0
  <2>4. \A d \in Nat, v \in Nat : d \notin stop => F[<<d, v>>] \in Nat
    OBVIOUS
  <2>. HIDE DEF stop, base, pred, F, rank
  <2>. QED BY <2>1, <2>2, <2>3, <2>4, RecursionExists
<1>2. PICK f \in [Nat -> Nat] : Recursion(f, stop, base, pred, F)
  BY <1>1
<1>3. f = E(f)
  <2>1. \A n \in Nat : f[n] = IF n <= 1 THEN 0 ELSE 1 + f[n \div 2]
    <3>. SUFFICES ASSUME NEW n \in Nat PROVE f[n] = IF n <= 1 THEN 0 ELSE 1 + f[n \div 2]
      OBVIOUS
    <3>1. f[n] = IF n \in stop THEN base[n] ELSE F[<<n, f[pred[n]]>>]
      BY <1>2 DEF Recursion
    <3>2. n > 1 => n \div 2 \in Nat /\ f[n \div 2] \in Nat /\ pred[n] = n \div 2
      BY <1>0
    <3>3. n > 1 => F[<<n, f[n \div 2]>>] = 1 + f[n \div 2]
      BY <3>2
    <3>. QED BY <3>1, <3>2, <3>3
  <2>. QED BY <2>1
<1>4. Log2 = E(Log2)
  <2>1. Log2 = CHOOSE g : g = E(g)
    BY DEF Log2
  <2>. HIDE DEF E
  <2>. QED BY <1>3, <2>1
<1>. DEFINE S == {n \in Nat : Log2[n] \in Nat}
<1>5. \A n \in Nat : Log2[n] = IF n <= 1 THEN 0 ELSE 1 + Log2[n \div 2]
  BY <1>4
<1>6. ASSUME NEW n \in Nat, \A m \in 0 .. n - 1 : m \in S PROVE n \in S
  <2>1. n > 1 => n \div 2 \in 0 .. n - 1
    BY <1>0
  <2>. QED BY <1>5, <1>6, <2>1
<1>7. Nat \subseteq S
  <2>. HIDE DEF S
  <2>. QED BY <1>6, Induct
<1>8. \A n \in Nat : Log2[n] \in Nat
  BY <1>7
<1>9. Log2 \in [Nat -> Nat]
  <2>1. Log2 = [n \in Nat |-> Log2[n]]
    BY <1>4, <1>5
  <2>. QED BY ONLY <1>8, <2>1
<1>. QED BY <1>0, <1>5, <1>9

\* Halving k times leaves 1 of less than 2 to the k + 1.
LEMMA Log2Bound ==
  ASSUME NEW k \in Nat, NEW n \in Nat, n < PowerOf2[k + 1]
  PROVE  Log2[n] <= k
<1>. DEFINE S == {j \in Nat : \A m \in Nat : m < PowerOf2[j + 1] => Log2[m] <= j}
<1>1. ASSUME NEW j \in Nat, \A i \in 0 .. j - 1 : i \in S PROVE j \in S
  <2>. SUFFICES ASSUME NEW m \in Nat, m < PowerOf2[j + 1] PROVE Log2[m] <= j
    OBVIOUS
  <2>1. PowerOf2[j + 1] = 2 * PowerOf2[j] /\ PowerOf2[j] \in Nat /\ PowerOf2[0] = 1
    BY PowerIs
  <2>2. CASE m <= 1
    BY <2>2, Log2Is
  <2>3. CASE m > 1
    <3>1. m \div 2 \in Nat /\ m \div 2 < PowerOf2[j]
      BY <2>1, <2>3
    <3>2. j > 0
      BY <2>1, <2>3
    <3>3. j - 1 \in S /\ (j - 1) + 1 = j
      <4>. HIDE DEF S
      <4>. QED BY <1>1, <3>2
    <3>4. Log2[m \div 2] <= j - 1
      BY <3>1, <3>3
    <3>5. Log2[m] = 1 + Log2[m \div 2] /\ Log2[m \div 2] \in Nat
      BY <2>3, <3>1, Log2Is
    <3>. QED BY <3>4, <3>5
  <2>. QED BY <2>2, <2>3
<1>2. Nat \subseteq S
  <2>. HIDE DEF S
  <2>. QED BY <1>1, Induct
<1>. QED BY <1>2

\* More granules never have a lower logarithm.
LEMMA Log2Mono ==
  ASSUME NEW n \in Nat, NEW m \in Nat, n <= m
  PROVE  Log2[n] <= Log2[m]
<1>. DEFINE S == {k \in Nat : \A j \in 0 .. k : Log2[j] <= Log2[k]}
<1>1. ASSUME NEW k \in Nat, \A i \in 0 .. k - 1 : i \in S PROVE k \in S
  <2>. SUFFICES ASSUME NEW j \in 0 .. k PROVE Log2[j] <= Log2[k]
    OBVIOUS
  <2>1. Log2[k] \in Nat
    BY Log2Is
  <2>2. CASE j <= 1
    BY <2>1, <2>2, Log2Is
  <2>3. CASE j > 1
    <3>1. j \div 2 \in 0 .. k \div 2 /\ k \div 2 \in 0 .. k - 1
      BY <2>3
    <3>2. k \div 2 \in S
      <4>. HIDE DEF S
      <4>. QED BY <1>1, <3>1
    <3>3. Log2[j \div 2] <= Log2[k \div 2]
      BY <3>1, <3>2
    <3>4. Log2[j] = 1 + Log2[j \div 2] /\ Log2[k] = 1 + Log2[k \div 2]
      BY <2>3, Log2Is
    <3>5. Log2[j \div 2] \in Nat /\ Log2[k \div 2] \in Nat
      BY <3>1, Log2Is
    <3>. QED BY <3>3, <3>4, <3>5
  <2>. QED BY <2>2, <2>3
<1>2. Nat \subseteq S
  <2>. HIDE DEF S
  <2>. QED BY <1>1, Induct
<1>. QED BY <1>2

\* The facts about the constants the proofs use.
LEMMA Constants ==
  /\ MinChunk \in Nat /\ MinChunk > 0 /\ AllocNode \in Nat /\ AllocNode > 0
  /\ NNodes \in Nat /\ NNodes > 0 /\ FreeNode \in Nat /\ FreeNode > 0
  /\ NodeSize \in Nat /\ NodeSize > 0 /\ AllocBit \in Nat /\ AllocNode < AllocBit
  /\ HeapStart \in Nat /\ HeapStart >= NNodes /\ HeapSize \in Nat
  /\ HeapSize >= NodeSize + 2 * AllocNode /\ HeapSize < 2 * AllocBit
  /\ HeapEnd = HeapStart + HeapSize - AllocNode /\ HeapEnd \in Nat
  /\ HeapEnd > HeapStart + AllocNode
  /\ Requests \subseteq Nat /\ MaxCalls \in Nat /\ NULL = -1
  /\ ListHeads = 0 .. NNodes - 1
BY HeapAssumption DEF HeapEnd, NULL, ListHeads

\* Dividing by the granule keeps the order.
LEMMA Dividing ==
  ASSUME NEW a \in Nat, NEW b \in Nat, a <= b
  PROVE  /\ a \div MinChunk \in Nat /\ b \div MinChunk \in Nat
         /\ a \div MinChunk <= b \div MinChunk
         /\ \A p \in Nat : a < MinChunk * p => a \div MinChunk < p
<1>. DEFINE i == a \div MinChunk
            j == b \div MinChunk
<1>1. /\ i \in Int /\ a % MinChunk \in 0 .. MinChunk - 1 /\ a = MinChunk * i + (a % MinChunk)
      /\ j \in Int /\ b % MinChunk \in 0 .. MinChunk - 1 /\ b = MinChunk * j + (b % MinChunk)
  BY Constants, DivMod
<1>. HIDE DEF i, j
<1>2. ASSUME NEW k \in Int, NEW l \in Int, k < l PROVE MinChunk * k + MinChunk <= MinChunk * l
  BY <1>2, TimesOrder, Constants
<1>3. MinChunk * 0 = 0 /\ MinChunk * i \in Int /\ MinChunk * j \in Int
  BY <1>1, Constants
<1>4. ~(i < 0) /\ ~(j < 0)
  <2>1. i < 0 => MinChunk * i + MinChunk <= MinChunk * 0
    BY <1>1, <1>2
  <2>2. j < 0 => MinChunk * j + MinChunk <= MinChunk * 0
    BY <1>1, <1>2
  <2>. QED BY <1>1, <1>3, <2>1, <2>2, Constants
<1>5. ~(j < i)
  <2>1. j < i => MinChunk * j + MinChunk <= MinChunk * i
    BY <1>1, <1>2
  <2>. QED BY <1>1, <1>3, <2>1, Constants
<1>6. ASSUME NEW p \in Nat, a < MinChunk * p PROVE i < p
  <2>1. MinChunk * p \in Int
    BY Constants
  <2>2. p < i => MinChunk * p + MinChunk <= MinChunk * i
    BY <1>1, <1>2
  <2>3. p = i => MinChunk * p = MinChunk * i
    OBVIOUS
  <2>. QED BY <1>1, <1>3, <1>6, <2>1, <2>2, <2>3, Constants
<1>. QED BY <1>1, <1>4, <1>5, <1>6 DEF i, j

\* Every size has a class, and a larger one none before it.
LEMMA SizeClass ==
  ASSUME NEW a \in Nat, NEW b \in Nat, a <= b
  PROVE  Size2Ndx(a) \in ListHeads /\ Size2Ndx(b) \in ListHeads /\ Size2Ndx(a) <= Size2Ndx(b)
<1>0. PowerOf2[NNodes - 1] \in Nat /\ MinChunk \in Nat
  BY PowerIs, Constants
<1>1. ASSUME NEW c \in Nat, c < MaxChunk PROVE Log2[c \div MinChunk] \in ListHeads
  <2>1. c \div MinChunk \in Nat /\ c \div MinChunk < PowerOf2[NNodes - 1]
    BY <1>0, <1>1, Dividing DEF MaxChunk
  <2>2. Log2[c \div MinChunk] \in Nat
    BY <2>1, Log2Is
  <2>3. CASE NNodes = 1
    <3>1. c \div MinChunk = 0
      BY <2>1, <2>3, PowerIs
    <3>. QED BY <3>1, Log2Is, Constants
  <2>4. CASE NNodes > 1
    <3>1. NNodes - 2 \in Nat /\ (NNodes - 2) + 1 = NNodes - 1
      BY <2>4, Constants
    <3>2. Log2[c \div MinChunk] <= NNodes - 2
      BY <2>1, <3>1, Log2Bound
    <3>. QED BY <2>2, <3>2, Constants
  <2>. QED BY <2>3, <2>4, Constants
<1>2. MaxChunk \in Nat
  <2>1. \A p \in Nat : MinChunk * p \in Nat
    BY <1>0
  <2>. QED BY <1>0, <2>1 DEF MaxChunk
<1>3. NNodes - 1 \in ListHeads
  BY Constants
<1>4. a < MaxChunk /\ b < MaxChunk => Log2[a \div MinChunk] <= Log2[b \div MinChunk]
  BY Dividing, Log2Mono
<1>5. \A i \in ListHeads : i <= NNodes - 1
  BY Constants
<1>6. \A i \in ListHeads : i \in Nat
  BY Constants
<1>. QED
  <2>1. CASE b < MaxChunk
    BY <1>1, <1>2, <1>4, <2>1 DEF Size2Ndx
  <2>2. CASE b >= MaxChunk
    <3>1. Size2Ndx(b) = NNodes - 1
      BY <2>2 DEF Size2Ndx
    <3>2. Size2Ndx(a) \in ListHeads
      BY <1>1, <1>2, <1>3 DEF Size2Ndx
    <3>. QED BY <1>3, <1>5, <3>1, <3>2
  <2>. QED BY <1>2, <2>1, <2>2

-----------------------------------------------------------------------------
(* The list of free chunks: links nx and pv, sizes sz.                     *)

\* The class a node stands in: a head its own, a chunk that of its size.
ClassIn(sz, n) == IF n \in ListHeads THEN n ELSE Size2Ndx(sz[n])

\* Node m may stand somewhere before node n: heads in order, chunks behind the head of
\* their class and before the next one, in the order of their sizes.
Ahead(sz, m, n) ==
  /\ m \in ListHeads /\ n \in ListHeads => m < n
  /\ m \in ListHeads /\ n \notin ListHeads => m <= Size2Ndx(sz[n])
  /\ m \notin ListHeads /\ n \in ListHeads => Size2Ndx(sz[m]) < n
  /\ m \notin ListHeads /\ n \notin ListHeads => sz[m] <= sz[n]

\* Node n is followed by pos[n] other nodes, and stands before them rightly.
Placed(nx, sz, pos) ==
  /\ pos \in [DOMAIN nx -> Nat]
  /\ \A n \in DOMAIN nx : nx[n] = NULL => pos[n] = 0
  /\ \A n \in DOMAIN nx : nx[n] # NULL => nx[n] \in DOMAIN nx /\ pos[n] = pos[nx[n]] + 1
  /\ \A m, n \in DOMAIN nx : pos[m] = pos[n] => m = n
  /\ \A m, n \in DOMAIN nx : pos[m] > pos[n] => Ahead(sz, m, n)

\* Forward and backward links are inverse, from the head 0 on.
Linked(nx, pv) ==
  /\ DOMAIN nx = DOMAIN pv /\ ListHeads \subseteq DOMAIN nx /\ DOMAIN nx \subseteq Nat
  /\ \A n \in DOMAIN nx : nx[n] # NULL => nx[n] \in DOMAIN nx /\ pv[nx[n]] = n
  /\ pv[0] = NULL
  /\ \A n \in DOMAIN nx \ {0} : pv[n] \in DOMAIN nx /\ nx[pv[n]] = n

\* Chunks in the list have a size.
Sized(nx, sz) == \A n \in DOMAIN nx \ ListHeads : sz[n] \in Nat /\ sz[n] > 0

\* A list: linked, and in order for some count of the nodes that follow.
IsList(nx, pv, sz) ==
  Linked(nx, pv) /\ Sized(nx, sz) /\ \E pos : Placed(nx, sz, pos)

\* Only the sizes of the chunks in the list matter.
LEMMA SameSizes ==
  ASSUME NEW nx, NEW pv, NEW sz, NEW sz2, IsList(nx, pv, sz),
         \A n \in DOMAIN nx \ ListHeads : sz2[n] = sz[n]
  PROVE  IsList(nx, pv, sz2)
<1>1. PICK pos : Placed(nx, sz, pos)
  BY DEF IsList
<1>2. \A m, n \in DOMAIN nx : Ahead(sz, m, n) <=> Ahead(sz2, m, n)
  BY DEF Ahead
<1>3. Placed(nx, sz2, pos)
  BY <1>1, <1>2 DEF Placed
<1>. QED BY <1>3 DEF IsList, Sized

\* Next to each other are nodes of one class in the order of their sizes, or the last
\* node of a class and the head of the next one.
LEMMA ListOrder ==
  ASSUME NEW nx, NEW pv, NEW sz, IsList(nx, pv, sz),
         NEW n \in DOMAIN nx, nx[n] # NULL
  PROVE  /\ nx[n] \in DOMAIN nx
         /\ ClassIn(sz, n) \in ListHeads
         /\ nx[n] \in ListHeads => nx[n] = ClassIn(sz, n) + 1
         /\ nx[n] \notin ListHeads =>
              /\ ClassIn(sz, nx[n]) = ClassIn(sz, n)
              /\ n \notin ListHeads => sz[n] <= sz[nx[n]]
<1>. DEFINE m == nx[n]
<1>1. PICK pos : Placed(nx, sz, pos)
  BY DEF IsList
<1>2. m = nx[n] /\ m \in DOMAIN nx
      /\ pos[n] = pos[m] + 1 /\ pos[m] \in Nat /\ pos[n] \in Nat
  BY <1>1 DEF Placed
<1>. HIDE DEF m
<1>3. Ahead(sz, n, m)
  BY <1>1, <1>2 DEF Placed
<1>4. ASSUME NEW i \in ListHeads, i # n, i # m
      PROVE  (Ahead(sz, i, n) /\ Ahead(sz, i, m)) \/ (Ahead(sz, n, i) /\ Ahead(sz, m, i))
  <2>1. i \in DOMAIN nx
    BY DEF IsList, Linked
  <2>2. pos[i] \in Nat /\ pos[i] # pos[n] /\ pos[i] # pos[m]
    BY <1>1, <1>2, <1>4, <2>1 DEF Placed
  <2>3. (pos[i] > pos[n] /\ pos[i] > pos[m]) \/ (pos[n] > pos[i] /\ pos[m] > pos[i])
    BY <1>2, <2>2
  <2>. QED BY <1>1, <1>2, <2>1, <2>3 DEF Placed
<1>5. \A k \in DOMAIN nx \ ListHeads : sz[k] \in Nat /\ Size2Ndx(sz[k]) \in ListHeads
  BY SizeClass DEF IsList, Sized
<1>6. \A i \in ListHeads : i \in Nat
  BY Constants
<1>7. CASE m \in ListHeads
  <2>1. ClassIn(sz, n) \in ListHeads /\ ClassIn(sz, n) < m
    BY <1>3, <1>5, <1>7 DEF Ahead, ClassIn
  <2>2. CASE ClassIn(sz, n) + 1 # m
    <3>. DEFINE i == ClassIn(sz, n) + 1
    <3>1. i \in ListHeads /\ i < m
      BY <1>7, <2>1, <2>2, Constants
    <3>2. i # n
      BY <1>6, <2>1, <3>1 DEF ClassIn
    <3>3. ~Ahead(sz, i, n)
      BY <1>6, <2>1, <3>1 DEF Ahead, ClassIn
    <3>4. ~Ahead(sz, m, i)
      BY <1>6, <1>7, <3>1 DEF Ahead
    <3>5. i # m
      BY <1>6, <1>7, <3>1
    <3>. QED BY <1>4, <3>1, <3>2, <3>3, <3>4, <3>5
  <2>. QED BY <1>2, <1>7, <2>1, <2>2
<1>8. CASE m \notin ListHeads
  <2>. DEFINE i == Size2Ndx(sz[m])
  <2>1. i \in ListHeads /\ ClassIn(sz, m) = i
    BY <1>2, <1>5, <1>8 DEF ClassIn
  <2>2. ClassIn(sz, n) \in ListHeads /\ ClassIn(sz, n) <= i
    BY <1>3, <1>5, <1>8, <1>2, SizeClass DEF Ahead, ClassIn
  <2>3. CASE ClassIn(sz, n) < i
    <3>1. i # n /\ i # m
      BY <1>8, <2>1, <2>3, <1>6 DEF ClassIn
    <3>2. ~Ahead(sz, i, n)
      BY <1>6, <2>1, <2>2, <2>3 DEF Ahead, ClassIn
    <3>3. ~Ahead(sz, m, i)
      BY <1>6, <1>8, <2>1 DEF Ahead
    <3>. QED BY <1>4, <2>1, <3>1, <3>2, <3>3
  <2>4. n \notin ListHeads => sz[n] <= sz[m]
    BY <1>3, <1>8 DEF Ahead
  <2>5. ~(ClassIn(sz, n) < i) => ClassIn(sz, n) = i
    BY <1>6, <2>1, <2>2
  <2>. QED BY <1>2, <1>8, <2>1, <2>2, <2>3, <2>4, <2>5
<1>. QED BY <1>7, <1>8 DEF m

\* A chunk is taken out of the list.
LEMMA UnlinkList ==
  ASSUME NEW nx, NEW pv, NEW sz, IsList(nx, pv, sz), NEW c \in DOMAIN nx \ ListHeads
  PROVE  IsList([n \in DOMAIN nx \ {c} |-> IF n = pv[c] THEN nx[c] ELSE nx[n]],
                [n \in DOMAIN pv \ {c} |-> IF n = nx[c] THEN pv[c] ELSE pv[n]], sz)
<1>. DEFINE D == DOMAIN nx \ {c}
            p == pv[c]
            q == nx[c]
            nx2 == [n \in D |-> IF n = p THEN q ELSE nx[n]]
            pv2 == [n \in D |-> IF n = q THEN p ELSE pv[n]]
<1>1. PICK pos : Placed(nx, sz, pos)
  BY DEF IsList
<1>2. /\ DOMAIN nx = DOMAIN pv /\ ListHeads \subseteq D /\ D \subseteq Nat /\ NULL \notin D
      /\ 0 \in ListHeads /\ c # 0 /\ c # NULL
  BY Constants DEF IsList, Linked
<1>3. /\ \A n \in DOMAIN nx : nx[n] # NULL => nx[n] \in DOMAIN nx /\ pv[nx[n]] = n
      /\ pv[0] = NULL
      /\ \A n \in DOMAIN nx \ {0} : pv[n] \in DOMAIN nx /\ nx[pv[n]] = n
  BY DEF IsList, Linked
<1>4. /\ pos \in [DOMAIN nx -> Nat]
      /\ \A n \in DOMAIN nx : nx[n] = NULL => pos[n] = 0
      /\ \A n \in DOMAIN nx : nx[n] # NULL => nx[n] \in DOMAIN nx /\ pos[n] = pos[nx[n]] + 1
      /\ \A m, n \in DOMAIN nx : pos[m] = pos[n] => m = n
  BY <1>1 DEF Placed
<1>5. p \in D /\ nx[p] = c /\ (q # NULL => q \in D /\ pv[q] = c)
  BY <1>2, <1>3, <1>4
<1>. HIDE DEF p, q
<1>6. Linked(nx2, pv2)
  <2>1. \A n \in D : nx2[n] # NULL => nx2[n] \in D /\ pv2[nx2[n]] = n
    <3>. SUFFICES ASSUME NEW n \in D, nx2[n] # NULL
                  PROVE  nx2[n] \in D /\ pv2[nx2[n]] = n
      OBVIOUS
    <3>1. CASE n = p
      BY <1>5, <3>1
    <3>2. CASE n # p
      <4>1. nx[n] # NULL /\ nx2[n] = nx[n] /\ nx[n] \in DOMAIN nx /\ pv[nx[n]] = n
        BY <1>3, <3>2
      <4>2. nx[n] # c
        BY <1>5, <3>2, <4>1 DEF p
      <4>3. nx[n] # q
        BY <1>5, <4>1
      <4>. QED BY <4>1, <4>2, <4>3
    <3>. QED BY <3>1, <3>2
  <2>2. pv2[0] = NULL
    <3>1. 0 # q
      BY <1>2, <1>3, <1>5
    <3>. QED BY <1>2, <1>3, <3>1
  <2>3. \A n \in D \ {0} : pv2[n] \in D /\ nx2[pv2[n]] = n
    <3>. SUFFICES ASSUME NEW n \in D \ {0} PROVE pv2[n] \in D /\ nx2[pv2[n]] = n
      OBVIOUS
    <3>1. CASE n = q
      BY <1>5, <3>1
    <3>2. CASE n # q
      <4>1. pv2[n] = pv[n] /\ pv[n] \in DOMAIN nx /\ nx[pv[n]] = n
        BY <1>3, <3>2
      <4>2. pv[n] # c
        BY <3>2, <4>1 DEF q
      <4>3. pv[n] # p
        BY <1>5, <4>1
      <4>. QED BY <4>1, <4>2, <4>3
    <3>. QED BY <3>1, <3>2
  <2>. QED BY <1>2, <2>1, <2>2, <2>3 DEF Linked
<1>7. Sized(nx2, sz)
  BY DEF IsList, Sized
<1>. DEFINE pos2 == [n \in D |-> IF pos[n] > pos[c] THEN pos[n] - 1 ELSE pos[n]]
<1>8. \A n \in D : pos[n] \in Nat /\ pos[c] \in Nat /\ pos[n] # pos[c]
  BY <1>4
<1>9. \A m, n \in D : /\ pos2[m] = pos2[n] => pos[m] = pos[n]
                      /\ pos2[m] > pos2[n] => pos[m] > pos[n]
  BY <1>8
<1>10. pos2 \in [D -> Nat]
  BY <1>8
<1>11. ASSUME NEW n \in D PROVE /\ nx2[n] = NULL => pos2[n] = 0
                                /\ nx2[n] # NULL => pos2[n] = pos2[nx2[n]] + 1
  <2>1. CASE n = p
    <3>1. pos[p] = pos[c] + 1 /\ pos2[n] = pos[c]
      BY <1>2, <1>4, <1>5, <1>8, <2>1
    <3>2. q = NULL => pos[c] = 0
      BY <1>4 DEF q
    <3>3. q # NULL => pos[c] = pos[q] + 1 /\ pos2[q] = pos[q]
      BY <1>4, <1>5, <1>8 DEF q
    <3>. QED BY <2>1, <3>1, <3>2, <3>3
  <2>2. CASE n # p
    <3>1. nx2[n] = nx[n]
      BY <2>2
    <3>2. nx[n] = NULL => pos[n] = 0
      BY <1>4
    <3>3. nx[n] # NULL => nx[n] \in D /\ pos[n] = pos[nx[n]] + 1
      BY <1>3, <1>4, <2>2 DEF p
    <3>. QED BY <1>8, <3>1, <3>2, <3>3
  <2>. QED BY <2>1, <2>2
<1>12. \A m, n \in D : pos[m] > pos[n] => Ahead(sz, m, n)
  BY <1>1 DEF Placed
<1>. HIDE DEF pos2
<1>13. Placed(nx2, sz, pos2)
  <2>1. \A n \in D : nx2[n] # NULL => nx2[n] \in D
    BY <1>6 DEF Linked
  <2>. HIDE DEF D, nx2
  <2>2. DOMAIN nx2 = D
    BY DEF nx2
  <2>. QED BY <1>4, <1>9, <1>10, <1>11, <1>12, <2>1, <2>2 DEF Placed, D
<1>14. IsList(nx2, pv2, sz)
  BY <1>6, <1>7, <1>13 DEF IsList
<1>. QED BY <1>2, <1>14 DEF p, q

\* A chunk may be listed behind node p.
MayFollow(nx, sz, p, c) ==
  /\ p \in DOMAIN nx /\ ClassIn(sz, p) = Size2Ndx(sz[c])
  /\ p \notin ListHeads => sz[p] <= sz[c]
  /\ nx[p] # NULL /\ nx[p] \notin ListHeads => sz[c] <= sz[nx[p]]

\* A chunk is put behind such a node.
LEMMA AddList ==
  ASSUME NEW nx, NEW pv, NEW sz, IsList(nx, pv, sz),
         NEW c \in Nat, c \notin DOMAIN nx, sz[c] \in Nat, sz[c] > 0,
         NEW p, MayFollow(nx, sz, p, c)
  PROVE  IsList([n \in DOMAIN nx \cup {c} |-> CASE n = p -> c [] n = c -> nx[p]
                                              [] OTHER -> nx[n]],
                [n \in DOMAIN pv \cup {c} |-> CASE n = nx[p] -> c [] n = c -> p
                                              [] OTHER -> pv[n]], sz)
<1>. DEFINE D == DOMAIN nx
            E == D \cup {c}
            q == nx[p]
            nx2 == [n \in E |-> CASE n = p -> c [] n = c -> q [] OTHER -> nx[n]]
            pv2 == [n \in E |-> CASE n = q -> c [] n = c -> p [] OTHER -> pv[n]]
<1>1. PICK pos : Placed(nx, sz, pos)
  BY DEF IsList
<1>2. /\ DOMAIN pv = D /\ ListHeads \subseteq D /\ D \subseteq Nat /\ NULL \notin E
      /\ 0 \in ListHeads /\ c # 0 /\ c \notin ListHeads
  BY Constants DEF IsList, Linked
<1>3. /\ \A n \in D : nx[n] # NULL => nx[n] \in D /\ pv[nx[n]] = n
      /\ pv[0] = NULL
      /\ \A n \in D \ {0} : pv[n] \in D /\ nx[pv[n]] = n
  BY DEF IsList, Linked
<1>4. /\ pos \in [D -> Nat]
      /\ \A n \in D : nx[n] = NULL => pos[n] = 0
      /\ \A n \in D : nx[n] # NULL => nx[n] \in D /\ pos[n] = pos[nx[n]] + 1
      /\ \A m, n \in D : pos[m] = pos[n] => m = n
      /\ \A m, n \in D : pos[m] > pos[n] => Ahead(sz, m, n)
  BY <1>1 DEF Placed
<1>5. /\ p \in D /\ p # c /\ q # c /\ nx[p] = q /\ (q # NULL => q \in D /\ pv[q] = p)
      /\ c \notin D
  BY <1>2, <1>3 DEF MayFollow
<1>6. /\ nx2[p] = c /\ nx2[c] = q /\ \A n \in D : n # p => nx2[n] = nx[n]
      /\ pv2[c] = p /\ (q # NULL => pv2[q] = c) /\ \A n \in D : n # q => pv2[n] = pv[n]
      /\ DOMAIN nx2 = E /\ DOMAIN pv2 = E
  BY <1>2, <1>5
<1>7. nx2 = [n \in DOMAIN nx \cup {c} |-> CASE n = p -> c [] n = c -> nx[p] [] OTHER -> nx[n]]
  OBVIOUS
<1>8. pv2 = [n \in DOMAIN pv \cup {c} |-> CASE n = nx[p] -> c [] n = c -> p [] OTHER -> pv[n]]
  BY <1>2
<1>. HIDE DEF q, nx2, pv2, D
<1>9. Linked(nx2, pv2)
  <2>1. \A n \in E : nx2[n] # NULL => nx2[n] \in E /\ pv2[nx2[n]] = n
    <3>. SUFFICES ASSUME NEW n \in E, nx2[n] # NULL
                  PROVE  nx2[n] \in E /\ pv2[nx2[n]] = n
      OBVIOUS
    <3>1. CASE n = p \/ n = c
      BY <1>5, <1>6, <3>1
    <3>2. CASE n # p /\ n # c
      <4>1. n \in D /\ nx2[n] = nx[n] /\ nx[n] \in D /\ pv[nx[n]] = n
        BY <1>3, <1>6, <3>2
      <4>2. nx[n] # q
        BY <1>5, <3>2, <4>1
      <4>. QED BY <1>6, <4>1, <4>2
    <3>. QED BY <3>1, <3>2
  <2>2. pv2[0] = NULL
    BY <1>2, <1>3, <1>5, <1>6
  <2>3. \A n \in E \ {0} : pv2[n] \in E /\ nx2[pv2[n]] = n
    <3>. SUFFICES ASSUME NEW n \in E \ {0} PROVE pv2[n] \in E /\ nx2[pv2[n]] = n
      OBVIOUS
    <3>1. CASE n = q \/ n = c
      BY <1>2, <1>5, <1>6, <3>1
    <3>2. CASE n # q /\ n # c
      <4>1. n \in D /\ pv2[n] = pv[n] /\ pv[n] \in D /\ nx[pv[n]] = n
        BY <1>3, <1>6, <3>2
      <4>2. pv[n] # p
        BY <1>5, <3>2, <4>1
      <4>. QED BY <1>6, <4>1, <4>2
    <3>. QED BY <3>1, <3>2
  <2>. QED BY <1>2, <1>6, <2>1, <2>2, <2>3 DEF Linked
<1>10. Sized(nx2, sz)
  BY <1>6 DEF IsList, Sized, D
<1>. DEFINE pos2 == [n \in E |-> IF n = c THEN pos[p]
                                 ELSE IF pos[n] >= pos[p] THEN pos[n] + 1 ELSE pos[n]]
<1>11. /\ pos[p] \in Nat /\ pos2[c] = pos[p] /\ \A n \in D : pos[n] \in Nat
       /\ \A n \in D : n # c /\ pos2[n] = IF pos[n] >= pos[p] THEN pos[n] + 1 ELSE pos[n]
  BY <1>4, <1>5
<1>12. pos2 \in [E -> Nat]
  BY <1>11
<1>. HIDE DEF pos2
<1>13. ASSUME NEW n \in E PROVE /\ nx2[n] = NULL => pos2[n] = 0
                                /\ nx2[n] # NULL => pos2[n] = pos2[nx2[n]] + 1
  <2>1. CASE n = p
    <3>1. pos2[n] = pos[p] + 1 /\ nx2[n] = c
      BY <1>5, <1>6, <1>11, <2>1
    <3>. QED BY <1>2, <1>11, <3>1
  <2>2. CASE n = c
    <3>1. pos2[n] = pos[p] /\ nx2[n] = q
      BY <1>6, <1>11, <2>2
    <3>2. q = NULL => pos[p] = 0
      BY <1>4, <1>5
    <3>3. q # NULL => q \in D /\ pos[p] = pos[q] + 1
      BY <1>4, <1>5
    <3>4. q # NULL => pos2[q] = pos[q]
      BY <1>11, <3>3
    <3>. QED BY <3>1, <3>2, <3>3, <3>4
  <2>3. CASE n # p /\ n # c
    <3>1. n \in D /\ nx2[n] = nx[n]
      BY <1>6, <2>3
    <3>2. pos[n] # pos[p]
      BY <1>4, <1>5, <2>3, <3>1
    <3>3. nx[n] = NULL => pos2[n] = 0
      BY <1>4, <1>11, <3>1, <3>2
    <3>4. nx[n] # NULL => nx[n] \in D /\ pos[n] = pos[nx[n]] + 1
      BY <1>4, <3>1
    <3>. QED BY <1>11, <3>1, <3>2, <3>3, <3>4
  <2>. QED BY <2>1, <2>2, <2>3
<1>14. \A m, n \in E : pos2[m] = pos2[n] => m = n
  <2>. SUFFICES ASSUME NEW m \in E, NEW n \in E, pos2[m] = pos2[n] PROVE m = n
    OBVIOUS
  <2>1. m \in D /\ n \in D => pos[m] = pos[n]
    BY <1>11
  <2>2. m = c /\ n \in D => FALSE
    BY <1>11
  <2>3. n = c /\ m \in D => FALSE
    BY <1>11
  <2>. QED BY <1>4, <2>1, <2>2, <2>3
<1>15. \A n \in D \ ListHeads : sz[n] \in Nat /\ Size2Ndx(sz[n]) \in ListHeads
  BY SizeClass DEF IsList, Sized, D
<1>16. Size2Ndx(sz[c]) \in ListHeads /\ \A i \in ListHeads : i \in Nat
  BY SizeClass, Constants
<1>17. /\ p \in ListHeads => p = Size2Ndx(sz[c])
       /\ p \notin ListHeads => Size2Ndx(sz[p]) = Size2Ndx(sz[c]) /\ sz[p] <= sz[c]
       /\ q # NULL /\ q \notin ListHeads => sz[c] <= sz[q]
  BY <1>5 DEF MayFollow, ClassIn
<1>18. \A n \in D \ ListHeads : /\ Size2Ndx(sz[n]) < Size2Ndx(sz[c]) => sz[n] <= sz[c]
                                /\ Size2Ndx(sz[c]) < Size2Ndx(sz[n]) => sz[c] <= sz[n]
  <2>. SUFFICES ASSUME NEW n \in D \ ListHeads
                PROVE  /\ Size2Ndx(sz[n]) < Size2Ndx(sz[c]) => sz[n] <= sz[c]
                       /\ Size2Ndx(sz[c]) < Size2Ndx(sz[n]) => sz[c] <= sz[n]
    OBVIOUS
  <2>1. sz[n] <= sz[c] => Size2Ndx(sz[n]) <= Size2Ndx(sz[c])
    BY <1>15, SizeClass
  <2>2. sz[c] <= sz[n] => Size2Ndx(sz[c]) <= Size2Ndx(sz[n])
    BY <1>15, SizeClass
  <2>. QED BY <1>15, <1>16, <2>1, <2>2
<1>19. ASSUME NEW n \in D, pos2[c] > pos2[n] PROVE Ahead(sz, c, n)
  <2>1. pos[p] > pos[n]
    BY <1>11, <1>19
  <2>2. Ahead(sz, p, n)
    BY <1>4, <1>5, <2>1
  <2>3. q # NULL /\ q \in D /\ pos[p] = pos[q] + 1
    BY <1>4, <1>5, <1>11, <2>1
  <2>4. q = n \/ Ahead(sz, q, n)
    <3>1. pos[q] >= pos[n]
      BY <1>11, <2>1, <2>3
    <3>2. pos[q] = pos[n] \/ pos[q] > pos[n]
      BY <1>11, <2>3, <3>1
    <3>. QED BY <1>4, <2>3, <3>2
  <2>5. n \in ListHeads => Size2Ndx(sz[c]) < n
    BY <1>17, <2>2 DEF Ahead
  <2>6. CASE n \notin ListHeads
    <3>1. CASE q \notin ListHeads
      BY <1>2, <1>15, <1>17, <2>3, <2>4, <2>6, <3>1 DEF Ahead
    <3>2. CASE q \in ListHeads
      <4>1. q = ClassIn(sz, p) + 1
        BY <1>5, <2>3, <3>2, ListOrder DEF D
      <4>2. q = Size2Ndx(sz[c]) + 1
        BY <4>1 DEF MayFollow
      <4>3. q <= Size2Ndx(sz[n])
        BY <2>4, <2>6, <3>2 DEF Ahead
      <4>4. Size2Ndx(sz[c]) < Size2Ndx(sz[n])
        BY <1>15, <1>16, <2>6, <4>2, <4>3
      <4>5. sz[c] <= sz[n]
        BY <1>18, <2>6, <4>4
      <4>. QED BY <1>2, <2>6, <4>5 DEF Ahead
    <3>. QED BY <3>1, <3>2
  <2>. QED BY <1>2, <2>5, <2>6 DEF Ahead
<1>20. ASSUME NEW m \in D, pos2[m] > pos2[c] PROVE Ahead(sz, m, c)
  <2>1. pos[m] = pos[p] \/ pos[m] > pos[p]
    BY <1>11, <1>20
  <2>2. m = p \/ Ahead(sz, m, p)
    BY <1>4, <1>5, <2>1
  <2>3. CASE m \in ListHeads
    <3>1. m <= Size2Ndx(sz[c])
      BY <1>5, <1>16, <1>17, <2>2, <2>3 DEF Ahead
    <3>. QED BY <1>2, <2>3, <3>1 DEF Ahead
  <2>4. CASE m \notin ListHeads
    <3>1. CASE p \in ListHeads
      <4>1. Size2Ndx(sz[m]) < Size2Ndx(sz[c])
        BY <1>17, <2>2, <2>4, <3>1 DEF Ahead
      <4>2. sz[m] <= sz[c]
        BY <1>18, <2>4, <4>1
      <4>. QED BY <1>2, <2>4, <4>2 DEF Ahead
    <3>2. CASE p \notin ListHeads
      BY <1>2, <1>5, <1>15, <1>17, <2>2, <2>4, <3>2 DEF Ahead
    <3>. QED BY <3>1, <3>2
  <2>. QED BY <2>3, <2>4
<1>21. \A m, n \in E : pos2[m] > pos2[n] => Ahead(sz, m, n)
  <2>. SUFFICES ASSUME NEW m \in E, NEW n \in E, pos2[m] > pos2[n] PROVE Ahead(sz, m, n)
    OBVIOUS
  <2>1. CASE m \in D /\ n \in D
    <3>1. pos[m] > pos[n]
      BY <1>11, <2>1
    <3>. QED BY <1>4, <2>1, <3>1
  <2>2. CASE m = c /\ n = c
    BY <1>11, <2>2
  <2>. QED BY <1>19, <1>20, <2>1, <2>2
<1>22. Placed(nx2, sz, pos2)
  <2>1. \A n \in E : nx2[n] # NULL => nx2[n] \in E
    BY <1>6, <1>9 DEF Linked
  <2>. HIDE DEF E
  <2>. QED BY <1>6, <1>12, <1>13, <1>14, <1>21, <2>1 DEF Placed
<1>23. IsList(nx2, pv2, sz)
  BY <1>9, <1>10, <1>22 DEF IsList
<1>. QED BY <1>7, <1>8, <1>23

-----------------------------------------------------------------------------
(* The walks along the list.                                               *)

\* The same of a heap h.
Sizes(h) == [n \in Chunks(h) |-> h.hdr[n].size]
Listed(h) == DOMAIN h.next \ ListHeads
ListOf(h) == IsList(h.next, h.prev, Sizes(h)) /\ Listed(h) \subseteq Chunks(h)

\* Heads are the nodes of size 0.
LEMMA NodeIs ==
  ASSUME NEW h, ListOf(h), NEW n \in DOMAIN h.next
  PROVE  /\ n \in ListHeads => NodeOf(h, n) = 0
         /\ n \notin ListHeads => /\ NodeOf(h, n) = h.hdr[n].size /\ h.hdr[n].size = Sizes(h)[n]
                                  /\ NodeOf(h, n) \in Nat /\ NodeOf(h, n) > 0
         /\ NodeOf(h, n) \in Nat /\ (NodeOf(h, n) = 0 <=> n \in ListHeads)
BY DEF ListOf, NodeOf, Listed, Sizes, IsList, Sized

\* A chunk that is not in the list is put behind a node it may follow.
LEMMA PredecessorIs ==
  ASSUME NEW h, ListOf(h), NEW c \in Chunks(h), h.hdr[c].size \in Nat
  PROVE  MayFollow(h.next, Sizes(h), Predecessor(h, c), c)
<1>. DEFINE D == DOMAIN h.next
            nx == h.next
            size == h.hdr[c].size
            sz == Sizes(h)
            Goes(p) == nx[p] # NULL /\ NodeOf(h, nx[p]) # 0 /\ NodeOf(h, nx[p]) < size
            stop == {p \in D : ~Goes(p)}
            base == [p \in D |-> p]
            F == [x \in D \X D |-> x[2]]
            s == Size2Ndx(size)
            Step(w) == [p \in D |-> IF Goes(p) THEN w[nx[p]] ELSE p]
            walk == CHOOSE w : w = Step(w)
<1>1. PICK pos : Placed(nx, sz, pos)
  BY DEF ListOf, IsList
<1>2. Descends(pos, D, stop, nx)
  BY <1>1 DEF Placed, Descends
<1>3. \E w \in [D -> D] : Recursion(w, stop, base, nx, F)
  <2>1. \A d \in D : d \in stop => base[d] \in D
    OBVIOUS
  <2>2. \A d \in D, v \in D : d \notin stop => F[<<d, v>>] \in D
    OBVIOUS
  <2>. HIDE DEF stop, base, F, D, nx
  <2>. QED BY <1>2, <2>1, <2>2, RecursionExists DEF Descends
<1>4. PICK w \in [D -> D] : Recursion(w, stop, base, nx, F)
  BY <1>3
<1>5. w = Step(w)
  <2>1. \A p \in D : w[p] = IF Goes(p) THEN w[nx[p]] ELSE p
    <3>. SUFFICES ASSUME NEW p \in D PROVE w[p] = IF Goes(p) THEN w[nx[p]] ELSE p
      OBVIOUS
    <3>1. w[p] = IF p \in stop THEN base[p] ELSE F[<<p, w[nx[p]]>>]
      BY <1>4 DEF Recursion
    <3>2. p \notin stop => w[nx[p]] \in D
      BY <1>2, <1>4 DEF Descends
    <3>3. p \notin stop => F[<<p, w[nx[p]]>>] = w[nx[p]]
      BY <3>2
    <3>. HIDE DEF F, nx, Goes
    <3>. QED BY <3>1, <3>3
  <2>. HIDE DEF Goes, nx
  <2>. QED BY <2>1
<1>6. walk = Step(walk)
  <2>. HIDE DEF Step
  <2>. QED BY <1>5
<1>7. Predecessor(h, c) = walk[s]
  BY DEF Predecessor
<1>. HIDE DEF walk
<1>8. EndsWalk(walk, D, stop, nx)
  <2>1. \A d \in D : d \in stop <=> ~Goes(d)
    OBVIOUS
  <2>. HIDE DEF Goes, nx, stop
  <2>. QED BY <1>6, <2>1 DEF EndsWalk
<1>9. sz[c] = size
  BY DEF Sizes
<1>10. s \in ListHeads /\ s \in D
  BY SizeClass DEF ListOf, IsList, Linked
<1>. DEFINE K == {p \in D : ClassIn(sz, p) = s /\ (p \notin ListHeads => sz[p] <= size)}
<1>11. s \in K
  BY <1>10 DEF ClassIn
<1>12. ASSUME NEW d \in K, d \notin stop PROVE nx[d] \in K
  <2>1. nx[d] \in D /\ nx[d] # NULL /\ NodeOf(h, nx[d]) # 0 /\ NodeOf(h, nx[d]) < size
    BY <1>2, <1>12 DEF Descends
  <2>2. nx[d] \notin ListHeads /\ sz[nx[d]] < size /\ sz[nx[d]] \in Nat
    BY <2>1, NodeIs
  <2>3. ClassIn(sz, nx[d]) = ClassIn(sz, d)
    BY <2>1, <2>2, ListOrder DEF ListOf
  <2>. QED BY <2>1, <2>2, <2>3
<1>13. walk[s] \in K /\ walk[s] \in stop
  <2>1. StaysIn(K, D, stop, nx)
    BY <1>12 DEF StaysIn
  <2>. HIDE DEF K, stop, D, nx, s
  <2>. QED BY <1>2, <1>8, <1>11, <2>1, WalkEnds
<1>14. ASSUME nx[walk[s]] # NULL, nx[walk[s]] \notin ListHeads PROVE size <= sz[nx[walk[s]]]
  <2>1. nx[walk[s]] \in D
    BY <1>13, <1>14 DEF ListOf, IsList, Linked
  <2>2. /\ NodeOf(h, nx[walk[s]]) = sz[nx[walk[s]]] /\ NodeOf(h, nx[walk[s]]) # 0
        /\ NodeOf(h, nx[walk[s]]) \in Nat
    BY <1>14, <2>1, NodeIs
  <2>3. ~Goes(walk[s])
    BY <1>13
  <2>4. ~(NodeOf(h, nx[walk[s]]) < size)
    <3>. HIDE DEF nx, s, size
    <3>. QED BY <1>14, <2>2, <2>3
  <2>5. size \in Nat
    OBVIOUS
  <2>. HIDE DEF nx, s, size, sz
  <2>. QED BY ONLY <2>2, <2>4, <2>5
<1>. QED BY <1>7, <1>9, <1>13, <1>14 DEF MayFollow

\* mm_malloc finds a shortest one of the chunks that are long enough.
LEMMA FirstFitIs ==
  ASSUME NEW h, ListOf(h), NEW size \in Nat, size > 0
  PROVE  LET n == FirstFit(h, size)
         IN /\ n = NULL => \A d \in Listed(h) : h.hdr[d].size < size
            /\ n # NULL => /\ n \in Listed(h) /\ h.hdr[n].size >= size
                           /\ \A d \in Listed(h) : h.hdr[d].size >= size =>
                                 h.hdr[n].size <= h.hdr[d].size
<1>. DEFINE C == DOMAIN h.next
            D == C \cup {NULL}
            nx == h.next
            sz == Sizes(h)
            Ends(n) == n = NULL \/ NodeOf(h, n) >= size
            stop == {n \in D : Ends(n)}
            base == [n \in D |-> n]
            F == [x \in D \X D |-> x[2]]
            s == Size2Ndx(size)
            Step(w) == [n \in D |-> IF Ends(n) THEN n ELSE w[nx[n]]]
            search == CHOOSE w : w = Step(w)
            Fit == {d \in Listed(h) : h.hdr[d].size >= size}
<1>1. PICK pos : Placed(nx, sz, pos)
  BY DEF ListOf, IsList
<1>. DEFINE rank == [n \in D |-> IF n = NULL THEN 0 ELSE pos[n] + 1]
<1>0. NULL \notin C /\ Listed(h) \subseteq C
  BY Constants DEF ListOf, IsList, Linked, Listed
<1>2. /\ pos \in [C -> Nat] /\ \A n \in C : nx[n] = NULL => pos[n] = 0
      /\ \A n \in C : nx[n] # NULL => nx[n] \in C /\ pos[n] = pos[nx[n]] + 1
      /\ \A m, n \in C : pos[m] = pos[n] => m = n
      /\ \A m, n \in C : pos[m] > pos[n] => Ahead(sz, m, n)
  BY <1>1 DEF Placed
<1>3. Descends(rank, D, stop, nx)
  <2>1. rank \in [D -> Nat]
    BY <1>2
  <2>2. ASSUME NEW d \in D, d \notin stop PROVE nx[d] \in D /\ rank[nx[d]] < rank[d]
    <3>1. d \in C /\ d # NULL /\ pos[d] \in Nat
      BY <1>2, <2>2
    <3>2. nx[d] = NULL => nx[d] \in D /\ rank[nx[d]] < rank[d]
      BY <3>1
    <3>3. nx[d] # NULL => nx[d] \in D /\ pos[nx[d]] \in Nat /\ rank[nx[d]] < rank[d]
      BY <1>2, <3>1
    <3>. QED BY <3>2, <3>3
  <2>. QED BY <2>1, <2>2 DEF Descends
<1>. HIDE DEF rank
<1>4. \E w \in [D -> D] : Recursion(w, stop, base, nx, F)
  <2>1. \A d \in D : d \in stop => base[d] \in D
    OBVIOUS
  <2>2. \A d \in D, v \in D : d \notin stop => F[<<d, v>>] \in D
    OBVIOUS
  <2>. HIDE DEF stop, base, F, D, nx
  <2>. QED BY <1>3, <2>1, <2>2, RecursionExists DEF Descends
<1>5. PICK w \in [D -> D] : Recursion(w, stop, base, nx, F)
  BY <1>4
<1>6. w = Step(w)
  <2>1. \A n \in D : w[n] = IF Ends(n) THEN n ELSE w[nx[n]]
    <3>. SUFFICES ASSUME NEW n \in D PROVE w[n] = IF Ends(n) THEN n ELSE w[nx[n]]
      OBVIOUS
    <3>1. w[n] = IF n \in stop THEN base[n] ELSE F[<<n, w[nx[n]]>>]
      BY <1>5 DEF Recursion
    <3>2. n \notin stop => w[nx[n]] \in D
      BY <1>3, <1>5 DEF Descends
    <3>3. n \notin stop => F[<<n, w[nx[n]]>>] = w[nx[n]]
      BY <3>2
    <3>. HIDE DEF F, nx, Ends
    <3>. QED BY <3>1, <3>3
  <2>. HIDE DEF Ends, nx, D
  <2>. QED BY <2>1
<1>7. search = Step(search)
  <2>. HIDE DEF Step
  <2>. QED BY <1>6
<1>8. FirstFit(h, size) = search[nx[s]]
  BY DEF FirstFit
<1>. HIDE DEF search
<1>9. EndsWalk(search, D, stop, nx)
  <2>1. \A d \in D : d \in stop <=> Ends(d)
    OBVIOUS
  <2>. HIDE DEF Ends, nx, stop, D
  <2>. QED BY <1>7, <2>1 DEF EndsWalk
<1>10. s \in ListHeads /\ s \in C
  BY SizeClass DEF ListOf, IsList, Linked
<1>11. \A d \in Fit : d \in C /\ d \notin ListHeads /\ sz[d] \in Nat /\ sz[d] >= size
                      /\ sz[d] = h.hdr[d].size
  BY NodeIs DEF Listed
<1>. DEFINE K == {n \in D : \A d \in Fit : n # NULL /\ pos[d] <= pos[n]}
<1>12. nx[s] \in K
  <2>1. nx[s] \in D
    BY <1>2, <1>10
  <2>2. ASSUME NEW d \in Fit PROVE nx[s] # NULL /\ pos[d] <= pos[nx[s]]
    <3>1. Size2Ndx(sz[d]) \in ListHeads /\ s <= Size2Ndx(sz[d])
      BY <1>11, SizeClass
    <3>2. ~Ahead(sz, d, s)
      BY <1>10, <1>11, <3>1, Constants DEF Ahead
    <3>3. ~(pos[d] > pos[s]) /\ pos[d] # pos[s]
      BY <1>2, <1>10, <1>11, <3>2
    <3>4. pos[d] \in Nat /\ pos[s] \in Nat /\ pos[d] < pos[s]
      BY <1>2, <1>10, <1>11, <3>3
    <3>. QED BY <1>2, <1>10, <3>4
  <2>. QED BY <2>1, <2>2
<1>13. ASSUME NEW n \in K, n \notin stop PROVE nx[n] \in K
  <2>1. n \in C /\ nx[n] \in D /\ ~(NodeOf(h, n) >= size)
    BY <1>3, <1>13 DEF Descends
  <2>2. ASSUME NEW d \in Fit PROVE nx[n] # NULL /\ pos[d] <= pos[nx[n]]
    <3>1. pos[d] <= pos[n] /\ d \in C
      BY <1>11
    <3>2. d # n
      BY <1>11, <2>1, NodeIs
    <3>3. pos[d] \in Nat /\ pos[n] \in Nat /\ pos[d] < pos[n]
      BY <1>2, <2>1, <3>1, <3>2
    <3>. QED BY <1>2, <2>1, <3>3
  <2>. QED BY <2>1, <2>2
<1>14. search[nx[s]] \in K /\ search[nx[s]] \in stop
  <2>1. StaysIn(K, D, stop, nx)
    BY <1>13 DEF StaysIn
  <2>. HIDE DEF K, stop, D, nx, s
  <2>. QED BY <1>3, <1>9, <1>12, <2>1, WalkEnds
<1>. DEFINE n == search[nx[s]]
<1>15. n = NULL => \A d \in Listed(h) : h.hdr[d].size < size
  <2>1. n = NULL => Fit = {}
    BY <1>14
  <2>2. \A d \in Listed(h) : h.hdr[d].size \in Nat
    BY NodeIs DEF Listed
  <2>. QED BY <2>1, <2>2
<1>16. ASSUME n # NULL
       PROVE  /\ n \in Listed(h) /\ h.hdr[n].size >= size
              /\ \A d \in Fit : h.hdr[n].size <= h.hdr[d].size
  <2>1. n \in C /\ NodeOf(h, n) >= size /\ \A d \in Fit : pos[d] <= pos[n]
    BY <1>14, <1>16
  <2>. HIDE DEF n
  <2>2. n \notin ListHeads /\ n \in Listed(h) /\ h.hdr[n].size = sz[n] /\ sz[n] \in Nat
        /\ h.hdr[n].size >= size
    BY <2>1, NodeIs DEF Listed
  <2>3. ASSUME NEW d \in Fit PROVE h.hdr[n].size <= h.hdr[d].size
    <3>1. d = n \/ pos[n] > pos[d]
      BY <1>2, <1>11, <2>1
    <3>2. d = n \/ Ahead(sz, n, d)
      BY <1>2, <1>11, <2>1, <3>1
    <3>. QED BY <1>11, <2>2, <3>2 DEF Ahead
  <2>. QED BY <2>2, <2>3
<1>17. FirstFit(h, size) = n
  BY <1>8
<1>. HIDE DEF n
<1>. QED BY <1>15, <1>16, <1>17

-----------------------------------------------------------------------------
(* The headers: hd is a function from addresses of chunks to headers.      *)

\* A header as the code keeps it.
HeaderType == [size : 1 .. HeapSize, back : 0 .. AllocBit - 1, alloc : BOOLEAN]

\* Where the chunk behind chunk c starts.
EndOf(hd, c) == c + hd[c].size

\* Chunks lie one behind the other between the guards, which are never free; each knows
\* the size of the one before it as far as the field keeps it, and is marked allocated
\* when the field does not.
Tiles(hd) ==
  /\ hd \in [DOMAIN hd -> HeaderType]
  /\ {HeapStart, HeapEnd} \subseteq DOMAIN hd /\ DOMAIN hd \subseteq HeapStart .. HeapEnd
  /\ hd[HeapStart].alloc /\ hd[HeapEnd].alloc
  /\ \A c \in DOMAIN hd \ {HeapEnd} :
        EndOf(hd, c) \in DOMAIN hd /\ \A d \in DOMAIN hd : d <= c \/ d >= EndOf(hd, c)
  /\ \A c \in DOMAIN hd \ {HeapStart} : \E b \in DOMAIN hd : b < c /\ EndOf(hd, b) = c
  /\ \A c \in DOMAIN hd \ {HeapEnd} :
        EndOf(hd, c) # HeapEnd =>
          /\ hd[EndOf(hd, c)].back = hd[c].size % AllocBit
          /\ hd[c].size >= AllocBit => hd[EndOf(hd, c)].alloc

\* No two free chunks touch.
Apart(hd) ==
  \A c \in DOMAIN hd \ {HeapEnd} : hd[c].alloc \/ hd[EndOf(hd, c)].alloc

\* What the field `preceding' keeps of a size.
LEMMA Remainder ==
  \A n \in 0 .. HeapSize : /\ n % AllocBit \in 0 .. AllocBit - 1
                           /\ n < AllocBit => n % AllocBit = n
<1>. SUFFICES ASSUME NEW n \in 0 .. HeapSize
              PROVE  /\ n % AllocBit \in 0 .. AllocBit - 1
                     /\ n < AllocBit => n % AllocBit = n
  OBVIOUS
<1>1. n \in Int /\ AllocBit \in Nat \ {0}
  BY Constants
<1>2. n % AllocBit \in 0 .. AllocBit - 1
  BY <1>1, DivMod
<1>3. n < AllocBit => (AllocBit * 0 + n) % AllocBit = n
  <2>1. n < AllocBit => n \in 0 .. AllocBit - 1
    BY <1>1
  <2>. QED BY <1>1, <2>1, DivModUnique
<1>4. AllocBit * 0 + n = n
  BY <1>1
<1>. QED BY <1>2, <1>3, <1>4

\* Types of one header, and where its chunk lies.
LEMMA ChunkFacts ==
  ASSUME NEW hd, Tiles(hd), NEW c \in DOMAIN hd
  PROVE  /\ c \in Nat /\ hd[c].size \in 1 .. HeapSize /\ hd[c].back \in 0 .. AllocBit - 1
         /\ hd[c].alloc \in BOOLEAN /\ EndOf(hd, c) \in Nat /\ c < EndOf(hd, c)
         /\ HeapStart <= c /\ c <= HeapEnd
         /\ hd[c] = [size |-> hd[c].size, back |-> hd[c].back, alloc |-> hd[c].alloc]
<1>1. hd[c] \in HeaderType /\ c \in HeapStart .. HeapEnd
  BY DEF Tiles
<1>. QED BY <1>1, Constants DEF HeaderType, EndOf

\* The same of all of them, without the flags.
LEMMA ChunksAre ==
  ASSUME NEW hd, Tiles(hd)
  PROVE  /\ \A d \in DOMAIN hd :
              /\ d \in Nat /\ hd[d].size \in Nat /\ hd[d].size > 0 /\ EndOf(hd, d) \in Nat
              /\ d < EndOf(hd, d) /\ HeapStart <= d /\ d <= HeapEnd
         /\ HeapStart \in Nat /\ HeapEnd \in Nat
<1>1. ASSUME NEW d \in DOMAIN hd
      PROVE  /\ d \in Nat /\ hd[d].size \in Nat /\ hd[d].size > 0 /\ EndOf(hd, d) \in Nat
             /\ d < EndOf(hd, d) /\ HeapStart <= d /\ d <= HeapEnd
  <2>1. hd[d].size \in 1 .. HeapSize
    BY ChunkFacts
  <2>. QED BY <2>1, ChunkFacts, Constants
<1>. QED BY <1>1, Constants

\* Chunk c cut in two: the end becomes a chunk of its own, and n, the chunk behind, is told.
IsCut(hd, c, size, hd2) ==
  LET n == EndOf(hd, c)
      r == c + size
  IN /\ DOMAIN hd2 = DOMAIN hd \cup {r}
     /\ hd2 \in [DOMAIN hd2 -> HeaderType]
     /\ hd2[c].size = size /\ hd2[c].back = hd[c].back /\ (hd[c].alloc => hd2[c].alloc)
     /\ hd2[r].size = hd[c].size - size /\ hd2[r].back = size % AllocBit
     /\ size >= AllocBit => hd2[r].alloc
     /\ hd2[n].size = hd[n].size /\ hd2[n].back = (hd[c].size - size) % AllocBit
     /\ hd[n].alloc => hd2[n].alloc
     /\ hd[c].size - size >= AllocBit => hd2[n].alloc
     /\ \A d \in DOMAIN hd : d # c /\ d # n => hd2[d] = hd[d]

\* Cutting a chunk leaves chunks that tile the heap.
LEMMA CutTiles ==
  ASSUME NEW hd, Tiles(hd), NEW c \in DOMAIN hd \ {HeapEnd},
         NEW size \in 1 .. hd[c].size - 1, NEW hd2, IsCut(hd, c, size, hd2)
  PROVE  Tiles(hd2) /\ c + size \notin DOMAIN hd
<1>0. /\ DOMAIN hd2 = DOMAIN hd \cup {c + size}
      /\ hd2 \in [DOMAIN hd2 -> HeaderType]
      /\ hd2[c].size = size /\ hd2[c].back = hd[c].back /\ (hd[c].alloc => hd2[c].alloc)
      /\ hd2[c + size].size = hd[c].size - size /\ hd2[c + size].back = size % AllocBit
      /\ (size >= AllocBit => hd2[c + size].alloc)
      /\ hd2[EndOf(hd, c)].size = hd[EndOf(hd, c)].size
      /\ hd2[EndOf(hd, c)].back = (hd[c].size - size) % AllocBit
      /\ (hd[EndOf(hd, c)].alloc => hd2[EndOf(hd, c)].alloc)
      /\ (hd[c].size - size >= AllocBit => hd2[EndOf(hd, c)].alloc)
      /\ \A d \in DOMAIN hd : d # c /\ d # EndOf(hd, c) => hd2[d] = hd[d]
  BY DEF IsCut
<1>. USE <1>0
<1>. DEFINE n == EndOf(hd, c)
            r == c + size
            D == DOMAIN hd
<1>1. /\ {HeapStart, HeapEnd} \subseteq D /\ D \subseteq HeapStart .. HeapEnd
      /\ hd[HeapStart].alloc /\ hd[HeapEnd].alloc
      /\ \A d \in D \ {HeapEnd} : EndOf(hd, d) \in D /\ \A e \in D : e <= d \/ e >= EndOf(hd, d)
      /\ \A d \in D \ {HeapStart} : \E b \in D : b < d /\ EndOf(hd, b) = d
      /\ \A d \in D \ {HeapEnd} :
            EndOf(hd, d) # HeapEnd =>
              /\ hd[EndOf(hd, d)].back = hd[d].size % AllocBit
              /\ hd[d].size >= AllocBit => hd[EndOf(hd, d)].alloc
  BY DEF Tiles
<1>2. /\ \A d \in D : /\ d \in Nat /\ hd[d].size \in Nat /\ hd[d].size > 0 /\ EndOf(hd, d) \in Nat
                      /\ d < EndOf(hd, d) /\ HeapStart <= d /\ d <= HeapEnd
      /\ HeapStart \in Nat /\ HeapEnd \in Nat
  BY ChunksAre
<1>3. n \in D /\ n = c + hd[c].size /\ c < r /\ r < n /\ r \in Nat /\ c \in Nat /\ n \in Nat
  BY <1>1, <1>2 DEF EndOf
<1>4. r \notin D /\ r # HeapStart /\ r # HeapEnd
  BY <1>1, <1>2, <1>3
<1>5. EndOf(hd2, c) = r /\ EndOf(hd2, r) = n
  BY <1>3, <1>2 DEF EndOf
<1>6. \A d \in D : d # c => EndOf(hd2, d) = EndOf(hd, d)
  BY DEF EndOf
<1>. HIDE DEF r, n
<1>7. \A d \in D : d <= c \/ d >= n
  BY <1>1, <1>2 DEF n
<1>8. ASSUME NEW d \in DOMAIN hd2 \ {HeapEnd}
      PROVE  /\ EndOf(hd2, d) \in DOMAIN hd2
             /\ \A e \in DOMAIN hd2 : e <= d \/ e >= EndOf(hd2, d)
  <2>1. CASE d = c
    BY <1>2, <1>3, <1>5, <1>7, <2>1 DEF r
  <2>2. CASE d = r
    BY <1>2, <1>3, <1>5, <1>7, <2>2 DEF r
  <2>3. CASE d \in D /\ d # c
    <3>1. EndOf(hd2, d) = EndOf(hd, d) /\ EndOf(hd, d) \in D
      BY <1>1, <1>6, <1>8, <2>3
    <3>2. \A e \in D : e <= d \/ e >= EndOf(hd, d)
      BY <1>1, <1>8, <2>3
    <3>3. d < c \/ d >= n
      BY <1>2, <1>3, <1>7, <2>3
    <3>4. r <= d \/ r >= EndOf(hd, d)
      <4>1. d < c => c >= EndOf(hd, d)
        BY <1>2, <2>3, <3>2
      <4>. QED BY <1>2, <1>3, <2>3, <3>3, <4>1
    <3>. QED BY <3>1, <3>2, <3>4 DEF r
  <2>. QED BY <2>1, <2>2, <2>3 DEF r
<1>9. ASSUME NEW d \in DOMAIN hd2 \ {HeapStart}
      PROVE  \E b \in DOMAIN hd2 : b < d /\ EndOf(hd2, b) = d
  <2>1. CASE d = r
    BY <1>3, <1>5, <2>1
  <2>2. CASE d \in D
    <3>1. PICK b \in D : b < d /\ EndOf(hd, b) = d
      BY <1>1, <1>9, <2>2
    <3>2. CASE b = c
      <4>1. d = n
        BY <3>1, <3>2 DEF n
      <4>. QED BY <1>3, <1>5, <4>1 DEF r
    <3>3. CASE b # c
      BY <1>6, <3>1, <3>3
    <3>. QED BY <3>2, <3>3
  <2>. QED BY <2>1, <2>2 DEF r
<1>10. ASSUME NEW d \in DOMAIN hd2 \ {HeapEnd}, EndOf(hd2, d) # HeapEnd
       PROVE  /\ hd2[EndOf(hd2, d)].back = hd2[d].size % AllocBit
              /\ hd2[d].size >= AllocBit => hd2[EndOf(hd2, d)].alloc
  <2>1. CASE d = c
    BY <1>5, <2>1 DEF r
  <2>2. CASE d = r
    BY <1>5, <2>2 DEF r, n
  <2>3. CASE d \in D /\ d # c
    <3>1. EndOf(hd2, d) = EndOf(hd, d) /\ EndOf(hd, d) \in D /\ EndOf(hd, d) # HeapEnd
      BY <1>1, <1>6, <1>10, <2>3
    <3>2. /\ hd[EndOf(hd, d)].back = hd[d].size % AllocBit
          /\ hd[d].size >= AllocBit => hd[EndOf(hd, d)].alloc
      BY <1>1, <1>10, <2>3, <3>1
    <3>3. hd2[d].size = hd[d].size
      BY <2>3
    <3>4. EndOf(hd, d) # n
      <4>1. d < c \/ d >= n
        BY <1>2, <1>3, <1>7, <2>3
      <4>2. d < c => c >= EndOf(hd, d)
        BY <1>1, <1>2, <1>10, <2>3
      <4>. QED BY <1>2, <1>3, <2>3, <4>1, <4>2
    <3>5. /\ hd2[EndOf(hd, d)].back = hd[EndOf(hd, d)].back
          /\ hd[EndOf(hd, d)].alloc => hd2[EndOf(hd, d)].alloc
      BY <3>1, <3>4 DEF n
    <3>. QED BY <3>1, <3>2, <3>3, <3>5
  <2>. QED BY <2>1, <2>2, <2>3 DEF r
<1>11. hd2[HeapStart].alloc /\ hd2[HeapEnd].alloc
  BY <1>1
<1>12. /\ {HeapStart, HeapEnd} \subseteq DOMAIN hd2
       /\ DOMAIN hd2 \subseteq HeapStart .. HeapEnd
  BY <1>1, <1>2, <1>3 DEF r
<1>. QED BY <1>4, <1>8, <1>9, <1>10, <1>11, <1>12 DEF Tiles, r

\* Chunk c and the one behind it made one, and the chunk behind both told.
IsMerge(hd, c, hd2) ==
  LET n == EndOf(hd, c)
      t == EndOf(hd, n)
  IN /\ DOMAIN hd2 = DOMAIN hd \ {n}
     /\ hd2 \in [DOMAIN hd2 -> HeaderType]
     /\ hd2[c].size = hd[c].size + hd[n].size
     /\ hd2[c].back = hd[c].back /\ (hd[c].alloc => hd2[c].alloc)
     /\ hd2[t].size = hd[t].size /\ hd2[t].back = hd2[c].size % AllocBit
     /\ hd[t].alloc => hd2[t].alloc
     /\ hd2[c].size >= AllocBit => hd2[t].alloc
     /\ \A d \in DOMAIN hd : d # c /\ d # n /\ d # t => hd2[d] = hd[d]

\* So does merging two.
LEMMA MergeTiles ==
  ASSUME NEW hd, Tiles(hd), NEW c \in DOMAIN hd \ {HeapEnd}, EndOf(hd, c) # HeapEnd,
         NEW hd2, IsMerge(hd, c, hd2)
  PROVE  Tiles(hd2) /\ EndOf(hd, EndOf(hd, c)) \in DOMAIN hd2
         /\ EndOf(hd2, c) = EndOf(hd, EndOf(hd, c))
<1>. DEFINE t == EndOf(hd, EndOf(hd, c))
<1>0. /\ DOMAIN hd2 = DOMAIN hd \ {EndOf(hd, c)}
      /\ hd2 \in [DOMAIN hd2 -> HeaderType]
      /\ hd2[c].size = hd[c].size + hd[EndOf(hd, c)].size
      /\ hd2[c].back = hd[c].back /\ (hd[c].alloc => hd2[c].alloc)
      /\ hd2[t].size = hd[t].size /\ hd2[t].back = hd2[c].size % AllocBit
      /\ (hd[t].alloc => hd2[t].alloc) /\ (hd2[c].size >= AllocBit => hd2[t].alloc)
      /\ \A d \in DOMAIN hd : d # c /\ d # EndOf(hd, c) /\ d # t => hd2[d] = hd[d]
  BY DEF IsMerge
<1>a. t = EndOf(hd, EndOf(hd, c))
  OBVIOUS
<1>. HIDE DEF t
<1>. USE <1>0, <1>a
<1>. DEFINE n == EndOf(hd, c)
            D == DOMAIN hd
<1>1. /\ {HeapStart, HeapEnd} \subseteq D /\ D \subseteq HeapStart .. HeapEnd
      /\ hd[HeapStart].alloc /\ hd[HeapEnd].alloc
      /\ \A d \in D \ {HeapEnd} : EndOf(hd, d) \in D /\ \A e \in D : e <= d \/ e >= EndOf(hd, d)
      /\ \A d \in D \ {HeapStart} : \E b \in D : b < d /\ EndOf(hd, b) = d
      /\ \A d \in D \ {HeapEnd} :
            EndOf(hd, d) # HeapEnd =>
              /\ hd[EndOf(hd, d)].back = hd[d].size % AllocBit
              /\ hd[d].size >= AllocBit => hd[EndOf(hd, d)].alloc
  BY DEF Tiles
<1>2. /\ \A d \in D : /\ d \in Nat /\ hd[d].size \in Nat /\ hd[d].size > 0 /\ EndOf(hd, d) \in Nat
                      /\ d < EndOf(hd, d) /\ HeapStart <= d /\ d <= HeapEnd
      /\ HeapStart \in Nat /\ HeapEnd \in Nat
  BY ChunksAre
<1>3. /\ n \in D \ {HeapEnd} /\ t \in D /\ t = EndOf(hd, n) /\ c \in Nat /\ n \in Nat /\ t \in Nat
      /\ c < n /\ n < t /\ n # HeapStart /\ t # HeapStart
  BY <1>1, <1>2
<1>. HIDE DEF n
<1>4. EndOf(hd2, c) = t
  <2>1. t = n + hd[n].size /\ n = c + hd[c].size /\ hd2[c].size = hd[c].size + hd[n].size
    BY <1>3 DEF EndOf, n
  <2>2. hd[c].size \in Nat /\ hd[n].size \in Nat /\ c \in Nat
    BY <1>2, <1>3
  <2>3. EndOf(hd2, c) = c + hd2[c].size
    BY DEF EndOf
  <2>. QED BY ONLY <2>1, <2>2, <2>3
<1>5. \A d \in D : d # c /\ d # n => EndOf(hd2, d) = EndOf(hd, d) /\ hd2[d].size = hd[d].size
  BY DEF EndOf, n
<1>6. /\ \A d \in D : d <= c \/ d >= n
      /\ \A d \in D : d <= n \/ d >= t
  BY <1>1, <1>3 DEF n
<1>7. \A d \in D \ {HeapEnd} : d # c => EndOf(hd, d) # n
  <2>. SUFFICES ASSUME NEW d \in D \ {HeapEnd}, d # c, EndOf(hd, d) = n PROVE FALSE
    OBVIOUS
  <2>1. c <= d \/ c >= n
    BY <1>1
  <2>2. d <= c \/ d >= n
    BY <1>6
  <2>. QED BY <1>2, <1>3, <2>1, <2>2
<1>8. ASSUME NEW d \in DOMAIN hd2 \ {HeapEnd}
      PROVE  /\ EndOf(hd2, d) \in DOMAIN hd2
             /\ \A e \in DOMAIN hd2 : e <= d \/ e >= EndOf(hd2, d)
  <2>1. CASE d = c
    <3>1. \A e \in D : e # n => e <= c \/ e >= t
      BY <1>2, <1>3, <1>6
    <3>. QED BY <1>3, <1>4, <2>1, <3>1 DEF n
  <2>2. CASE d # c
    <3>1. d \in D \ {HeapEnd} /\ d # n
      BY <1>8 DEF n
    <3>. QED BY <1>1, <1>5, <1>7, <2>2, <3>1 DEF n
  <2>. QED BY <2>1, <2>2
<1>9. ASSUME NEW d \in DOMAIN hd2 \ {HeapStart}
      PROVE  \E b \in DOMAIN hd2 : b < d /\ EndOf(hd2, b) = d
  <2>1. PICK b \in D : b < d /\ EndOf(hd, b) = d
    BY <1>1, <1>9
  <2>2. CASE b = n
    BY <1>3, <1>4, <2>1, <2>2 DEF n
  <2>3. CASE b # n
    <3>1. b # c
      BY <1>9, <2>1 DEF n
    <3>. QED BY <1>5, <2>1, <2>3, <3>1 DEF n
  <2>. QED BY <2>2, <2>3
<1>10. ASSUME NEW d \in DOMAIN hd2 \ {HeapEnd}, EndOf(hd2, d) # HeapEnd
       PROVE  /\ hd2[EndOf(hd2, d)].back = hd2[d].size % AllocBit
              /\ hd2[d].size >= AllocBit => hd2[EndOf(hd2, d)].alloc
  <2>1. CASE d = c
    BY <1>4, <2>1
  <2>2. CASE d # c
    <3>1. d \in D \ {HeapEnd} /\ d # n
      BY <1>10 DEF n
    <3>2. EndOf(hd2, d) = EndOf(hd, d) /\ EndOf(hd, d) \in D /\ EndOf(hd, d) # HeapEnd
          /\ hd2[d].size = hd[d].size /\ EndOf(hd, d) # n
      BY <1>1, <1>5, <1>7, <1>10, <2>2, <3>1
    <3>3. /\ hd[EndOf(hd, d)].back = hd[d].size % AllocBit
          /\ hd[d].size >= AllocBit => hd[EndOf(hd, d)].alloc
      BY <1>1, <3>1, <3>2
    <3>4. EndOf(hd, d) # t
      <4>1. n <= d \/ n >= EndOf(hd, d)
        BY <1>1, <1>3, <3>1
      <4>2. d <= n \/ d >= t
        BY <1>6, <3>1
      <4>. QED BY <1>2, <1>3, <3>1, <4>1, <4>2
    <3>5. /\ hd2[EndOf(hd, d)].back = hd[EndOf(hd, d)].back
          /\ hd[EndOf(hd, d)].alloc => hd2[EndOf(hd, d)].alloc
      BY <3>2, <3>4 DEF n
    <3>. QED BY <3>2, <3>3, <3>5
  <2>. QED BY <2>1, <2>2
<1>11. hd2[HeapStart].alloc /\ hd2[HeapEnd].alloc
  BY <1>1, <1>3 DEF n
<1>12. /\ {HeapStart, HeapEnd} \subseteq DOMAIN hd2
       /\ DOMAIN hd2 \subseteq HeapStart .. HeapEnd
  BY <1>1, <1>3 DEF n
<1>13. t \in DOMAIN hd2
  BY <1>3 DEF n
<1>. QED BY <1>4, <1>8, <1>9, <1>10, <1>11, <1>12, <1>13 DEF Tiles

\* The flag of chunk c set; or cleared, of a chunk other than the guards the size of whose
\* neighbour is known.
LEMMA FlagTiles ==
  ASSUME NEW hd, Tiles(hd), NEW c \in DOMAIN hd, NEW flag \in BOOLEAN,
         flag \/ c \notin {HeapStart, HeapEnd},
         flag \/ \A b \in DOMAIN hd : EndOf(hd, b) = c => hd[b].size < AllocBit,
         NEW hd2, hd2 = [hd EXCEPT ![c].alloc = flag]
  PROVE  /\ Tiles(hd2) /\ DOMAIN hd2 = DOMAIN hd
         /\ \A d \in DOMAIN hd : /\ hd2[d].size = hd[d].size /\ hd2[d].back = hd[d].back
                                 /\ hd2[d].alloc = (IF d = c THEN flag ELSE hd[d].alloc)
                                 /\ EndOf(hd2, d) = EndOf(hd, d)
<1>. DEFINE D == DOMAIN hd
<1>1. \A d \in D : hd[d] \in HeaderType
  BY DEF Tiles
<1>2. hd2 = [d \in D |-> IF d = c THEN [hd[c] EXCEPT !.alloc = flag] ELSE hd[d]]
  BY <1>1 DEF Tiles
<1>3. [hd[c] EXCEPT !.alloc = flag] \in HeaderType
      /\ [hd[c] EXCEPT !.alloc = flag].size = hd[c].size
      /\ [hd[c] EXCEPT !.alloc = flag].back = hd[c].back
      /\ [hd[c] EXCEPT !.alloc = flag].alloc = flag
  BY <1>1 DEF HeaderType
<1>4. DOMAIN hd2 = D /\ hd2 \in [D -> HeaderType]
  BY <1>1, <1>2, <1>3
<1>5. \A d \in D : /\ hd2[d].size = hd[d].size /\ hd2[d].back = hd[d].back
                   /\ hd2[d].alloc = (IF d = c THEN flag ELSE hd[d].alloc)
  BY <1>2, <1>3
<1>. HIDE DEF D
<1>6. \A d \in D : EndOf(hd2, d) = EndOf(hd, d)
  BY <1>5 DEF EndOf
<1>7. /\ {HeapStart, HeapEnd} \subseteq D /\ D \subseteq HeapStart .. HeapEnd
      /\ hd[HeapStart].alloc /\ hd[HeapEnd].alloc
      /\ \A d \in D \ {HeapEnd} : EndOf(hd, d) \in D /\ \A e \in D : e <= d \/ e >= EndOf(hd, d)
      /\ \A d \in D \ {HeapStart} : \E b \in D : b < d /\ EndOf(hd, b) = d
      /\ \A d \in D \ {HeapEnd} :
            EndOf(hd, d) # HeapEnd =>
              /\ hd[EndOf(hd, d)].back = hd[d].size % AllocBit
              /\ hd[d].size >= AllocBit => hd[EndOf(hd, d)].alloc
  BY DEF Tiles, D
<1>8. \A d \in D \ {HeapEnd} : EndOf(hd2, d) # HeapEnd =>
        /\ hd2[EndOf(hd2, d)].back = hd2[d].size % AllocBit
        /\ hd2[d].size >= AllocBit => hd2[EndOf(hd2, d)].alloc
  <2>. SUFFICES ASSUME NEW d \in D \ {HeapEnd}, EndOf(hd2, d) # HeapEnd
                PROVE  /\ hd2[EndOf(hd2, d)].back = hd2[d].size % AllocBit
                       /\ hd2[d].size >= AllocBit => hd2[EndOf(hd2, d)].alloc
    OBVIOUS
  <2>1. EndOf(hd2, d) = EndOf(hd, d) /\ EndOf(hd, d) \in D
    BY <1>6, <1>7
  <2>2. hd2[EndOf(hd2, d)].back = hd2[d].size % AllocBit
    BY <1>5, <1>7, <2>1
  <2>3. hd[d].size \in Nat /\ AllocBit \in Nat
    BY ChunksAre, Constants DEF D
  <2>4. ASSUME hd2[d].size >= AllocBit PROVE hd2[EndOf(hd2, d)].alloc
    <3>1. hd[d].size >= AllocBit /\ hd[EndOf(hd, d)].alloc
      BY <1>5, <1>7, <2>1, <2>4
    <3>2. EndOf(hd, d) = c => flag
      BY <2>3, <3>1 DEF D
    <3>. QED BY <1>5, <2>1, <3>1, <3>2
  <2>. QED BY <2>2, <2>4
<1>9. hd2[HeapStart].alloc /\ hd2[HeapEnd].alloc
  BY <1>5, <1>7
<1>10. Tiles(hd2)
  <2>1. \A d \in D \ {HeapEnd} :
          EndOf(hd2, d) \in D /\ \A e \in D : e <= d \/ e >= EndOf(hd2, d)
    BY <1>6, <1>7
  <2>2. \A d \in D \ {HeapStart} : \E b \in D : b < d /\ EndOf(hd2, b) = d
    BY <1>6, <1>7
  <2>. QED BY <1>4, <1>7, <1>8, <1>9, <2>1, <2>2 DEF Tiles
<1>. QED BY <1>4, <1>5, <1>6, <1>10 DEF D

-----------------------------------------------------------------------------
(* The steps of mm_free.                                                   *)

\* The two allocated headers at the ends of the heap.
Guards == {HeapStart, HeapEnd}

\* A record of headers and links.
IsHeap(h) == h = [hdr |-> h.hdr, next |-> h.next, prev |-> h.prev]

\* A chunk in the list that is marked allocated is one the field of which could not keep
\* the size of the chunk before it.
MarkedByNeighbour(h, n) ==
  \E b \in Chunks(h) : EndOf(h.hdr, b) = n /\ h.hdr[b].size >= AllocBit

\* A heap: chunks that tile it, and a list that has the free ones, x apart.
Ordered(h, x) ==
  /\ IsHeap(h) /\ Tiles(h.hdr) /\ ListOf(h)
  /\ Listed(h) \cap Guards = {} /\ x \cap Listed(h) = {}
  /\ FreeChunks(h) \subseteq Listed(h) \cup x
  /\ \A n \in Listed(h) : h.hdr[n].alloc => MarkedByNeighbour(h, n)

\* What mm_malloc and mm_free leave behind.
WellFormed(h) == Ordered(h, {}) /\ Apart(h.hdr)

\* A header as it is written: the size before it loses its top bit to the flag.
LEMMA HeaderIs ==
  ASSUME NEW size \in 1 .. HeapSize, NEW before \in 0 .. HeapSize, NEW alloc \in BOOLEAN
  PROVE  /\ Header(size, before, alloc) \in HeaderType
         /\ Header(size, before, alloc).size = size
         /\ Header(size, before, alloc).back = before % AllocBit
         /\ Header(size, before, alloc).alloc = (alloc \/ before >= AllocBit)
BY Remainder DEF Header, HeaderType

LEMMA PutIs ==
  ASSUME NEW hd, NEW c, NEW size, NEW before, NEW alloc
  PROVE  /\ DOMAIN Put(hd, c, size, before, alloc) = DOMAIN hd \cup {c}
         /\ Put(hd, c, size, before, alloc)[c] = Header(size, before, alloc)
         /\ \A d \in DOMAIN hd : d # c => Put(hd, c, size, before, alloc)[d] = hd[d]
BY DEF Put

\* Two chunks made one.
LEMMA MergedIs ==
  ASSUME NEW h, IsHeap(h), Tiles(h.hdr),
         NEW c \in Chunks(h) \ {HeapEnd}, EndOf(h.hdr, c) # HeapEnd
  PROVE  LET g == Merged(h, c)
             n == EndOf(h.hdr, c)
             t == EndOf(h.hdr, n)
         IN /\ IsHeap(g) /\ g.next = h.next /\ g.prev = h.prev
            /\ Tiles(g.hdr) /\ Chunks(g) = Chunks(h) \ {n}
            /\ n \in Chunks(h) /\ n # c /\ t \in Chunks(g) /\ t # c /\ t # n
            /\ EndOf(g.hdr, c) = t
            /\ g.hdr[c].size = h.hdr[c].size + h.hdr[n].size
            /\ g.hdr[c].back = h.hdr[c].back /\ g.hdr[c].alloc = h.hdr[c].alloc
            /\ \A d \in Chunks(g) : d # c =>
                 /\ g.hdr[d].size = h.hdr[d].size /\ EndOf(g.hdr, d) = EndOf(h.hdr, d)
                 /\ d # t => g.hdr[d] = h.hdr[d]
            /\ g.hdr[t].alloc = (h.hdr[t].alloc \/ g.hdr[c].size >= AllocBit)
<1>. DEFINE hd == h.hdr
            n == EndOf(hd, c)
            t == EndOf(hd, n)
            size == hd[c].size + hd[n].size
            one == [d \in DOMAIN hd \ {n} |-> IF d = c THEN [hd[c] EXCEPT !.size = size] ELSE hd[d]]
            hd2 == TellNext(one, t, size)
            g == Merged(h, c)
<1>1. /\ n \in DOMAIN hd \ {HeapEnd} /\ t \in DOMAIN hd
      /\ c \in Nat /\ n \in Nat /\ t \in Nat /\ c < n /\ n < t
      /\ hd[c].size \in 1 .. HeapSize /\ hd[n].size \in 1 .. HeapSize
      /\ hd[t].size \in 1 .. HeapSize /\ hd[t].alloc \in BOOLEAN
      /\ hd[c] \in HeaderType /\ \A d \in DOMAIN hd : hd[d] \in HeaderType
      /\ HeapStart <= c /\ t <= HeapEnd
  <2>1. n \in DOMAIN hd \ {HeapEnd} /\ t \in DOMAIN hd
    BY DEF Tiles, Chunks
  <2>2. \A d \in DOMAIN hd : hd[d] \in HeaderType
    BY DEF Tiles
  <2>. HIDE DEF n, t
  <2>3. c < n /\ n < t
    BY <2>1, ChunkFacts DEF Chunks, n, t
  <2>. QED BY <2>1, <2>2, <2>3, ChunkFacts DEF Chunks
<1>2. size \in 1 .. HeapSize
  <2>1. n = c + hd[c].size /\ t = n + hd[n].size
    BY DEF EndOf
  <2>. HIDE DEF hd, n, t
  <2>2. /\ hd[c].size \in Nat /\ hd[c].size > 0 /\ hd[n].size \in Nat /\ hd[n].size > 0
        /\ c \in Nat /\ n \in Nat /\ t \in Nat /\ HeapStart <= c /\ t <= HeapEnd
    BY <1>1, Constants
  <2>3. size = t - c /\ size \in Nat /\ size > 0
    BY <2>1, <2>2
  <2>4. /\ HeapStart \in Nat /\ HeapSize \in Nat /\ AllocNode \in Nat /\ HeapEnd \in Nat
        /\ HeapEnd = HeapStart + HeapSize - AllocNode
    BY Constants
  <2>. HIDE DEF size
  <2>5. size <= HeapSize
    BY <2>2, <2>3, <2>4
  <2>. QED BY <2>3, <2>4, <2>5
<1>3. g = [hdr |-> hd2, next |-> h.next, prev |-> h.prev]
  BY DEF Merged, NextChunk, Chunks, EndOf, IsHeap
<1>4. t # n /\ t # c /\ n # c
  BY <1>1
<1>. HIDE DEF t, n, size, g, hd
<1>5. /\ DOMAIN one = DOMAIN hd \ {n} /\ one[c] = [hd[c] EXCEPT !.size = size]
      /\ \A d \in DOMAIN hd : d # n /\ d # c => one[d] = hd[d]
  BY <1>1, <1>4 DEF Chunks, hd
<1>6. [hd[c] EXCEPT !.size = size] \in HeaderType /\ [hd[c] EXCEPT !.size = size].size = size
      /\ [hd[c] EXCEPT !.size = size].back = hd[c].back
      /\ [hd[c] EXCEPT !.size = size].alloc = hd[c].alloc
  BY <1>1, <1>2 DEF HeaderType
<1>. HIDE DEF one
<1>7. one[t] = hd[t] /\ t \in DOMAIN one
  BY <1>1, <1>4, <1>5
<1>8. hd2 = Put(one, t, hd[t].size, size, hd[t].alloc)
  BY <1>7 DEF TellNext
<1>9. size \in 0 .. HeapSize
  BY <1>2
<1>. DEFINE H == Header(hd[t].size, size, hd[t].alloc)
<1>10. H \in HeaderType /\ H.size = hd[t].size /\ H.back = size % AllocBit
       /\ H.alloc = (hd[t].alloc \/ size >= AllocBit)
  BY <1>1, <1>9, HeaderIs
<1>. HIDE DEF hd2, H
<1>11. /\ DOMAIN hd2 = DOMAIN hd \ {n} /\ hd2[t] = H
       /\ \A d \in DOMAIN hd : d # n /\ d # t => hd2[d] = one[d]
  <2>1. DOMAIN hd2 = DOMAIN one \cup {t} /\ hd2[t] = H
        /\ \A d \in DOMAIN one : d # t => hd2[d] = one[d]
    BY <1>8 DEF Put, H
  <2>. QED BY <1>5, <1>7, <2>1
<1>12. /\ hd2[c] = [hd[c] EXCEPT !.size = size]
       /\ \A d \in DOMAIN hd : d # c /\ d # n /\ d # t => hd2[d] = hd[d]
  BY <1>1, <1>4, <1>5, <1>11 DEF Chunks, hd
<1>13. \A d \in DOMAIN hd2 : hd2[d] \in HeaderType
  BY <1>1, <1>6, <1>10, <1>11, <1>12
<1>14. hd2 = [d \in DOMAIN hd2 |-> hd2[d]]
  BY <1>8 DEF Put
<1>15. hd2 \in [DOMAIN hd2 -> HeaderType]
  BY ONLY <1>13, <1>14
<1>16. Tiles(hd2) /\ t \in DOMAIN hd2 /\ EndOf(hd2, c) = t
  <2>1. /\ hd2[c].size = hd[c].size + hd[n].size /\ hd2[c].back = hd[c].back
        /\ hd[c].alloc => hd2[c].alloc
        /\ hd2[t].size = hd[t].size /\ hd2[t].back = hd2[c].size % AllocBit
        /\ hd[t].alloc => hd2[t].alloc
        /\ hd2[c].size >= AllocBit => hd2[t].alloc
    BY <1>6, <1>10, <1>11, <1>12 DEF size
  <2>2. Tiles(hd) /\ c \in DOMAIN hd \ {HeapEnd} /\ EndOf(hd, c) # HeapEnd
    BY DEF hd, Chunks
  <2>3. n = EndOf(hd, c) /\ t = EndOf(hd, n)
    BY DEF n, t
  <2>4. IsMerge(hd, c, hd2)
    BY <1>11, <1>12, <1>15, <2>1, <2>3 DEF IsMerge
  <2>. QED BY ONLY <1>11, <1>1, <1>4, <2>2, <2>3, <2>4, MergeTiles
<1>17. IsHeap(g) /\ g.next = h.next /\ g.prev = h.prev /\ g.hdr = hd2
  BY <1>3 DEF IsHeap
<1>18. \A d \in DOMAIN hd2 : d # c =>
         /\ hd2[d].size = hd[d].size /\ EndOf(hd2, d) = EndOf(hd, d)
         /\ d # t => hd2[d] = hd[d]
  BY <1>10, <1>11, <1>12 DEF EndOf
<1>19. /\ hd2[c].size = hd[c].size + hd[n].size /\ hd2[c].back = hd[c].back
       /\ hd2[c].alloc = hd[c].alloc /\ hd2[t].alloc = (hd[t].alloc \/ hd2[c].size >= AllocBit)
  BY <1>6, <1>10, <1>11, <1>12 DEF size
<1>. QED BY <1>1, <1>4, <1>11, <1>16, <1>17, <1>18, <1>19 DEF Chunks, g, n, t, hd

\* Chunk c is taken out of the list.
LEMMA UnlinkIs ==
  ASSUME NEW h, NEW x, Ordered(h, x), NEW c \in Listed(h)
  PROVE  /\ Ordered(Unlink(h, c), x \cup {c})
         /\ Unlink(h, c).hdr = h.hdr /\ Listed(Unlink(h, c)) = Listed(h) \ {c}
<1>. DEFINE nx == [n \in DOMAIN h.next \ {c} |-> IF n = h.prev[c] THEN h.next[c] ELSE h.next[n]]
            pv == [n \in DOMAIN h.prev \ {c} |-> IF n = h.next[c] THEN h.prev[c] ELSE h.prev[n]]
            g == Unlink(h, c)
<1>1. IsHeap(h) /\ Tiles(h.hdr) /\ ListOf(h)
  BY DEF Ordered
<1>2. g = [hdr |-> h.hdr, next |-> nx, prev |-> pv]
  <2>1. g = [h EXCEPT !.next = nx, !.prev = pv]
    BY DEF Unlink
  <2>2. h = [hdr |-> h.hdr, next |-> h.next, prev |-> h.prev]
    BY <1>1 DEF IsHeap
  <2>. HIDE DEF nx, pv, g
  <2>. QED BY <2>1, <2>2
<1>3. IsHeap(g) /\ g.hdr = h.hdr /\ g.next = nx /\ g.prev = pv
  BY <1>2 DEF IsHeap
<1>4. IsList(nx, pv, Sizes(h))
  <2>1. IsList(h.next, h.prev, Sizes(h)) /\ c \in DOMAIN h.next \ ListHeads
    BY <1>1 DEF ListOf, Listed
  <2>. QED BY <2>1, UnlinkList
<1>5. DOMAIN nx = DOMAIN h.next \ {c}
  OBVIOUS
<1>. HIDE DEF nx, pv, g
<1>6. Listed(g) = Listed(h) \ {c}
  BY <1>3, <1>5 DEF Listed
<1>7. Sizes(g) = Sizes(h) /\ Chunks(g) = Chunks(h) /\ FreeChunks(g) = FreeChunks(h)
  BY <1>3 DEF Sizes, Chunks, FreeChunks
<1>8. ListOf(g)
  BY <1>1, <1>3, <1>4, <1>6, <1>7 DEF ListOf
<1>9. \A n : MarkedByNeighbour(h, n) => MarkedByNeighbour(g, n)
  BY <1>3, <1>7 DEF MarkedByNeighbour
<1>10. Ordered(g, x \cup {c})
  BY <1>1, <1>3, <1>6, <1>7, <1>8, <1>9 DEF Ordered
<1>. QED BY <1>3, <1>6, <1>10 DEF g

\* Chunk c is put into the list.
LEMMA AddIs ==
  ASSUME NEW h, NEW x, Ordered(h, x), NEW c \in x, c \in Chunks(h) \ Guards,
         h.hdr[c].alloc => MarkedByNeighbour(h, c)
  PROVE  /\ Ordered(AddFreeChunk(h, c), x \ {c})
         /\ AddFreeChunk(h, c).hdr = h.hdr /\ Listed(AddFreeChunk(h, c)) = Listed(h) \cup {c}
<1>. DEFINE p == Predecessor(h, c)
            q == h.next[p]
            nx == [n \in DOMAIN h.next \cup {c} |-> CASE n = p -> c [] n = c -> q
                                                    [] OTHER -> h.next[n]]
            pv == [n \in DOMAIN h.prev \cup {c} |-> CASE n = q -> c [] n = c -> p
                                                    [] OTHER -> h.prev[n]]
            g == AddFreeChunk(h, c)
<1>1. IsHeap(h) /\ Tiles(h.hdr) /\ ListOf(h) /\ c \notin Listed(h)
  BY DEF Ordered
<1>2. g = [hdr |-> h.hdr, next |-> nx, prev |-> pv]
  <2>1. g = [h EXCEPT !.next = nx, !.prev = pv]
    BY DEF AddFreeChunk
  <2>2. h = [hdr |-> h.hdr, next |-> h.next, prev |-> h.prev]
    BY <1>1 DEF IsHeap
  <2>. HIDE DEF nx, pv, g
  <2>. QED BY <2>1, <2>2
<1>3. IsHeap(g) /\ g.hdr = h.hdr /\ g.next = nx /\ g.prev = pv
  BY <1>2 DEF IsHeap
<1>4. c \in Nat /\ c \notin ListHeads /\ c \notin DOMAIN h.next
      /\ Sizes(h)[c] = h.hdr[c].size /\ h.hdr[c].size \in Nat /\ h.hdr[c].size > 0
  <2>1. c \in Nat /\ c >= HeapStart /\ h.hdr[c].size \in Nat /\ h.hdr[c].size > 0
    BY <1>1, ChunksAre DEF Chunks
  <2>2. c \notin ListHeads
    BY <2>1, Constants
  <2>. QED BY <1>1, <2>1, <2>2 DEF Listed, Sizes
<1>5. IsList(nx, pv, Sizes(h))
  <2>1. MayFollow(h.next, Sizes(h), p, c)
    BY <1>1, <1>4, PredecessorIs
  <2>2. IsList(h.next, h.prev, Sizes(h))
    BY <1>1 DEF ListOf
  <2>. HIDE DEF p
  <2>. QED BY <1>4, <2>1, <2>2, AddList
<1>6. DOMAIN nx = DOMAIN h.next \cup {c}
  OBVIOUS
<1>. HIDE DEF nx, pv, g
<1>7. Listed(g) = Listed(h) \cup {c}
  BY <1>3, <1>4, <1>6 DEF Listed
<1>8. Sizes(g) = Sizes(h) /\ Chunks(g) = Chunks(h) /\ FreeChunks(g) = FreeChunks(h)
  BY <1>3 DEF Sizes, Chunks, FreeChunks
<1>9. ListOf(g)
  BY <1>1, <1>3, <1>5, <1>7, <1>8 DEF ListOf
<1>10. \A n : MarkedByNeighbour(h, n) => MarkedByNeighbour(g, n)
  BY <1>3, <1>8 DEF MarkedByNeighbour
<1>11. Ordered(g, x \ {c})
  BY <1>1, <1>3, <1>7, <1>8, <1>9, <1>10 DEF Ordered
<1>. QED BY <1>3, <1>7, <1>11 DEF g

\* Chunk c and the one behind it, neither of them in the list, made one.
LEMMA MergedOrdered ==
  ASSUME NEW h, NEW c, NEW n, Ordered(h, {c, n}), c \in Chunks(h) \ Guards,
         n = EndOf(h.hdr, c), n # HeapEnd
  PROVE  Ordered(Merged(h, c), {c})
<1>. DEFINE g == Merged(h, c)
            t == EndOf(h.hdr, n)
<1>1. /\ IsHeap(h) /\ Tiles(h.hdr) /\ ListOf(h) /\ c \notin Listed(h) /\ n \notin Listed(h)
      /\ Listed(h) \cap Guards = {} /\ FreeChunks(h) \subseteq Listed(h) \cup {c, n}
      /\ \A m \in Listed(h) : h.hdr[m].alloc => MarkedByNeighbour(h, m)
  BY DEF Ordered
<1>2. c \in Chunks(h) \ {HeapEnd}
  BY DEF Guards
<1>3. /\ IsHeap(g) /\ g.next = h.next /\ g.prev = h.prev
      /\ Tiles(g.hdr) /\ Chunks(g) = Chunks(h) \ {n}
      /\ n \in Chunks(h) /\ n # c /\ t \in Chunks(g) /\ t # c /\ t # n
      /\ EndOf(g.hdr, c) = t
      /\ g.hdr[c].size = h.hdr[c].size + h.hdr[n].size
      /\ \A d \in Chunks(g) : d # c =>
           /\ g.hdr[d].size = h.hdr[d].size /\ EndOf(g.hdr, d) = EndOf(h.hdr, d)
           /\ d # t => g.hdr[d] = h.hdr[d]
      /\ g.hdr[t].alloc = (h.hdr[t].alloc \/ g.hdr[c].size >= AllocBit)
  BY <1>1, <1>2, MergedIs
<1>. HIDE DEF g, t
<1>4. Listed(g) = Listed(h)
  BY <1>3 DEF Listed
<1>5. \A m \in DOMAIN h.next \ ListHeads : Sizes(g)[m] = Sizes(h)[m]
  <2>. SUFFICES ASSUME NEW m \in Listed(h) PROVE Sizes(g)[m] = Sizes(h)[m]
    BY DEF Listed
  <2>1. m \in Chunks(h) /\ m \in Chunks(g) /\ m # c
    BY <1>1, <1>3 DEF ListOf
  <2>. QED BY <1>3, <2>1 DEF Sizes
<1>6. ListOf(g)
  <2>1. IsList(h.next, h.prev, Sizes(h))
    BY <1>1 DEF ListOf
  <2>2. IsList(g.next, g.prev, Sizes(g))
    BY <1>3, <1>5, <2>1, SameSizes
  <2>. QED BY <1>1, <1>3, <1>4, <2>2 DEF ListOf
<1>7. FreeChunks(g) \subseteq Listed(g) \cup {c}
  <2>. SUFFICES ASSUME NEW m \in FreeChunks(g), m # c PROVE m \in Listed(h)
    BY <1>4
  <2>1. m \in Chunks(g) /\ m \in Chunks(h) /\ m # n /\ ~g.hdr[m].alloc
    BY <1>3 DEF FreeChunks
  <2>2. ~h.hdr[m].alloc
    BY <1>3, <2>1
  <2>. QED BY <1>1, <2>1, <2>2 DEF FreeChunks
<1>8. ASSUME NEW m \in Listed(g), g.hdr[m].alloc PROVE MarkedByNeighbour(g, m)
  <2>1. m \in Chunks(g) /\ m \in Chunks(h) /\ m # n /\ m # c /\ m \in Listed(h)
    BY <1>1, <1>3, <1>4, <1>8 DEF ListOf
  <2>2. CASE ~h.hdr[m].alloc
    <3>1. m = t /\ g.hdr[c].size >= AllocBit
      BY <1>3, <1>8, <2>1, <2>2
    <3>. QED BY <1>2, <1>3, <3>1 DEF MarkedByNeighbour
  <2>3. CASE h.hdr[m].alloc
    <3>1. PICK b \in Chunks(h) : EndOf(h.hdr, b) = m /\ h.hdr[b].size >= AllocBit
      BY <1>1, <2>1, <2>3 DEF MarkedByNeighbour
    <3>2. CASE b = n
      <4>1. m = t
        BY <3>1, <3>2 DEF t
      <4>2. h.hdr[c].size \in Nat /\ h.hdr[n].size \in Nat
        BY <1>1, <1>2, <1>3, ChunksAre DEF Chunks
      <4>3. g.hdr[c].size >= AllocBit
        BY <1>3, <3>1, <3>2, <4>2, Constants
      <4>. QED BY <1>2, <1>3, <4>1, <4>3 DEF MarkedByNeighbour
    <3>3. CASE b # n
      <4>1. b # c
        BY <2>1, <3>1
      <4>2. b \in Chunks(g) /\ EndOf(g.hdr, b) = m /\ g.hdr[b].size >= AllocBit
        BY <1>3, <3>1, <3>3, <4>1
      <4>. QED BY <4>2 DEF MarkedByNeighbour
    <3>. QED BY <3>2, <3>3
  <2>. QED BY <2>2, <2>3
<1>. QED BY <1>1, <1>3, <1>4, <1>6, <1>7, <1>8 DEF Ordered, g

-----------------------------------------------------------------------------
(* The steps of mm_malloc.                                                 *)

\* Rounding a request up.
LEMMA AlignUpIs ==
  ASSUME NEW a \in Nat
  PROVE  AlignUp(a) \in Nat /\ AlignUp(a) >= a /\ Divides(MinChunk, AlignUp(a))
<1>. DEFINE b == a + MinChunk - 1
            d == b - (b % MinChunk)
<1>1. MinChunk \in Nat \ {0} /\ b \in Nat
  BY Constants
<1>2. b \div MinChunk \in Int /\ b % MinChunk \in Int
      /\ b = MinChunk * (b \div MinChunk) + (b % MinChunk)
  BY <1>1, DivMod
<1>3. AlignUp(a) = d
  <2>1. \A i \in Int : i * MinChunk = MinChunk * i /\ MinChunk * i \in Int
    BY <1>1
  <2>2. AlignUp(a) = (b \div MinChunk) * MinChunk
    BY DEF AlignUp
  <2>. HIDE DEF b
  <2>3. AlignUp(a) = MinChunk * (b \div MinChunk)
    BY <1>2, <2>1, <2>2
  <2>4. MinChunk * (b \div MinChunk) \in Int
    BY <1>2, <2>1
  <2>. QED BY <1>1, <1>2, <2>3, <2>4
<1>4. d \in Nat /\ Divides(MinChunk, d) /\ b < d + MinChunk
  <2>. HIDE DEF b
  <2>. QED BY <1>1, Aligning
<1>. HIDE DEF d
<1>. QED BY <1>1, <1>3, <1>4

\* The headers hd2 are those of h with the end of chunk c split off.
IsSplit(h, c, size, hd2) ==
  LET n == EndOf(h.hdr, c)
      r == c + size
      remaining == h.hdr[c].size - size
  IN /\ Tiles(hd2) /\ DOMAIN hd2 = Chunks(h) \cup {r} /\ r \notin Chunks(h)
     /\ hd2[c].size = size /\ hd2[c].alloc = h.hdr[c].alloc
     /\ hd2[r].size = remaining /\ hd2[r].alloc = (size >= AllocBit)
     /\ n \in Chunks(h) /\ n # c
     /\ hd2[n].size = h.hdr[n].size
     /\ hd2[n].alloc = (h.hdr[n].alloc \/ remaining >= AllocBit)
     /\ \A d \in Chunks(h) : d # c /\ d # n => hd2[d] = h.hdr[d]

\* The cut of mm_malloc is such a split.
LEMMA CutIs ==
  ASSUME NEW h, Tiles(h.hdr), NEW c \in Chunks(h) \ {HeapEnd},
         NEW size \in 1 .. h.hdr[c].size - 1,
         NEW cut, cut = [Put(h.hdr, c + size, h.hdr[c].size - size, size, FALSE)
                           EXCEPT ![c].size = size]
  PROVE  IsSplit(h, c, size, TellNext(cut, NextChunk(h, c), h.hdr[c].size - size))
<1>. DEFINE hd == h.hdr
            n == EndOf(hd, c)
            r == c + size
            remaining == hd[c].size - size
            R == Header(remaining, size, FALSE)
            put == Put(hd, r, remaining, size, FALSE)
            C == [hd[c] EXCEPT !.size = size]
            N == Header(hd[n].size, remaining, hd[n].alloc)
            hd2 == TellNext(cut, n, remaining)
<1>1. /\ hd[c].size \in 1 .. HeapSize /\ c \in Nat /\ c < n /\ HeapSize \in Nat
      /\ hd[c] \in HeaderType
  BY ChunkFacts, Constants DEF Chunks, Tiles
<1>2. n \in DOMAIN hd /\ hd[n].size \in 1 .. HeapSize /\ hd[n].alloc \in BOOLEAN /\ n \in Nat
  <2>1. n \in DOMAIN hd
    BY DEF Tiles, Chunks
  <2>. HIDE DEF n
  <2>. QED BY <2>1, ChunkFacts
<1>3. remaining \in 1 .. HeapSize /\ size \in 1 .. HeapSize
      /\ remaining \in 0 .. HeapSize /\ size \in 0 .. HeapSize
  BY <1>1
<1>4. c < r /\ r < n /\ r # c /\ r # n /\ c # n
  <2>1. n = c + hd[c].size
    BY DEF EndOf
  <2>. HIDE DEF n
  <2>. QED BY <1>1, <1>2, <2>1
<1>5. NextChunk(h, c) = n
  BY DEF NextChunk, EndOf
<1>6. R \in HeaderType /\ R.size = remaining /\ R.back = size % AllocBit
      /\ R.alloc = (size >= AllocBit)
  <2>. HIDE DEF remaining
  <2>1. R.alloc = (FALSE \/ size >= AllocBit)
    BY <1>3, HeaderIs
  <2>2. R \in HeaderType /\ R.size = remaining /\ R.back = size % AllocBit
    BY <1>3, HeaderIs
  <2>. HIDE DEF R
  <2>. QED BY <2>1, <2>2
<1>7. N \in HeaderType /\ N.size = hd[n].size /\ N.back = remaining % AllocBit
      /\ N.alloc = (hd[n].alloc \/ remaining >= AllocBit)
  <2>. HIDE DEF remaining, n
  <2>. QED BY <1>2, <1>3, HeaderIs
<1>8. C \in HeaderType /\ C.size = size /\ C.back = hd[c].back /\ C.alloc = hd[c].alloc
  BY <1>1, <1>3 DEF HeaderType
<1>0. cut = [put EXCEPT ![c].size = size]
  OBVIOUS
<1>. HIDE DEF hd, n, r, remaining, R, C, N
<1>9. /\ put = [d \in DOMAIN hd \cup {r} |-> IF d = r THEN R ELSE hd[d]]
      /\ c \in DOMAIN hd
  BY DEF Put, R, Chunks, hd
<1>10. cut = [d \in DOMAIN hd \cup {r} |-> IF d = c THEN C ELSE IF d = r THEN R ELSE hd[d]]
  <2>1. put[c] = hd[c]
    BY <1>4, <1>9
  <2>2. [put[c] EXCEPT !.size = size] = C
    BY <2>1 DEF C
  <2>. HIDE DEF put
  <2>3. cut = [d \in DOMAIN put |-> IF d = c THEN [put[c] EXCEPT !.size = size] ELSE put[d]]
    BY <1>0
  <2>4. cut = [d \in DOMAIN put |-> IF d = c THEN C ELSE put[d]]
    BY <2>2, <2>3
  <2>. QED BY <1>4, <1>9, <2>4
<1>. HIDE DEF put
<1>11. cut[n] = hd[n] /\ n \in DOMAIN cut
  BY <1>2, <1>4, <1>10
<1>12. hd2 = [d \in DOMAIN hd \cup {r} |->
                IF d = n THEN N ELSE IF d = c THEN C ELSE IF d = r THEN R ELSE hd[d]]
  <2>1. hd2 = [d \in DOMAIN cut \cup {n} |-> IF d = n THEN N ELSE cut[d]]
    BY ONLY <1>11 DEF TellNext, Put, N
  <2>. HIDE DEF hd2
  <2>. QED BY ONLY <1>10, <1>11, <2>1
<1>. HIDE DEF hd2
<1>13. /\ DOMAIN hd2 = DOMAIN hd \cup {r} /\ hd2[n] = N /\ hd2[c] = C /\ hd2[r] = R
       /\ \A d \in DOMAIN hd : d # c /\ d # n /\ d # r => hd2[d] = hd[d]
  BY <1>2, <1>4, <1>9, <1>12
<1>14. r \notin DOMAIN hd
  <2>1. \A d \in DOMAIN hd : d <= c \/ d >= n
    BY DEF Tiles, n, hd, Chunks
  <2>2. \A d \in DOMAIN hd : d \in Nat
    BY ChunksAre DEF hd
  <2>. QED BY <1>1, <1>2, <1>4, <1>3, <2>1, <2>2 DEF r
<1>15. \A d \in DOMAIN hd : d # c /\ d # n => hd2[d] = hd[d]
  BY <1>13, <1>14
<1>16. \A d \in DOMAIN hd : hd[d] \in HeaderType
  BY DEF Tiles, hd
<1>17. hd2 \in [DOMAIN hd2 -> HeaderType]
  <2>1. \A d \in DOMAIN hd2 : hd2[d] \in HeaderType
    BY <1>6, <1>7, <1>8, <1>13, <1>15, <1>16
  <2>2. hd2 = [d \in DOMAIN hd2 |-> hd2[d]]
    BY <1>12
  <2>. QED BY ONLY <2>1, <2>2
<1>18. IsCut(hd, c, size, hd2)
  BY <1>6, <1>7, <1>8, <1>13, <1>15, <1>17 DEF IsCut, n, r, remaining
<1>19. Tiles(hd2)
  <2>1. Tiles(hd) /\ c \in DOMAIN hd \ {HeapEnd} /\ size \in 1 .. hd[c].size - 1
    BY DEF hd, Chunks
  <2>. QED BY <1>18, <2>1, CutTiles
<1>20. /\ hd2[c].size = size /\ hd2[c].alloc = hd[c].alloc
       /\ hd2[r].size = remaining /\ hd2[r].alloc = (size >= AllocBit)
       /\ hd2[n].size = hd[n].size /\ hd2[n].alloc = (hd[n].alloc \/ remaining >= AllocBit)
  BY <1>6, <1>7, <1>8, <1>13
<1>21. hd2 = TellNext(cut, NextChunk(h, c), h.hdr[c].size - size)
  BY <1>5 DEF hd2, remaining, hd
<1>. HIDE DEF hd2
<1>22. /\ DOMAIN hd2 = Chunks(h) \cup {r} /\ r \notin Chunks(h) /\ n \in Chunks(h) /\ n # c
       /\ \A d \in Chunks(h) : d # c /\ d # n => hd2[d] = hd[d]
  BY <1>2, <1>4, <1>13, <1>14, <1>15 DEF Chunks, hd
<1>. QED BY <1>19, <1>20, <1>21, <1>22 DEF IsSplit, hd, n, r, remaining

\* Heap g is h with the flag of chunk c set or cleared.
IsFlagged(h, x, c, flag, g) ==
  /\ Ordered(g, IF flag THEN x \ {c} ELSE x \cup {c})
  /\ Chunks(g) = Chunks(h) /\ Listed(g) = Listed(h)
  /\ \A d \in Chunks(h) : /\ g.hdr[d].size = h.hdr[d].size
                          /\ g.hdr[d].back = h.hdr[d].back
                          /\ EndOf(g.hdr, d) = EndOf(h.hdr, d)
                          /\ g.hdr[d].alloc = (IF d = c THEN flag ELSE h.hdr[d].alloc)

\* The flag of a chunk that is not in the list may be set, and cleared if its neighbour's
\* size is kept.
LEMMA FlagIs ==
  ASSUME NEW h, NEW x, Ordered(h, x), NEW c \in Chunks(h) \ Guards, c \notin Listed(h),
         NEW flag \in BOOLEAN,
         flag \/ \A b \in Chunks(h) : EndOf(h.hdr, b) = c => h.hdr[b].size < AllocBit
  PROVE  IsFlagged(h, x, c, flag, [h EXCEPT !.hdr[c].alloc = flag])
<1>. DEFINE g == [h EXCEPT !.hdr[c].alloc = flag]
            hd2 == [h.hdr EXCEPT ![c].alloc = flag]
<1>1. /\ IsHeap(h) /\ Tiles(h.hdr) /\ ListOf(h)
      /\ Listed(h) \cap Guards = {} /\ x \cap Listed(h) = {}
      /\ FreeChunks(h) \subseteq Listed(h) \cup x
      /\ \A m \in Listed(h) : h.hdr[m].alloc => MarkedByNeighbour(h, m)
  BY DEF Ordered
<1>2. g = [hdr |-> hd2, next |-> h.next, prev |-> h.prev]
  <2>1. g = [h EXCEPT !.hdr = hd2]
    OBVIOUS
  <2>2. h = [hdr |-> h.hdr, next |-> h.next, prev |-> h.prev]
    BY <1>1 DEF IsHeap
  <2>. HIDE DEF g, hd2
  <2>. QED BY <2>1, <2>2
<1>3. /\ Tiles(hd2) /\ DOMAIN hd2 = DOMAIN h.hdr
      /\ \A d \in DOMAIN h.hdr : /\ hd2[d].size = h.hdr[d].size /\ hd2[d].back = h.hdr[d].back
                                 /\ hd2[d].alloc = (IF d = c THEN flag ELSE h.hdr[d].alloc)
                                 /\ EndOf(hd2, d) = EndOf(h.hdr, d)
  <2>1. c \in DOMAIN h.hdr /\ c \notin {HeapStart, HeapEnd}
    BY DEF Chunks, Guards
  <2>2. flag \/ \A b \in DOMAIN h.hdr : EndOf(h.hdr, b) = c => h.hdr[b].size < AllocBit
    BY DEF Chunks
  <2>3. hd2 = [h.hdr EXCEPT ![c].alloc = flag]
    OBVIOUS
  <2>. HIDE DEF hd2
  <2>. QED BY <1>1, <2>1, <2>2, <2>3, FlagTiles
<1>. HIDE DEF hd2
<1>4. IsHeap(g) /\ g.hdr = hd2 /\ g.next = h.next /\ g.prev = h.prev
  BY <1>2 DEF IsHeap
<1>. HIDE DEF g
<1>5. Chunks(g) = Chunks(h) /\ Listed(g) = Listed(h)
  BY <1>3, <1>4 DEF Chunks, Listed
<1>6. Sizes(g) = Sizes(h)
  BY <1>3, <1>4, <1>5 DEF Sizes, Chunks
<1>7. ListOf(g)
  BY <1>1, <1>4, <1>5, <1>6 DEF ListOf
<1>8. FreeChunks(g) \subseteq Listed(g) \cup (IF flag THEN x \ {c} ELSE x \cup {c})
  <2>. SUFFICES ASSUME NEW d \in Chunks(h), ~g.hdr[d].alloc
                PROVE  d \in Listed(h) \cup (IF flag THEN x \ {c} ELSE x \cup {c})
    BY <1>5 DEF FreeChunks
  <2>1. d # c => d \in Listed(h) \cup x
    BY <1>1, <1>3, <1>4 DEF FreeChunks, Chunks
  <2>2. d = c => ~flag
    BY <1>3, <1>4 DEF Chunks
  <2>. QED BY <2>1, <2>2
<1>9. \A m \in Listed(g) : g.hdr[m].alloc => MarkedByNeighbour(g, m)
  <2>. SUFFICES ASSUME NEW m \in Listed(h), g.hdr[m].alloc PROVE MarkedByNeighbour(g, m)
    BY <1>5
  <2>1. m \in Chunks(h) /\ m # c
    BY <1>1 DEF ListOf
  <2>2. MarkedByNeighbour(h, m)
    BY <1>1, <1>3, <1>4, <2>1 DEF Chunks
  <2>. QED BY <1>3, <1>4, <1>5, <2>2 DEF MarkedByNeighbour, Chunks
<1>10. (IF flag THEN x \ {c} ELSE x \cup {c}) \cap Listed(g) = {}
  BY <1>1, <1>5
<1>11. Ordered(g, IF flag THEN x \ {c} ELSE x \cup {c})
  BY <1>1, <1>3, <1>4, <1>5, <1>7, <1>8, <1>9, <1>10 DEF Ordered
<1>12. IsFlagged(h, x, c, flag, g)
  BY <1>3, <1>4, <1>5, <1>11 DEF IsFlagged, Chunks
<1>. QED BY <1>12 DEF g

\* Every chunk but the last before the guard has its size kept by the one behind it.
Regular(h) ==
  \A c \in Chunks(h) : EndOf(h.hdr, c) # HeapEnd => h.hdr[c].size < AllocBit

\* In a regular heap the list holds the free chunks and no others.
LEMMA RegularLists ==
  ASSUME NEW h, WellFormed(h), Regular(h)
  PROVE  Listed(h) = FreeChunks(h) /\ Listed(h) \cap Guards = {} /\ Listed(h) \subseteq Chunks(h)
<1>1. /\ FreeChunks(h) \subseteq Listed(h) /\ Listed(h) \cap Guards = {}
      /\ Listed(h) \subseteq Chunks(h) /\ Tiles(h.hdr)
      /\ \A m \in Listed(h) : h.hdr[m].alloc => MarkedByNeighbour(h, m)
  BY DEF WellFormed, Ordered, ListOf
<1>2. ASSUME NEW m \in Listed(h) PROVE ~h.hdr[m].alloc
  <2>. SUFFICES ASSUME NEW b \in Chunks(h), EndOf(h.hdr, b) = m, h.hdr[b].size >= AllocBit
                PROVE  FALSE
    BY <1>1, <1>2 DEF MarkedByNeighbour
  <2>1. h.hdr[b].size < AllocBit
    BY <1>1 DEF Regular, Guards
  <2>2. h.hdr[b].size \in Nat /\ AllocBit \in Nat
    BY <1>1, ChunksAre, Constants DEF Chunks
  <2>. QED BY <2>1, <2>2
<1>. QED BY <1>1, <1>2 DEF FreeChunks

\* Heap g is h with size or more of the listed chunk c taken; the rest, if a node of the
\* list has room in it, is a listed chunk.
IsTaken(h, c, size, g) ==
  /\ WellFormed(g)
  /\ Chunks(h) \subseteq Chunks(g) /\ Chunks(g) \subseteq Chunks(h) \cup {c + size}
  /\ Listed(g) = (Listed(h) \ {c}) \cup (Chunks(g) \ Chunks(h))
  /\ g.hdr[c].alloc /\ size <= g.hdr[c].size /\ g.hdr[c].size <= h.hdr[c].size
  /\ \A d \in Chunks(h) \ {c} : /\ g.hdr[d].size = h.hdr[d].size
                                /\ EndOf(g.hdr, d) = EndOf(h.hdr, d)
                                /\ g.hdr[d].alloc = h.hdr[d].alloc
  /\ Chunks(g) = Chunks(h) => g.hdr[c].size = h.hdr[c].size
  /\ \A r \in Chunks(g) \ Chunks(h) : /\ g.hdr[c].size = size
                                      /\ g.hdr[r].size = h.hdr[c].size - size
                                      /\ g.hdr[r].size >= FreeNode

\* The whole of an allocation: unlink, cut, list the rest, set the flag.
LEMMA TakenIs ==
  ASSUME NEW h, WellFormed(h), Regular(h), NEW c \in Listed(h),
         NEW size \in Nat, size > 0, size <= h.hdr[c].size
  PROVE  IsTaken(h, c, size, Taken(h, c, size))
<1>. DEFINE out == Unlink(h, c)
            left == h.hdr[c].size - size
            rest == IF Splits(left) THEN Split(out, c, size) ELSE out
            g == [rest EXCEPT !.hdr[c].alloc = TRUE]
            n == EndOf(h.hdr, c)
            r == c + size
<1>1. /\ Ordered(h, {}) /\ Tiles(h.hdr) /\ Apart(h.hdr)
      /\ c \in Chunks(h) \ Guards /\ ~h.hdr[c].alloc /\ c \in Chunks(h) \ {HeapEnd}
      /\ h.hdr[c].size \in Nat /\ AllocBit \in Nat /\ FreeNode \in Nat /\ FreeNode > 0
      /\ c \in Nat
  <2>1. Tiles(h.hdr)
    BY DEF WellFormed, Ordered
  <2>2. c \in Chunks(h) \ Guards /\ ~h.hdr[c].alloc
    BY RegularLists DEF FreeChunks
  <2>. QED BY <2>1, <2>2, ChunksAre, Constants DEF WellFormed, Chunks, Guards
<1>2. Ordered(out, {c}) /\ out.hdr = h.hdr /\ Listed(out) = Listed(h) \ {c}
      /\ Chunks(out) = Chunks(h)
  <2>1. Ordered(out, {} \cup {c}) /\ out.hdr = h.hdr /\ Listed(out) = Listed(h) \ {c}
    BY <1>1, UnlinkIs
  <2>2. {} \cup {c} = {c}
    OBVIOUS
  <2>. HIDE DEF out
  <2>. QED BY <2>1, <2>2 DEF Chunks
<1>3. n \in Chunks(h) /\ n # c /\ h.hdr[n].alloc
  <2>1. n \in Chunks(h) /\ c < n
    BY <1>1, ChunksAre DEF Tiles, Chunks
  <2>2. h.hdr[n].alloc
    BY <1>1 DEF Apart, Chunks
  <2>. QED BY <1>1, <2>1, <2>2
<1>. HIDE DEF out
<1>4. CASE ~Splits(left)
  <2>1. rest = out
    BY <1>4
  <2>. HIDE DEF rest
  <2>2. c \in Chunks(rest) \ Guards /\ Ordered(rest, {c}) /\ c \notin Listed(rest)
    BY <1>1, <1>2, <2>1
  <2>3. /\ Ordered(g, IF TRUE THEN {c} \ {c} ELSE {c} \cup {c})
        /\ Chunks(g) = Chunks(rest) /\ Listed(g) = Listed(rest)
        /\ \A d \in Chunks(rest) :
              /\ g.hdr[d].size = rest.hdr[d].size
              /\ EndOf(g.hdr, d) = EndOf(rest.hdr, d)
              /\ g.hdr[d].alloc = (IF d = c THEN TRUE ELSE rest.hdr[d].alloc)
    <3>1. IsFlagged(rest, {c}, c, TRUE, g)
      BY <2>2, FlagIs
    <3>. HIDE DEF g
    <3>. QED BY <3>1 DEF IsFlagged
  <2>. HIDE DEF g
  <2>4. Ordered(g, {}) /\ Chunks(g) = Chunks(h) /\ Listed(g) = Listed(h) \ {c}
    <3>1. (IF TRUE THEN {c} \ {c} ELSE {c} \cup {c}) = {}
      OBVIOUS
    <3>. QED BY <1>2, <2>1, <2>3, <3>1
  <2>5. \A d \in Chunks(h) : /\ g.hdr[d].size = h.hdr[d].size
                             /\ EndOf(g.hdr, d) = EndOf(h.hdr, d)
                             /\ d # c => g.hdr[d].alloc = h.hdr[d].alloc
    BY <1>2, <2>1, <2>3
  <2>6. g.hdr[c].alloc
    BY <1>1, <1>2, <2>1, <2>3
  <2>7. Apart(g.hdr)
    <3>1. \A d \in Chunks(h) \ {HeapEnd} : EndOf(h.hdr, d) \in Chunks(h)
      BY <1>1 DEF Tiles, Chunks
    <3>2. \A d \in Chunks(h) : h.hdr[d].alloc => g.hdr[d].alloc
      BY <2>5, <2>6
    <3>. QED BY <1>1, <2>4, <2>5, <3>1, <3>2 DEF Apart, Chunks
  <2>8. WellFormed(g)
    BY <2>4, <2>7 DEF WellFormed
  <2>9. IsTaken(h, c, size, g)
    BY <1>1, <2>4, <2>5, <2>6, <2>8 DEF IsTaken
  <2>10. Taken(h, c, size) = g
    BY DEF Taken, g, rest, out
  <2>. QED BY <2>9, <2>10
<1>5. CASE Splits(left)
  <2>. DEFINE cut == [Put(out.hdr, r, left, size, FALSE) EXCEPT ![c].size = size]
              hd2 == TellNext(cut, NextChunk(out, c), left)
              mid == [out EXCEPT !.hdr = hd2]
  <2>1. size \in 1 .. h.hdr[c].size - 1 /\ left >= FreeNode /\ left \in Nat /\ left > 0
    BY <1>1, <1>5 DEF Splits
  <2>2. rest = AddFreeChunk(mid, r)
    BY <1>2, <1>5 DEF Split
  <2>3. /\ Tiles(hd2) /\ DOMAIN hd2 = Chunks(h) \cup {r} /\ r \notin Chunks(h)
        /\ hd2[c].size = size /\ hd2[c].alloc = h.hdr[c].alloc
        /\ hd2[r].size = left /\ hd2[r].alloc = (size >= AllocBit)
        /\ hd2[n].size = h.hdr[n].size
        /\ hd2[n].alloc = (h.hdr[n].alloc \/ left >= AllocBit)
        /\ \A d \in Chunks(h) : d # c /\ d # n => hd2[d] = h.hdr[d]
    <3>1. Tiles(out.hdr) /\ c \in Chunks(out) \ {HeapEnd} /\ size \in 1 .. out.hdr[c].size - 1
          /\ out.hdr = h.hdr /\ left = out.hdr[c].size - size
      BY <1>1, <1>2, <2>1
    <3>2. cut = [Put(out.hdr, c + size, out.hdr[c].size - size, size, FALSE) EXCEPT ![c].size = size]
      BY <3>1
    <3>. HIDE DEF cut, left
    <3>3. IsSplit(out, c, size, hd2)
      BY <3>1, <3>2, CutIs
    <3>. HIDE DEF hd2
    <3>. QED BY <1>2, <3>1, <3>3 DEF IsSplit, left
  <2>. HIDE DEF hd2, rest
  <2>4. IsHeap(mid) /\ mid.hdr = hd2 /\ mid.next = out.next /\ mid.prev = out.prev
    <3>1. out = [hdr |-> out.hdr, next |-> out.next, prev |-> out.prev]
      BY <1>2 DEF Ordered, IsHeap
    <3>2. mid = [hdr |-> hd2, next |-> out.next, prev |-> out.prev]
      BY <3>1
    <3>. QED BY <3>2 DEF IsHeap
  <2>. HIDE DEF mid, n, left
  <2>5. Chunks(mid) = Chunks(h) \cup {r} /\ Listed(mid) = Listed(h) \ {c}
    BY <1>2, <2>3, <2>4 DEF Chunks, Listed
  <2>6. \A d \in Chunks(h) \ {c} : /\ mid.hdr[d].size = h.hdr[d].size
                                   /\ mid.hdr[d].alloc = h.hdr[d].alloc
                                   /\ EndOf(mid.hdr, d) = EndOf(h.hdr, d)
    <3>1. hd2[n].alloc = h.hdr[n].alloc
      BY <1>3, <2>3
    <3>. QED BY <2>3, <2>4, <3>1 DEF EndOf
  <2>7. r \in Chunks(mid) \ Guards /\ r \notin Listed(h) /\ r # c
    <3>1. Guards \subseteq Chunks(h) /\ Listed(h) \subseteq Chunks(h)
      BY <1>1 DEF Tiles, Guards, Chunks, Ordered, ListOf
    <3>. QED BY <1>1, <2>3, <2>5, <3>1
  <2>8. ListOf(mid)
    <3>1. IsList(out.next, out.prev, Sizes(out)) /\ Listed(out) \subseteq Chunks(out)
      BY <1>2 DEF Ordered, ListOf
    <3>2. \A d \in DOMAIN out.next \ ListHeads : Sizes(mid)[d] = Sizes(out)[d]
      BY <1>2, <2>5, <2>6, <3>1 DEF Listed, Sizes
    <3>3. IsList(out.next, out.prev, Sizes(mid))
      BY <3>1, <3>2, SameSizes
    <3>. QED BY <1>2, <2>4, <2>5, <3>1, <3>3 DEF ListOf
  <2>9. Ordered(mid, {c, r})
    <3>1. Listed(mid) \cap Guards = {} /\ {c, r} \cap Listed(mid) = {}
      BY <2>5, <2>7, RegularLists
    <3>2. FreeChunks(mid) \subseteq Listed(mid) \cup {c, r}
      BY <2>5, <2>6, RegularLists DEF FreeChunks
    <3>3. \A m \in Listed(mid) : ~mid.hdr[m].alloc
      BY <2>5, <2>6, RegularLists DEF FreeChunks
    <3>. QED BY <2>3, <2>4, <2>8, <3>1, <3>2, <3>3 DEF Ordered
  <2>10. mid.hdr[r].alloc => MarkedByNeighbour(mid, r)
    <3>1. mid.hdr[r].alloc => size >= AllocBit
      BY <2>3, <2>4
    <3>2. EndOf(mid.hdr, c) = r /\ mid.hdr[c].size = size
      BY <2>3, <2>4 DEF EndOf
    <3>. QED BY <1>1, <2>5, <3>1, <3>2 DEF MarkedByNeighbour
  <2>11. Ordered(rest, {c}) /\ rest.hdr = mid.hdr /\ Listed(rest) = (Listed(h) \ {c}) \cup {r}
         /\ Chunks(rest) = Chunks(h) \cup {r}
    <3>1. Ordered(rest, {c, r} \ {r}) /\ rest.hdr = mid.hdr /\ Listed(rest) = Listed(mid) \cup {r}
      BY <2>2, <2>7, <2>9, <2>10, AddIs
    <3>2. {c, r} \ {r} = {c}
      BY <2>7
    <3>. HIDE DEF r
    <3>. QED BY <2>5, <3>1, <3>2 DEF Chunks
  <2>12. Ordered(rest, {c}) /\ c \in Chunks(rest) \ Guards /\ c \notin Listed(rest)
    BY <1>1, <2>7, <2>11
  <2>13. /\ Ordered(g, IF TRUE THEN {c} \ {c} ELSE {c} \cup {c})
         /\ Chunks(g) = Chunks(rest) /\ Listed(g) = Listed(rest)
         /\ \A d \in Chunks(rest) :
              /\ g.hdr[d].size = rest.hdr[d].size
              /\ EndOf(g.hdr, d) = EndOf(rest.hdr, d)
              /\ g.hdr[d].alloc = (IF d = c THEN TRUE ELSE rest.hdr[d].alloc)
    <3>1. IsFlagged(rest, {c}, c, TRUE, g)
      BY <2>12, FlagIs
    <3>. HIDE DEF g
    <3>. QED BY <3>1 DEF IsFlagged
  <2>. HIDE DEF g
  <2>14. Ordered(g, {}) /\ Chunks(g) = Chunks(h) \cup {r} /\ Listed(g) = (Listed(h) \ {c}) \cup {r}
    <3>1. (IF TRUE THEN {c} \ {c} ELSE {c} \cup {c}) = {}
      OBVIOUS
    <3>. QED BY <2>11, <2>13, <3>1
  <2>15. \A d \in Chunks(h) \ {c} : /\ g.hdr[d].size = h.hdr[d].size
                                    /\ EndOf(g.hdr, d) = EndOf(h.hdr, d)
                                    /\ g.hdr[d].alloc = h.hdr[d].alloc
    BY <2>6, <2>11, <2>13
  <2>16. g.hdr[c].alloc /\ g.hdr[c].size = size /\ EndOf(g.hdr, c) = r
    BY <1>1, <2>3, <2>4, <2>11, <2>13 DEF EndOf
  <2>17. g.hdr[r].size = left /\ EndOf(g.hdr, r) = n
    <3>1. g.hdr[r].size = left
      BY <2>3, <2>4, <2>7, <2>11, <2>13
    <3>2. r + left = n
      BY <1>1 DEF r, left, n, EndOf
    <3>. QED BY <3>1, <3>2 DEF EndOf
  <2>18. Apart(g.hdr)
    <3>. SUFFICES ASSUME NEW d \in Chunks(g) \ {HeapEnd}
                  PROVE  g.hdr[d].alloc \/ g.hdr[EndOf(g.hdr, d)].alloc
      BY DEF Apart, Chunks
    <3>1. d = c => g.hdr[d].alloc
      BY <2>16
    <3>2. d = r => g.hdr[EndOf(g.hdr, d)].alloc
      BY <1>3, <2>15, <2>17
    <3>3. d \in Chunks(h) \ {c} => g.hdr[d].alloc \/ g.hdr[EndOf(g.hdr, d)].alloc
      <4>. SUFFICES ASSUME d \in Chunks(h) \ {c}
                    PROVE  g.hdr[d].alloc \/ g.hdr[EndOf(g.hdr, d)].alloc
        OBVIOUS
      <4>1. h.hdr[d].alloc \/ h.hdr[EndOf(h.hdr, d)].alloc
        BY <1>1 DEF Apart, Chunks
      <4>2. EndOf(h.hdr, d) \in Chunks(h)
        BY <1>1 DEF Tiles, Chunks
      <4>. QED BY <2>15, <2>16, <4>1, <4>2
    <3>. QED BY <2>14, <3>1, <3>2, <3>3
  <2>19. WellFormed(g)
    BY <2>14, <2>18 DEF WellFormed
  <2>20. IsTaken(h, c, size, g)
    BY <1>1, <2>1, <2>3, <2>7, <2>14, <2>15, <2>16, <2>17, <2>19 DEF IsTaken, left, r
  <2>21. Taken(h, c, size) = g
    BY <1>5 DEF Taken, g, rest, out, left
  <2>. QED BY <2>20, <2>21
<1>. QED BY <1>4, <1>5

-----------------------------------------------------------------------------
(* mm_free.                                                                *)

\* One chunk ends where another starts.
LEMMA OnePredecessor ==
  ASSUME NEW hd, Tiles(hd), NEW d \in DOMAIN hd, NEW e \in DOMAIN hd,
         EndOf(hd, d) = EndOf(hd, e)
  PROVE  d = e
<1>1. /\ \A i \in DOMAIN hd : /\ i \in Nat /\ EndOf(hd, i) \in Nat
                              /\ i < EndOf(hd, i) /\ i <= HeapEnd
      /\ HeapEnd \in Nat
  BY ChunksAre
<1>2. \A i \in DOMAIN hd \ {HeapEnd} : \A j \in DOMAIN hd : j <= i \/ j >= EndOf(hd, i)
  BY DEF Tiles
<1>3. ~(d < e)
  <2>1. d < e => d # HeapEnd
    BY <1>1
  <2>. QED BY <1>1, <1>2, <2>1
<1>4. ~(e < d)
  <2>1. e < d => e # HeapEnd
    BY <1>1
  <2>. QED BY <1>1, <1>2, <2>1
<1>. QED BY <1>1, <1>3, <1>4

\* No two free chunks touch, unless chunk c is one of them.
ApartBut(hd, c) ==
  \A d \in DOMAIN hd \ {HeapEnd} :
    d = c \/ EndOf(hd, d) = c \/ hd[d].alloc \/ hd[EndOf(hd, d)].alloc

\* The chunk c that is being freed: free, and not in the list.
Loose(h, c) ==
  /\ Ordered(h, {c}) /\ c \in Chunks(h) \ Guards /\ ~h.hdr[c].alloc /\ ApartBut(h.hdr, c)

\* Heap g is what merging chunk c with the one behind it, if that is free, makes of h.
IsJoined(h, c, g) ==
  /\ Loose(g, c) /\ g.hdr[EndOf(g.hdr, c)].alloc
  /\ Chunks(g) \subseteq Chunks(h) /\ Listed(g) \subseteq Listed(h)
  /\ Chunks(g) \ Listed(g) = Chunks(h) \ Listed(h)
  /\ g.hdr[c].size >= h.hdr[c].size
  /\ \A d \in Chunks(g) \ {c} : /\ g.hdr[d].size = h.hdr[d].size
                                /\ EndOf(g.hdr, d) = EndOf(h.hdr, d)
                                /\ g.hdr[d].alloc = h.hdr[d].alloc

\* The first half of a free: the chunk behind.
LEMMA JoinedIs ==
  ASSUME NEW h, NEW c, Loose(h, c)
  PROVE  IsJoined(h, c, MergedWithNext(h, c))
<1>. DEFINE n == EndOf(h.hdr, c)
            t == EndOf(h.hdr, n)
            out == Unlink(h, n)
            g == Merged(out, c)
<1>1. /\ Ordered(h, {c}) /\ Tiles(h.hdr) /\ c \in Chunks(h) \ Guards /\ c # HeapEnd
      /\ ~h.hdr[c].alloc /\ c \notin Listed(h) /\ Listed(h) \cap Guards = {}
      /\ FreeChunks(h) \subseteq Listed(h) \cup {c}
  BY DEF Loose, Ordered, Guards
<1>2. \A d \in Chunks(h) : /\ d \in Nat /\ h.hdr[d].size \in Nat /\ h.hdr[d].size > 0
                           /\ EndOf(h.hdr, d) \in Nat /\ d < EndOf(h.hdr, d)
  BY <1>1, ChunksAre DEF Chunks
<1>3. n \in Chunks(h) /\ n # c /\ NextChunk(h, c) = n
  <2>1. n \in Chunks(h)
    BY <1>1 DEF Tiles, Chunks
  <2>. QED BY <1>1, <1>2, <2>1 DEF NextChunk, EndOf
<1>4. CASE h.hdr[n].alloc
  <2>1. MergedWithNext(h, c) = h
    BY <1>3, <1>4 DEF MergedWithNext
  <2>2. IsJoined(h, c, h)
    BY <1>2, <1>1, <1>4 DEF IsJoined
  <2>. QED BY <2>1, <2>2
<1>5. CASE ~h.hdr[n].alloc
  <2>1. MergedWithNext(h, c) = g
    BY <1>3, <1>5 DEF MergedWithNext
  <2>2. n \in Listed(h) /\ n \notin Guards /\ n # HeapEnd
    BY <1>1, <1>3, <1>5 DEF FreeChunks, Guards
  <2>3. Ordered(out, {c} \cup {n}) /\ out.hdr = h.hdr /\ Listed(out) = Listed(h) \ {n}
    BY <1>1, <2>2, UnlinkIs
  <2>. HIDE DEF out
  <2>4. {c} \cup {n} = {c, n} /\ Chunks(out) = Chunks(h) /\ n = EndOf(out.hdr, c)
        /\ c \in Chunks(out) \ Guards /\ Tiles(out.hdr) /\ IsHeap(out)
    BY <1>1, <2>3 DEF Chunks, Ordered
  <2>. HIDE DEF n
  <2>5. Ordered(g, {c})
    BY <2>2, <2>3, <2>4, MergedOrdered
  <2>6. /\ g.next = out.next /\ Chunks(g) = Chunks(h) \ {n}
        /\ t \in Chunks(g) /\ t # c /\ t # n
        /\ EndOf(g.hdr, c) = t
        /\ g.hdr[c].size = h.hdr[c].size + h.hdr[n].size
        /\ g.hdr[c].alloc = h.hdr[c].alloc
        /\ \A d \in Chunks(g) : d # c =>
             /\ g.hdr[d].size = h.hdr[d].size /\ EndOf(g.hdr, d) = EndOf(h.hdr, d)
             /\ d # t => g.hdr[d] = h.hdr[d]
        /\ g.hdr[t].alloc = (h.hdr[t].alloc \/ g.hdr[c].size >= AllocBit)
    <3>1. c \in Chunks(out) \ {HeapEnd} /\ EndOf(out.hdr, c) # HeapEnd
      BY <1>1, <2>2, <2>4
    <3>2. /\ g.next = out.next /\ Chunks(g) = Chunks(out) \ {EndOf(out.hdr, c)}
          /\ EndOf(out.hdr, EndOf(out.hdr, c)) \in Chunks(g)
          /\ EndOf(out.hdr, EndOf(out.hdr, c)) # c
          /\ EndOf(out.hdr, EndOf(out.hdr, c)) # EndOf(out.hdr, c)
          /\ EndOf(g.hdr, c) = EndOf(out.hdr, EndOf(out.hdr, c))
          /\ g.hdr[c].size = out.hdr[c].size + out.hdr[EndOf(out.hdr, c)].size
          /\ g.hdr[c].alloc = out.hdr[c].alloc
          /\ \A d \in Chunks(g) : d # c =>
               /\ g.hdr[d].size = out.hdr[d].size /\ EndOf(g.hdr, d) = EndOf(out.hdr, d)
               /\ d # EndOf(out.hdr, EndOf(out.hdr, c)) => g.hdr[d] = out.hdr[d]
          /\ g.hdr[EndOf(out.hdr, EndOf(out.hdr, c))].alloc =
               (out.hdr[EndOf(out.hdr, EndOf(out.hdr, c))].alloc \/ g.hdr[c].size >= AllocBit)
      BY <2>4, <3>1, MergedIs
    <3>. HIDE DEF g
    <3>. QED BY <2>3, <2>4, <3>2
  <2>. HIDE DEF g, t
  <2>7. h.hdr[t].alloc
    <3>1. n \in DOMAIN h.hdr \ {HeapEnd} /\ n # c /\ t = EndOf(h.hdr, n) /\ t # c
      BY <1>3, <2>2, <2>6 DEF Chunks, t
    <3>. QED BY <1>5, <3>1 DEF Loose, ApartBut
  <2>8. \A d \in Chunks(g) \ {c} : /\ g.hdr[d].size = h.hdr[d].size
                                   /\ EndOf(g.hdr, d) = EndOf(h.hdr, d)
                                   /\ g.hdr[d].alloc = h.hdr[d].alloc
    BY <2>6, <2>7
  <2>9. Listed(g) = Listed(h) \ {n}
    BY <2>3, <2>6 DEF Listed
  <2>10. ApartBut(g.hdr, c)
    <3>. SUFFICES ASSUME NEW d \in Chunks(g) \ {HeapEnd}, d # c, EndOf(g.hdr, d) # c
                  PROVE  g.hdr[d].alloc \/ g.hdr[EndOf(g.hdr, d)].alloc
      BY DEF ApartBut, Chunks
    <3>1. EndOf(g.hdr, d) \in Chunks(g)
      BY <2>5 DEF Ordered, Tiles, Chunks
    <3>2. d \in DOMAIN h.hdr \ {HeapEnd} /\ EndOf(g.hdr, d) = EndOf(h.hdr, d)
      BY <2>6 DEF Chunks
    <3>3. h.hdr[d].alloc \/ h.hdr[EndOf(h.hdr, d)].alloc
      BY <3>2 DEF Loose, ApartBut
    <3>. QED BY <2>8, <3>1, <3>2, <3>3
  <2>11. c \in Chunks(g) \ Guards /\ ~g.hdr[c].alloc /\ g.hdr[c].size >= h.hdr[c].size
    BY <1>1, <1>2, <1>3, <2>6
  <2>12. g.hdr[EndOf(g.hdr, c)].alloc
    BY <2>6, <2>7
  <2>13. Chunks(g) \ Listed(g) = Chunks(h) \ Listed(h)
    BY <2>2, <2>6, <2>9
  <2>14. Loose(g, c)
    BY <2>5, <2>10, <2>11 DEF Loose
  <2>15. IsJoined(h, c, g)
    BY <2>6, <2>8, <2>9, <2>11, <2>12, <2>13, <2>14 DEF IsJoined
  <2>. QED BY <2>1, <2>15
<1>. QED BY <1>4, <1>5

\* Heap g is what chunk b, before the freed chunk c, makes of h when it takes c in.
IsAbsorbed(h, b, c, g) ==
  /\ Ordered(g, {b}) /\ Apart(g.hdr) /\ ~g.hdr[b].alloc
  /\ b \in Chunks(g) \ Guards /\ b \in Listed(h)
  /\ Chunks(g) = Chunks(h) \ {c} /\ Listed(g) = Listed(h) \ {b}
  /\ g.hdr[b].size >= h.hdr[c].size
  /\ \A d \in Chunks(g) \ {b} : /\ g.hdr[d].size = h.hdr[d].size
                                /\ g.hdr[d].alloc = h.hdr[d].alloc

\* The chunk before is allocated, or takes the freed chunk in.
LEMMA JoinedBefore ==
  ASSUME NEW h, NEW c, Loose(h, c), h.hdr[EndOf(h.hdr, c)].alloc,
         NEW b \in Chunks(h), EndOf(h.hdr, b) = c
  PROVE  /\ h.hdr[b].alloc => Apart(h.hdr)
         /\ ~h.hdr[b].alloc => IsAbsorbed(h, b, c, Merged(Unlink(h, b), b))
<1>. DEFINE t == EndOf(h.hdr, c)
            out == Unlink(h, b)
            g == Merged(out, b)
<1>1. /\ Ordered(h, {c}) /\ Tiles(h.hdr) /\ c \in Chunks(h) \ Guards
      /\ c # HeapEnd /\ c # HeapStart
      /\ ~h.hdr[c].alloc /\ c \notin Listed(h) /\ Listed(h) \cap Guards = {}
      /\ FreeChunks(h) \subseteq Listed(h) \cup {c}
  BY DEF Loose, Ordered, Guards
<1>2. \A d \in Chunks(h) : /\ d \in Nat /\ h.hdr[d].size \in Nat /\ h.hdr[d].size > 0
                           /\ EndOf(h.hdr, d) \in Nat /\ d < EndOf(h.hdr, d) /\ d <= HeapEnd
  BY <1>1, ChunksAre DEF Chunks
<1>3. b < c /\ c < t /\ b # c /\ t # c /\ t # b /\ b # HeapEnd /\ t \in Chunks(h)
  <2>1. t \in Chunks(h)
    BY <1>1 DEF Tiles, Chunks
  <2>2. HeapEnd \in Nat
    BY Constants
  <2>. HIDE DEF t
  <2>3. c < t
    BY <1>1, <1>2 DEF t
  <2>. QED BY <1>1, <1>2, <2>1, <2>2, <2>3
<1>4. \A d \in Chunks(h) : EndOf(h.hdr, d) = c => d = b
  BY <1>1, OnePredecessor DEF Chunks
<1>5. ASSUME h.hdr[b].alloc PROVE Apart(h.hdr)
  <2>. SUFFICES ASSUME NEW d \in DOMAIN h.hdr \ {HeapEnd}
                PROVE  h.hdr[d].alloc \/ h.hdr[EndOf(h.hdr, d)].alloc
    BY DEF Apart
  <2>1. d = c \/ EndOf(h.hdr, d) = c \/ h.hdr[d].alloc \/ h.hdr[EndOf(h.hdr, d)].alloc
    BY DEF Loose, ApartBut
  <2>2. EndOf(h.hdr, d) = c => h.hdr[d].alloc
    BY <1>4, <1>5 DEF Chunks
  <2>. QED BY <2>1, <2>2
<1>6. ASSUME ~h.hdr[b].alloc PROVE IsAbsorbed(h, b, c, g)
  <2>1. b \in Listed(h) /\ b \notin Guards
    BY <1>1, <1>3, <1>6 DEF FreeChunks
  <2>2. Ordered(out, {c} \cup {b}) /\ out.hdr = h.hdr /\ Listed(out) = Listed(h) \ {b}
    BY <1>1, <2>1, UnlinkIs
  <2>. HIDE DEF out
  <2>3. {c} \cup {b} = {b, c} /\ Chunks(out) = Chunks(h) /\ c = EndOf(out.hdr, b)
        /\ b \in Chunks(out) \ Guards /\ Tiles(out.hdr) /\ IsHeap(out)
    BY <2>1, <2>2 DEF Chunks, Ordered
  <2>4. Ordered(g, {b})
    BY <1>1, <2>2, <2>3, MergedOrdered
  <2>5. /\ g.next = out.next /\ Chunks(g) = Chunks(h) \ {c} /\ t \in Chunks(g)
        /\ EndOf(g.hdr, b) = t
        /\ g.hdr[b].size = h.hdr[b].size + h.hdr[c].size
        /\ g.hdr[b].alloc = h.hdr[b].alloc
        /\ \A d \in Chunks(g) : d # b =>
             /\ g.hdr[d].size = h.hdr[d].size /\ EndOf(g.hdr, d) = EndOf(h.hdr, d)
             /\ d # t => g.hdr[d] = h.hdr[d]
        /\ g.hdr[t].alloc = (h.hdr[t].alloc \/ g.hdr[b].size >= AllocBit)
    <3>1. b \in Chunks(out) \ {HeapEnd} /\ EndOf(out.hdr, b) # HeapEnd
      BY <1>1, <1>3, <2>3
    <3>2. /\ g.next = out.next /\ Chunks(g) = Chunks(out) \ {EndOf(out.hdr, b)}
          /\ EndOf(out.hdr, EndOf(out.hdr, b)) \in Chunks(g)
          /\ EndOf(g.hdr, b) = EndOf(out.hdr, EndOf(out.hdr, b))
          /\ g.hdr[b].size = out.hdr[b].size + out.hdr[EndOf(out.hdr, b)].size
          /\ g.hdr[b].alloc = out.hdr[b].alloc
          /\ \A d \in Chunks(g) : d # b =>
               /\ g.hdr[d].size = out.hdr[d].size /\ EndOf(g.hdr, d) = EndOf(out.hdr, d)
               /\ d # EndOf(out.hdr, EndOf(out.hdr, b)) => g.hdr[d] = out.hdr[d]
          /\ g.hdr[EndOf(out.hdr, EndOf(out.hdr, b))].alloc =
               (out.hdr[EndOf(out.hdr, EndOf(out.hdr, b))].alloc \/ g.hdr[b].size >= AllocBit)
      BY <2>3, <3>1, MergedIs
    <3>. HIDE DEF g
    <3>. QED BY <2>2, <2>3, <3>2
  <2>. HIDE DEF g
  <2>6. h.hdr[t].alloc
    OBVIOUS
  <2>. HIDE DEF t
  <2>7. \A d \in Chunks(g) \ {b} : /\ g.hdr[d].size = h.hdr[d].size
                                   /\ EndOf(g.hdr, d) = EndOf(h.hdr, d)
                                   /\ g.hdr[d].alloc = h.hdr[d].alloc
    BY <2>5, <2>6
  <2>8. Listed(g) = Listed(h) \ {b}
    BY <2>2, <2>5 DEF Listed
  <2>9. Apart(g.hdr)
    <3>. SUFFICES ASSUME NEW d \in Chunks(g) \ {HeapEnd}
                  PROVE  g.hdr[d].alloc \/ g.hdr[EndOf(g.hdr, d)].alloc
      BY DEF Apart, Chunks
    <3>1. d = b => g.hdr[EndOf(g.hdr, d)].alloc
      BY <2>5, <2>6
    <3>2. ASSUME d # b PROVE g.hdr[d].alloc \/ g.hdr[EndOf(g.hdr, d)].alloc
      <4>1. d \in DOMAIN h.hdr \ {HeapEnd} /\ d # c /\ EndOf(h.hdr, d) # c
        BY <1>4, <2>5, <3>2 DEF Chunks
      <4>2. h.hdr[d].alloc \/ h.hdr[EndOf(h.hdr, d)].alloc
        BY <4>1 DEF Loose, ApartBut
      <4>3. EndOf(h.hdr, d) \in Chunks(g)
        <5>1. EndOf(h.hdr, d) \in Chunks(h)
          BY <1>1, <4>1 DEF Tiles, Chunks
        <5>. QED BY <2>5, <4>1, <5>1
      <4>4. h.hdr[EndOf(h.hdr, d)].alloc => g.hdr[EndOf(h.hdr, d)].alloc
        BY <1>6, <2>7, <4>3
      <4>. QED BY <2>7, <3>2, <4>2, <4>4
    <3>. QED BY <3>1, <3>2
  <2>10. b \in Chunks(g) \ Guards /\ ~g.hdr[b].alloc /\ g.hdr[b].size >= h.hdr[c].size
    BY <1>2, <1>1, <1>3, <1>6, <2>1, <2>5
  <2>. QED BY <2>1, <2>4, <2>5, <2>7, <2>8, <2>9, <2>10 DEF IsAbsorbed
<1>. QED BY <1>5, <1>6

\* The chunks that are the callers'.
Held(h) == (Chunks(h) \ Listed(h)) \ Guards

\* Heap g is h with chunk q freed.
IsFreed(h, q, g) ==
  /\ WellFormed(g)
  /\ Chunks(g) \subseteq Chunks(h) /\ Held(g) = Held(h) \ {q}
  /\ \A d \in Held(g) : g.hdr[d].size = h.hdr[d].size
  /\ \A d \in Chunks(g) : g.hdr[d].alloc =>
       h.hdr[d].alloc /\ d # q /\ g.hdr[d].size = h.hdr[d].size
  /\ \A d \in Listed(g) : \/ g.hdr[d].size >= h.hdr[q].size
                          \/ d \in Listed(h) /\ g.hdr[d].size = h.hdr[d].size

\* The whole of a free: clear the flag, merge with both neighbours, list the result.
LEMMA FreeIs ==
  ASSUME NEW h, WellFormed(h), NEW p \in Int, p - AllocNode \in Held(h),
         \A b \in Chunks(h) : EndOf(h.hdr, b) = p - AllocNode => h.hdr[b].size < AllocBit
  PROVE  IsFreed(h, p - AllocNode, FreeIn(h, p))
<1>. DEFINE q == p - AllocNode
            clear == [h EXCEPT !.hdr[q].alloc = FALSE]
            joined == MergedWithNext(clear, q)
            before == q - joined.hdr[q].back
            merged == Merged(Unlink(joined, before), before)
<1>1. /\ Ordered(h, {}) /\ Tiles(h.hdr) /\ Apart(h.hdr) /\ Listed(h) \subseteq Chunks(h)
      /\ FreeChunks(h) \subseteq Listed(h) /\ q \in Chunks(h) \ Guards /\ q \notin Listed(h)
      /\ h.hdr[q].alloc
  BY DEF WellFormed, Ordered, ListOf, Held, FreeChunks
<1>. HIDE DEF q
<1>2. /\ Ordered(clear, {q}) /\ Chunks(clear) = Chunks(h) /\ Listed(clear) = Listed(h)
      /\ \A d \in Chunks(h) : /\ clear.hdr[d].size = h.hdr[d].size
                              /\ EndOf(clear.hdr, d) = EndOf(h.hdr, d)
                              /\ clear.hdr[d].alloc = (IF d = q THEN FALSE ELSE h.hdr[d].alloc)
  <2>1. \A b \in Chunks(h) : EndOf(h.hdr, b) = q => h.hdr[b].size < AllocBit
    BY DEF q
  <2>2. /\ Ordered(clear, IF FALSE THEN {} \ {q} ELSE {} \cup {q})
        /\ Chunks(clear) = Chunks(h) /\ Listed(clear) = Listed(h)
        /\ \A d \in Chunks(h) : /\ clear.hdr[d].size = h.hdr[d].size
                                /\ EndOf(clear.hdr, d) = EndOf(h.hdr, d)
                                /\ clear.hdr[d].alloc = (IF d = q THEN FALSE ELSE h.hdr[d].alloc)
    <3>1. IsFlagged(h, {}, q, FALSE, clear)
      BY <1>1, <2>1, FlagIs
    <3>. HIDE DEF clear
    <3>. QED BY <3>1 DEF IsFlagged
  <2>3. (IF FALSE THEN {} \ {q} ELSE {} \cup {q}) = {q}
    OBVIOUS
  <2>. HIDE DEF clear
  <2>. QED BY <2>2, <2>3
<1>3. FreeIn(h, p) = AddFreeChunk(Freed(h, q).heap, Freed(h, q).node)
  BY DEF FreeIn, q
<1>4. Freed(h, q) = IF joined.hdr[before].alloc THEN [heap |-> joined, node |-> q]
                    ELSE [heap |-> merged, node |-> before]
  BY DEF Freed
<1>. HIDE DEF clear
<1>5. Loose(clear, q)
  <2>1. ApartBut(clear.hdr, q)
    <3>1. \A d \in DOMAIN h.hdr \ {HeapEnd} : EndOf(h.hdr, d) \in DOMAIN h.hdr
      BY <1>1 DEF Tiles
    <3>. QED BY <1>1, <1>2, <3>1 DEF ApartBut, Apart, Chunks
  <2>. QED BY <1>1, <1>2, <2>1 DEF Loose
<1>6. IsJoined(clear, q, joined)
  BY <1>5, JoinedIs
<1>. HIDE DEF joined
<1>7. /\ Loose(joined, q) /\ joined.hdr[EndOf(joined.hdr, q)].alloc
      /\ Chunks(joined) \subseteq Chunks(h) /\ Listed(joined) \subseteq Listed(h)
      /\ Chunks(joined) \ Listed(joined) = Chunks(h) \ Listed(h)
      /\ joined.hdr[q].size >= h.hdr[q].size
      /\ \A d \in Chunks(joined) \ {q} : /\ joined.hdr[d].size = h.hdr[d].size
                                         /\ EndOf(joined.hdr, d) = EndOf(h.hdr, d)
                                         /\ joined.hdr[d].alloc = h.hdr[d].alloc
  BY <1>1, <1>2, <1>6 DEF IsJoined
<1>8. /\ Ordered(joined, {q}) /\ Tiles(joined.hdr) /\ q \in Chunks(joined) \ Guards
      /\ ~joined.hdr[q].alloc /\ q \notin Listed(joined)
      /\ Listed(joined) \subseteq Chunks(joined)
  BY <1>7 DEF Loose, Ordered, ListOf
<1>9. before \in Chunks(joined) /\ EndOf(joined.hdr, before) = q
  <2>1. PICK b \in Chunks(joined) : b < q /\ EndOf(joined.hdr, b) = q
    BY <1>8 DEF Tiles, Chunks, Guards
  <2>2. b # q /\ b # HeapEnd
    <3>1. b \in Nat /\ q \in Nat /\ HeapEnd \in Nat /\ q <= HeapEnd
      BY <1>8, <2>1, ChunksAre, Constants DEF Chunks
    <3>. QED BY <2>1, <3>1
  <2>3. joined.hdr[b].size < AllocBit
    <3>1. b \in Chunks(h) /\ EndOf(h.hdr, b) = q /\ joined.hdr[b].size = h.hdr[b].size
      BY <1>7, <2>1, <2>2
    <3>. QED BY <3>1 DEF q
  <2>4. joined.hdr[b].size \in 1 .. HeapSize /\ b \in Nat /\ HeapSize \in Nat
    BY <1>8, <2>1, ChunkFacts, Constants DEF Chunks
  <2>5. joined.hdr[b].size \in 0 .. HeapSize
    BY <2>4
  <2>6. joined.hdr[q].back = joined.hdr[b].size % AllocBit
    BY <1>8, <2>1, <2>2 DEF Tiles, Chunks, Guards
  <2>7. joined.hdr[q].back = joined.hdr[b].size
    BY <2>3, <2>5, <2>6, Remainder
  <2>8. q = b + joined.hdr[b].size
    BY <2>1 DEF EndOf
  <2>9. before = b
    <3>. HIDE DEF q
    <3>. QED BY <2>4, <2>7, <2>8
  <2>. QED BY <2>1, <2>9
<1>. HIDE DEF before
<1>10. \A d \in Chunks(joined) : joined.hdr[d].alloc =>
         h.hdr[d].alloc /\ d # q /\ joined.hdr[d].size = h.hdr[d].size
  BY <1>7, <1>8
<1>11. \A d \in Listed(joined) : d \in Listed(h) /\ joined.hdr[d].size = h.hdr[d].size
  BY <1>7, <1>8
<1>12. h.hdr[q].size \in Nat /\ joined.hdr[q].size \in Nat
  BY <1>1, <1>8, ChunksAre DEF Chunks
<1>13. CASE joined.hdr[before].alloc
  <2>. DEFINE g == AddFreeChunk(joined, q)
  <2>1. FreeIn(h, p) = g
    BY <1>3, <1>4, <1>13
  <2>2. Apart(joined.hdr)
    BY <1>7, <1>9, <1>13, JoinedBefore
  <2>3. Ordered(g, {q} \ {q}) /\ g.hdr = joined.hdr /\ Listed(g) = Listed(joined) \cup {q}
    BY <1>8, AddIs
  <2>. HIDE DEF g
  <2>4. WellFormed(g)
    <3>1. {q} \ {q} = {}
      OBVIOUS
    <3>. QED BY <2>2, <2>3, <3>1 DEF WellFormed
  <2>5. Chunks(g) = Chunks(joined)
    BY <2>3 DEF Chunks
  <2>6. Held(g) = Held(h) \ {q}
    BY <1>7, <1>8, <2>3, <2>5 DEF Held
  <2>7. \A d \in Held(g) : g.hdr[d].size = h.hdr[d].size
    BY <1>7, <2>3, <2>5, <2>6 DEF Held
  <2>8. \A d \in Listed(g) : \/ g.hdr[d].size >= h.hdr[q].size
                             \/ d \in Listed(h) /\ g.hdr[d].size = h.hdr[d].size
    BY <1>7, <1>11, <2>3
  <2>9. IsFreed(h, q, g)
    BY <1>7, <1>10, <2>3, <2>4, <2>5, <2>6, <2>7, <2>8 DEF IsFreed
  <2>. QED BY <2>1, <2>9 DEF q
<1>14. CASE ~joined.hdr[before].alloc
  <2>. DEFINE g == AddFreeChunk(merged, before)
  <2>1. FreeIn(h, p) = g
    BY <1>3, <1>4, <1>14
  <2>2. /\ Ordered(merged, {before}) /\ Apart(merged.hdr) /\ ~merged.hdr[before].alloc
        /\ before \in Chunks(merged) \ Guards /\ before \in Listed(joined)
        /\ Chunks(merged) = Chunks(joined) \ {q} /\ Listed(merged) = Listed(joined) \ {before}
        /\ merged.hdr[before].size >= joined.hdr[q].size
        /\ \A d \in Chunks(merged) \ {before} : /\ merged.hdr[d].size = joined.hdr[d].size
                                                /\ merged.hdr[d].alloc = joined.hdr[d].alloc
    <3>1. IsAbsorbed(joined, before, q, merged)
      BY <1>7, <1>9, <1>14, JoinedBefore
    <3>. HIDE DEF merged
    <3>. QED BY <3>1 DEF IsAbsorbed
  <2>. HIDE DEF merged
  <2>3. /\ Ordered(g, {before} \ {before}) /\ g.hdr = merged.hdr
        /\ Listed(g) = Listed(merged) \cup {before}
    BY <2>2, AddIs
  <2>. HIDE DEF g
  <2>4. WellFormed(g)
    <3>1. {before} \ {before} = {}
      OBVIOUS
    <3>. QED BY <2>2, <2>3, <3>1 DEF WellFormed
  <2>5. Chunks(g) = Chunks(joined) \ {q} /\ Listed(g) = Listed(joined)
    BY <2>2, <2>3 DEF Chunks
  <2>6. Held(g) = Held(h) \ {q}
    BY <1>7, <1>8, <2>5 DEF Held
  <2>7. \A d \in Held(g) : g.hdr[d].size = h.hdr[d].size
    <3>1. \A d \in Held(g) : d \in Chunks(merged) \ {before} /\ d \in Chunks(joined) \ {q}
      BY <2>2, <2>5 DEF Held
    <3>. QED BY <1>7, <2>2, <2>3, <3>1
  <2>8. \A d \in Chunks(g) : g.hdr[d].alloc =>
          h.hdr[d].alloc /\ d # q /\ g.hdr[d].size = h.hdr[d].size
    BY <1>10, <2>2, <2>3, <2>5
  <2>9. \A d \in Listed(g) : \/ g.hdr[d].size >= h.hdr[q].size
                             \/ d \in Listed(h) /\ g.hdr[d].size = h.hdr[d].size
    <3>. SUFFICES ASSUME NEW d \in Listed(joined)
                  PROVE  \/ g.hdr[d].size >= h.hdr[q].size
                         \/ d \in Listed(h) /\ g.hdr[d].size = h.hdr[d].size
      BY <2>5
    <3>1. CASE d = before
      <4>1. merged.hdr[before].size \in Nat
        BY <2>2, ChunksAre DEF Chunks, Ordered
      <4>. QED BY <1>7, <1>12, <2>2, <2>3, <3>1, <4>1
    <3>2. CASE d # before
      <4>1. d \in Chunks(merged) \ {before}
        BY <1>8, <2>2, <3>2
      <4>. QED BY <1>11, <2>2, <2>3, <4>1
    <3>. QED BY <3>1, <3>2
  <2>10. IsFreed(h, q, g)
    BY <1>7, <2>4, <2>5, <2>6, <2>7, <2>8, <2>9 DEF IsFreed
  <2>. QED BY <2>1, <2>10 DEF q
<1>. QED BY <1>13, <1>14

-----------------------------------------------------------------------------
(* mm_heap_initialize.                                                     *)

\* mm_heap_initialize leaves one free chunk between the guards.
LEMMA FirstHeap ==
  ASSUME Init
  PROVE  /\ WellFormed(heap)
         /\ Chunks(heap) = {HeapStart, HeapStart + AllocNode, HeapEnd}
         /\ Listed(heap) = {HeapStart + AllocNode}
         /\ heap.hdr[HeapStart + AllocNode].size = HeapSize - 2 * AllocNode
<1>. DEFINE first == HeapStart + AllocNode
            size == HeapSize - 2 * AllocNode
            A == Header(AllocNode, 0, TRUE)
            B == Header(size, AllocNode, FALSE)
            C == Header(AllocNode, size, TRUE)
            ends == [c \in {HeapStart, first, HeapEnd} |->
                       CASE c = HeapStart -> A [] c = first -> B [] c = HeapEnd -> C]
            nx == [n \in ListHeads |-> IF n + 1 \in ListHeads THEN n + 1 ELSE NULL]
            pv == [n \in ListHeads |-> n - 1]
            h == [hdr |-> ends, next |-> nx, prev |-> pv]
<1>1. /\ size \in 1 .. HeapSize /\ size \in 0 .. HeapSize /\ 0 \in 0 .. HeapSize
      /\ AllocNode \in 1 .. HeapSize /\ AllocNode \in 0 .. HeapSize
      /\ HeapStart \in Nat /\ AllocNode \in Nat /\ AllocNode > 0 /\ HeapEnd \in Nat
      /\ first \in Nat /\ HeapStart < first /\ first < HeapEnd
      /\ HeapStart + AllocNode = first /\ first + size = HeapEnd /\ AllocNode < AllocBit
      /\ AllocBit \in Nat
  BY Constants
<1>2. heap = AddFreeChunk(h, first)
  BY DEF Init
<1>. HIDE DEF size, first
<1>3. /\ A \in HeaderType /\ A.size = AllocNode /\ A.alloc
      /\ B \in HeaderType /\ B.size = size /\ B.back = AllocNode % AllocBit
      /\ C \in HeaderType /\ C.size = AllocNode /\ C.alloc
  BY <1>1, HeaderIs
<1>4. ~B.alloc
  <2>1. B.alloc = (FALSE \/ AllocNode >= AllocBit)
    BY <1>1, HeaderIs
  <2>2. ~(AllocNode >= AllocBit)
    BY <1>1
  <2>. HIDE DEF B
  <2>. QED BY <2>1, <2>2
<1>. HIDE DEF A, B, C
<1>5. /\ DOMAIN ends = {HeapStart, first, HeapEnd}
      /\ ends[HeapStart] = A /\ ends[first] = B /\ ends[HeapEnd] = C
  BY <1>1
<1>6. ends \in [DOMAIN ends -> HeaderType]
  <2>1. \A c \in DOMAIN ends : ends[c] \in HeaderType
    BY <1>3, <1>5
  <2>2. ends = [c \in DOMAIN ends |-> ends[c]]
    OBVIOUS
  <2>. HIDE DEF ends
  <2>. QED BY ONLY <2>1, <2>2
<1>. HIDE DEF ends
<1>7. EndOf(ends, HeapStart) = first /\ EndOf(ends, first) = HeapEnd
  BY <1>1, <1>3, <1>5 DEF EndOf
<1>8. Tiles(ends)
  <2>1. {HeapStart, HeapEnd} \subseteq DOMAIN ends /\ DOMAIN ends \subseteq HeapStart .. HeapEnd
    BY <1>1, <1>5
  <2>2. \A c \in DOMAIN ends \ {HeapEnd} :
          EndOf(ends, c) \in DOMAIN ends /\ \A d \in DOMAIN ends : d <= c \/ d >= EndOf(ends, c)
    BY <1>1, <1>5, <1>7
  <2>3. \A c \in DOMAIN ends \ {HeapStart} : \E b \in DOMAIN ends : b < c /\ EndOf(ends, b) = c
    BY <1>1, <1>5, <1>7
  <2>4. \A c \in DOMAIN ends \ {HeapEnd} :
          EndOf(ends, c) # HeapEnd =>
            /\ ends[EndOf(ends, c)].back = ends[c].size % AllocBit
            /\ ends[c].size >= AllocBit => ends[EndOf(ends, c)].alloc
    BY <1>1, <1>3, <1>5, <1>7
  <2>. QED BY <1>3, <1>5, <1>6, <2>1, <2>2, <2>3, <2>4 DEF Tiles
<1>9. Apart(ends)
  BY <1>1, <1>3, <1>5, <1>7 DEF Apart
<1>10. ListHeads = 0 .. NNodes - 1 /\ NNodes \in Nat /\ NNodes > 0 /\ NULL = -1
       /\ HeapStart >= NNodes
  BY Constants
<1>11. Linked(nx, pv)
  <2>1. \A n \in ListHeads : nx[n] # NULL => n + 1 \in ListHeads /\ nx[n] = n + 1
    OBVIOUS
  <2>2. \A n \in ListHeads : nx[n] # NULL => nx[n] \in ListHeads /\ pv[nx[n]] = n
    BY <1>10
  <2>3. pv[0] = NULL
    BY <1>10
  <2>4. \A n \in ListHeads \ {0} : pv[n] \in ListHeads /\ nx[pv[n]] = n
    BY <1>10
  <2>. QED BY <1>10, <2>2, <2>3, <2>4 DEF Linked
<1>12. \A sz : Sized(nx, sz)
  BY DEF Sized
<1>13. \A sz : Placed(nx, sz, [n \in ListHeads |-> NNodes - 1 - n])
  <2>. DEFINE pos == [n \in ListHeads |-> NNodes - 1 - n]
  <2>. SUFFICES ASSUME NEW sz PROVE Placed(nx, sz, pos)
    OBVIOUS
  <2>1. pos \in [ListHeads -> Nat]
    BY <1>10
  <2>2. \A n \in ListHeads : nx[n] = NULL => pos[n] = 0
    BY <1>10
  <2>3. \A n \in ListHeads : nx[n] # NULL => nx[n] \in ListHeads /\ pos[n] = pos[nx[n]] + 1
    BY <1>10
  <2>4. \A m, n \in ListHeads : pos[m] = pos[n] => m = n
    BY <1>10
  <2>5. \A m, n \in ListHeads : pos[m] > pos[n] => Ahead(sz, m, n)
    BY <1>10 DEF Ahead
  <2>6. DOMAIN nx = ListHeads
    OBVIOUS
  <2>. HIDE DEF pos, nx
  <2>. QED BY <2>1, <2>2, <2>3, <2>4, <2>5, <2>6 DEF Placed
<1>14. DOMAIN nx = ListHeads
  OBVIOUS
<1>. HIDE DEF nx, pv
<1>15. IsHeap(h) /\ h.hdr = ends /\ h.next = nx /\ h.prev = pv
  BY DEF IsHeap
<1>. HIDE DEF h
<1>16. Listed(h) = {} /\ Chunks(h) = {HeapStart, first, HeapEnd} /\ FreeChunks(h) = {first}
  BY <1>3, <1>4, <1>5, <1>14, <1>15 DEF Listed, Chunks, FreeChunks
<1>17. ListOf(h)
  BY <1>11, <1>12, <1>13, <1>15, <1>16 DEF ListOf, IsList
<1>18. Ordered(h, {first})
  BY <1>8, <1>15, <1>16, <1>17 DEF Ordered
<1>19. first \in Chunks(h) \ Guards /\ ~h.hdr[first].alloc
  BY <1>1, <1>4, <1>5, <1>15, <1>16 DEF Guards
<1>20. Ordered(heap, {first} \ {first}) /\ heap.hdr = h.hdr /\ Listed(heap) = Listed(h) \cup {first}
  BY <1>2, <1>18, <1>19, AddIs
<1>21. {first} \ {first} = {}
  OBVIOUS
<1>22. WellFormed(heap)
  BY <1>9, <1>15, <1>20, <1>21 DEF WellFormed
<1>. QED BY <1>3, <1>5, <1>15, <1>16, <1>20, <1>22 DEF Chunks, first, size

-----------------------------------------------------------------------------
(* The blocks of the callers.                                              *)

\* The blocks are the chunks of h that are held, and each has the room asked for.
Kept(blocks, h) ==
  /\ blocks \in [DOMAIN blocks -> Nat] /\ DOMAIN blocks \subseteq Int
  /\ {p - AllocNode : p \in DOMAIN blocks} = Held(h)
  /\ \A p \in DOMAIN blocks : ChunkSize(blocks[p]) <= h.hdr[p - AllocNode].size

\* A request fits in the chunk that malloc looks for, which is a number of granules.
LEMMA ChunkSizeIs ==
  ASSUME NEW request \in Nat
  PROVE  /\ ChunkSize(request) \in Nat /\ ChunkSize(request) > 0
         /\ ChunkSize(request) >= request + AllocNode
         /\ Divides(MinChunk, ChunkSize(request))
<1>1. request + AllocNode \in Nat /\ AllocNode \in Nat /\ AllocNode > 0
  BY Constants
<1>2. /\ AlignUp(request + AllocNode) \in Nat
      /\ AlignUp(request + AllocNode) >= request + AllocNode
      /\ Divides(MinChunk, AlignUp(request + AllocNode))
  BY <1>1, AlignUpIs
<1>3. ChunkSize(request) = AlignUp(request + AllocNode)
  BY DEF ChunkSize
<1>. QED BY <1>1, <1>2, <1>3

\* An allocation makes the chunk taken a held one.
LEMMA HeldTaken ==
  ASSUME NEW h, WellFormed(h), Regular(h), NEW c \in Listed(h), NEW size, NEW g,
         IsTaken(h, c, size, g)
  PROVE  /\ Held(g) = Held(h) \cup {c} /\ c \notin Held(h)
         /\ \A d \in Held(h) : g.hdr[d].size = h.hdr[d].size
<1>1. Listed(h) \cap Guards = {} /\ Listed(h) \subseteq Chunks(h)
  BY RegularLists
<1>2. /\ Chunks(h) \subseteq Chunks(g)
      /\ Listed(g) = (Listed(h) \ {c}) \cup (Chunks(g) \ Chunks(h))
      /\ \A d \in Chunks(h) \ {c} : g.hdr[d].size = h.hdr[d].size
  BY DEF IsTaken
<1>. QED BY <1>1, <1>2 DEF Held

\* A block is added for the chunk taken.
LEMMA KeptGrant ==
  ASSUME NEW h, WellFormed(h), Regular(h), NEW c \in Listed(h),
         NEW request \in Nat, NEW g, IsTaken(h, c, ChunkSize(request), g),
         NEW blocks, Kept(blocks, h)
  PROVE  /\ Kept(Grant(blocks, c + AllocNode, request), g)
         /\ c + AllocNode \notin DOMAIN blocks
         /\ DOMAIN Grant(blocks, c + AllocNode, request) = DOMAIN blocks \cup {c + AllocNode}
<1>. DEFINE p == c + AllocNode
            D == DOMAIN blocks
            blocks2 == Grant(blocks, p, request)
<1>1. c \in Int /\ AllocNode \in Int
  <2>1. c \in Chunks(h) /\ Tiles(h.hdr)
    BY RegularLists DEF WellFormed, Ordered
  <2>. QED BY <2>1, ChunksAre, Constants DEF Chunks
<1>2. /\ Held(g) = Held(h) \cup {c} /\ c \notin Held(h)
      /\ \A d \in Held(h) : g.hdr[d].size = h.hdr[d].size
      /\ ChunkSize(request) <= g.hdr[c].size
  BY HeldTaken DEF IsTaken
<1>3. /\ \A b \in D : b \in Int /\ blocks[b] \in Nat /\ b - AllocNode \in Held(h)
                      /\ ChunkSize(blocks[b]) <= h.hdr[b - AllocNode].size
      /\ \A d \in Held(h) : \E b \in D : d = b - AllocNode
  BY DEF Kept
<1>. HIDE DEF D
<1>4. p \in Int /\ p - AllocNode = c /\ p \notin D
  BY <1>1, <1>2, <1>3
<1>. HIDE DEF p
<1>5. /\ DOMAIN blocks2 = D \cup {p} /\ blocks2[p] = request
      /\ \A b \in D : blocks2[b] = blocks[b]
      /\ blocks2 = [b \in D \cup {p} |-> blocks2[b]]
  BY <1>4 DEF Grant, D
<1>. HIDE DEF blocks2
<1>6. \A b \in D \cup {p} : blocks2[b] \in Nat /\ b \in Int
  BY <1>3, <1>4, <1>5
<1>7. blocks2 \in [DOMAIN blocks2 -> Nat] /\ DOMAIN blocks2 \subseteq Int
  BY <1>5, <1>6
<1>8. \A b \in D \cup {p} : ChunkSize(blocks2[b]) <= g.hdr[b - AllocNode].size
  BY <1>2, <1>3, <1>4, <1>5
<1>9. {b - AllocNode : b \in D \cup {p}} = Held(g)
  BY <1>2, <1>3, <1>4
<1>10. Kept(blocks2, g)
  BY <1>5, <1>7, <1>8, <1>9 DEF Kept
<1>. QED BY <1>4, <1>5, <1>10 DEF blocks2, p, D

\* The block of the freed chunk is gone.
LEMMA KeptFree ==
  ASSUME NEW h, NEW blocks, Kept(blocks, h), NEW p \in DOMAIN blocks,
         NEW g, IsFreed(h, p - AllocNode, g)
  PROVE  Kept([b \in DOMAIN blocks \ {p} |-> blocks[b]], g)
<1>. DEFINE D == DOMAIN blocks
            blocks2 == [b \in D \ {p} |-> blocks[b]]
<1>1. /\ Held(g) = Held(h) \ {p - AllocNode}
      /\ \A d \in Held(g) : g.hdr[d].size = h.hdr[d].size
  BY DEF IsFreed
<1>2. /\ \A b \in D : b \in Int /\ blocks[b] \in Nat /\ b - AllocNode \in Held(h)
                      /\ ChunkSize(blocks[b]) <= h.hdr[b - AllocNode].size
      /\ \A d \in Held(h) : \E b \in D : d = b - AllocNode
  BY DEF Kept
<1>3. \A b \in D : b - AllocNode = p - AllocNode => b = p
  BY <1>2, Constants
<1>4. \A b \in D \ {p} : b - AllocNode \in Held(g)
  BY <1>1, <1>2, <1>3
<1>5. {b - AllocNode : b \in D \ {p}} = Held(g)
  BY <1>1, <1>2, <1>4
<1>6. /\ DOMAIN blocks2 = D \ {p} /\ \A b \in D \ {p} : blocks2[b] = blocks[b]
      /\ blocks2 \in [D \ {p} -> Nat]
  BY <1>2
<1>7. Kept(blocks2, g)
  <2>. HIDE DEF blocks2, D
  <2>1. \A b \in D \ {p} : ChunkSize(blocks2[b]) <= g.hdr[b - AllocNode].size
    BY <1>1, <1>2, <1>4, <1>6
  <2>. QED BY <1>2, <1>5, <1>6, <2>1 DEF Kept
<1>. QED BY <1>7

-----------------------------------------------------------------------------
(* The inductive invariant.                                                *)

\* The heap is well formed, damaged or not, and the blocks are its held chunks.
HeapInv == WellFormed(heap) /\ Kept(given, heap) /\ calls \in 0 .. MaxCalls

\* Calls are made on sound heaps only.
LEMMA CallIs ==
  ASSUME HeapInv, Call
  PROVE  /\ Regular(heap) /\ ~Smashed /\ WellFormed(heap) /\ Kept(given, heap)
         /\ calls' = calls + 1 /\ calls' \in 0 .. MaxCalls
<1>1. Tiles(heap.hdr) /\ WellFormed(heap) /\ Kept(given, heap)
  BY DEF HeapInv, WellFormed, Ordered
<1>2. Regular(heap)
  <2>1. ~Overlong
    BY DEF Call, Sound
  <2>2. \A c \in Chunks(heap) : heap.hdr[c].size \in Nat
    BY <1>1, ChunksAre DEF Chunks
  <2>3. AllocBit \in Nat
    BY Constants
  <2>4. \A c \in Chunks(heap) : EndOf(heap.hdr, c) # HeapEnd => ~(heap.hdr[c].size >= AllocBit)
    BY <2>1 DEF Overlong, NextChunk, EndOf
  <2>. QED BY <2>2, <2>3, <2>4 DEF Regular
<1>3. calls' = calls + 1 /\ calls' \in 0 .. MaxCalls /\ ~Smashed
  BY Constants DEF HeapInv, Call, Sound
<1>. QED BY <1>1, <1>2, <1>3

\* What is found is listed and can be taken.
LEMMA FoundIs ==
  ASSUME HeapInv, Call, NEW request \in Requests, Found(request) # NULL
  PROVE  /\ request \in Nat /\ Found(request) \in Listed(heap)
         /\ IsTaken(heap, Found(request), ChunkSize(request),
                    Taken(heap, Found(request), ChunkSize(request)))
<1>1. request \in Nat
  BY Constants
<1>2. ChunkSize(request) \in Nat /\ ChunkSize(request) > 0
  BY <1>1, ChunkSizeIs
<1>3. ListOf(heap) /\ WellFormed(heap) /\ Regular(heap)
  BY CallIs DEF WellFormed, Ordered
<1>4. Found(request) \in Listed(heap) /\ heap.hdr[Found(request)].size >= ChunkSize(request)
  BY <1>2, <1>3, FirstFitIs DEF Found
<1>5. heap.hdr[Found(request)].size \in Nat
  <2>1. Found(request) \in Chunks(heap) /\ Tiles(heap.hdr)
    BY <1>3, <1>4 DEF ListOf, WellFormed, Ordered
  <2>. QED BY <2>1, ChunksAre DEF Chunks
<1>6. ChunkSize(request) <= heap.hdr[Found(request)].size
  BY <1>2, <1>4, <1>5
<1>. QED BY <1>1, <1>2, <1>3, <1>4, <1>6, TakenIs

\* The chunk before the block p is regular, also when a chunk of a regular heap has just
\* been taken.
LEMMA FreeBlockIs ==
  ASSUME HeapInv, Call, NEW p \in Blocks
  PROVE  IsFreed(heap, p - AllocNode, FreeIn(heap, p))
<1>1. Regular(heap) /\ WellFormed(heap) /\ p \in Int /\ p - AllocNode \in Held(heap)
  BY CallIs DEF Kept, Blocks
<1>2. \A b \in Chunks(heap) : EndOf(heap.hdr, b) = p - AllocNode => heap.hdr[b].size < AllocBit
  BY <1>1 DEF Regular, Held, Guards
<1>. QED BY <1>1, <1>2, FreeIs

\* The free of a realloc comes after its malloc, on the heap that left.
LEMMA ReallocIs ==
  ASSUME HeapInv, Call, NEW p \in Blocks, NEW request \in Requests, Found(request) # NULL
  PROVE  LET h == Taken(heap, Found(request), ChunkSize(request))
         IN IsFreed(h, p - AllocNode, FreeIn(h, p))
<1>. DEFINE c == Found(request)
            size == ChunkSize(request)
            h == Taken(heap, c, size)
            q == p - AllocNode
<1>1. /\ Regular(heap) /\ WellFormed(heap) /\ Tiles(heap.hdr) /\ p \in Int /\ q \in Held(heap)
      /\ c \in Chunks(heap) /\ c \in Listed(heap)
      /\ IsTaken(heap, c, size, h)
  <2>1. Regular(heap) /\ WellFormed(heap) /\ p \in Int /\ q \in Held(heap)
    BY CallIs DEF Kept, Blocks
  <2>2. Listed(heap) \subseteq Chunks(heap)
    BY <2>1, RegularLists
  <2>3. c \in Listed(heap) /\ IsTaken(heap, c, size, h)
    BY FoundIs
  <2>. HIDE DEF c, h, size, q
  <2>. QED BY <2>1, <2>2, <2>3 DEF WellFormed, Ordered
<1>. HIDE DEF h, c, size, q
<1>2. /\ WellFormed(h) /\ Tiles(h.hdr)
      /\ Chunks(heap) \subseteq Chunks(h) /\ Chunks(h) \subseteq Chunks(heap) \cup {c + size}
      /\ h.hdr[c].size <= heap.hdr[c].size
      /\ \A d \in Chunks(heap) \ {c} : /\ h.hdr[d].size = heap.hdr[d].size
                                       /\ EndOf(h.hdr, d) = EndOf(heap.hdr, d)
      /\ Chunks(h) = Chunks(heap) => h.hdr[c].size = heap.hdr[c].size
      /\ \A r \in Chunks(h) \ Chunks(heap) : /\ h.hdr[c].size = size
                                             /\ h.hdr[r].size = heap.hdr[c].size - size
  BY <1>1 DEF IsTaken, WellFormed, Ordered
<1>3. q \in Held(h) /\ q # HeapEnd /\ q \in Chunks(heap) /\ q \notin Listed(heap)
  BY <1>1, HeldTaken DEF Held, Guards
<1>4. ASSUME NEW b \in Chunks(h), EndOf(h.hdr, b) = q PROVE h.hdr[b].size < AllocBit
  <2>1. CASE b \in Chunks(heap) \ {c}
    BY <1>1, <1>2, <1>3, <1>4, <2>1 DEF Regular
  <2>2. /\ heap.hdr[c].size \in Nat /\ h.hdr[b].size \in Nat /\ h.hdr[c].size \in Nat
        /\ c \in Nat /\ AllocBit \in Nat /\ b \in Nat /\ heap.hdr[c].size > 0
    BY <1>1, <1>2, ChunksAre, Constants DEF Chunks
  <2>3. CASE b = c
    <3>1. Chunks(h) = Chunks(heap)
      <4>. SUFFICES ASSUME c + size \in Chunks(h) \ Chunks(heap) PROVE FALSE
        BY <1>2
      <4>1. EndOf(h.hdr, c) = c + size
        BY <1>2 DEF EndOf
      <4>. QED BY <1>3, <1>4, <2>3, <4>1
    <3>2. EndOf(heap.hdr, c) = q /\ h.hdr[c].size = heap.hdr[c].size
      BY <1>2, <1>4, <2>3, <3>1 DEF EndOf
    <3>. QED BY <1>1, <1>3, <2>3, <3>2 DEF Regular
  <2>4. CASE b \notin Chunks(heap)
    <3>1. b = c + size /\ h.hdr[c].size = size /\ h.hdr[b].size = heap.hdr[c].size - size
      BY <1>2, <1>4, <2>4
    <3>2. q = c + heap.hdr[c].size
      BY <1>4, <2>2, <3>1 DEF EndOf
    <3>3. heap.hdr[c].size < AllocBit
      BY <1>1, <1>3, <3>2 DEF Regular, EndOf
    <3>. QED BY <2>2, <3>1, <3>3
  <2>. QED BY <2>1, <2>3, <2>4
<1>5. IsFreed(h, p - AllocNode, FreeIn(h, p))
  BY <1>1, <1>2, <1>3, <1>4, FreeIs DEF q
<1>. QED BY <1>5 DEF h, c, size

\* The first heap is well formed and no block is held.
LEMMA HeapInvInit == Init => HeapInv
<1>. SUFFICES ASSUME Init PROVE HeapInv
  OBVIOUS
<1>1. WellFormed(heap) /\ Held(heap) = {}
  <2>1. HeapEnd # HeapStart + AllocNode
    BY Constants
  <2>. QED BY <2>1, FirstHeap DEF Held, Guards
<1>2. DOMAIN given = {} /\ given \in [{} -> Nat]
  BY DEF Init
<1>3. Kept(given, heap)
  BY <1>1, <1>2 DEF Kept
<1>4. calls \in 0 .. MaxCalls
  BY Constants DEF Init
<1>. QED BY <1>1, <1>3, <1>4 DEF HeapInv

\* Every call keeps the heap and the blocks so.
LEMMA HeapInvStep == HeapInv /\ [Next]_vars => HeapInv'
<1>. SUFFICES ASSUME HeapInv, [Next]_vars PROVE HeapInv'
  OBVIOUS
<1>1. ASSUME NEW request \in Requests, Malloc(request) PROVE HeapInv'
  <2>. DEFINE c == Found(request)
              h == Taken(heap, c, ChunkSize(request))
  <2>1. Call /\ c # NULL /\ heap' = h /\ given' = Grant(given, c + AllocNode, request)
    BY <1>1 DEF Malloc
  <2>2. request \in Nat /\ c \in Listed(heap) /\ IsTaken(heap, c, ChunkSize(request), h)
    BY <2>1, FoundIs
  <2>3. Regular(heap) /\ WellFormed(heap) /\ Kept(given, heap) /\ calls' \in 0 .. MaxCalls
    BY <2>1, CallIs
  <2>. HIDE DEF c, h
  <2>4. Kept(Grant(given, c + AllocNode, request), h)
    BY <2>2, <2>3, KeptGrant
  <2>5. WellFormed(h)
    BY <2>2 DEF IsTaken
  <2>. QED BY <2>1, <2>3, <2>4, <2>5 DEF HeapInv
<1>2. ASSUME NEW request \in Requests, MallocFails(request) PROVE HeapInv'
  <2>1. Call /\ heap' = heap /\ given' = given
    BY <1>2 DEF MallocFails
  <2>. QED BY <2>1, CallIs DEF HeapInv
<1>3. ASSUME NEW p \in Blocks, FreeBlock(p) PROVE HeapInv'
  <2>1. Call /\ heap' = FreeIn(heap, p) /\ given' = [b \in DOMAIN given \ {p} |-> given[b]]
        /\ p \in DOMAIN given
    BY <1>3 DEF FreeBlock, Blocks
  <2>2. IsFreed(heap, p - AllocNode, FreeIn(heap, p))
    BY <2>1, FreeBlockIs
  <2>3. Kept(given, heap) /\ calls' \in 0 .. MaxCalls
    BY <2>1, CallIs
  <2>4. Kept(given', heap')
    BY <2>1, <2>2, <2>3, KeptFree
  <2>5. WellFormed(heap')
    BY <2>1, <2>2 DEF IsFreed
  <2>. QED BY <2>3, <2>4, <2>5 DEF HeapInv
<1>4. ASSUME NEW p \in Blocks, NEW request \in Requests, Realloc(p, request) PROVE HeapInv'
  <2>. DEFINE c == Found(request)
              h == Taken(heap, c, ChunkSize(request))
              grown == Grant(given, c + AllocNode, request)
  <2>1. /\ Call /\ c # NULL /\ heap' = FreeIn(h, p) /\ p \in DOMAIN given
        /\ given' = [b \in (DOMAIN given \ {p}) \cup {c + AllocNode} |->
                       IF b \in DOMAIN given THEN given[b] ELSE request]
    BY <1>4 DEF Realloc, Blocks
  <2>2. request \in Nat /\ c \in Listed(heap) /\ IsTaken(heap, c, ChunkSize(request), h)
    BY <2>1, FoundIs
  <2>3. Regular(heap) /\ WellFormed(heap) /\ Kept(given, heap) /\ calls' \in 0 .. MaxCalls
    BY <2>1, CallIs
  <2>4. IsFreed(h, p - AllocNode, FreeIn(h, p))
    BY <2>1, ReallocIs
  <2>. HIDE DEF c, h
  <2>5. /\ Kept(grown, h) /\ c + AllocNode \notin DOMAIN given
        /\ DOMAIN grown = DOMAIN given \cup {c + AllocNode}
    BY <2>2, <2>3, KeptGrant
  <2>6. given' = [b \in DOMAIN grown \ {p} |-> grown[b]]
    <3>1. DOMAIN grown \ {p} = (DOMAIN given \ {p}) \cup {c + AllocNode}
      BY <2>1, <2>5
    <3>2. \A b \in DOMAIN grown \ {p} :
            grown[b] = IF b \in DOMAIN given THEN given[b] ELSE request
      BY <2>5 DEF Grant
    <3>. HIDE DEF grown
    <3>. QED BY <2>1, <3>1, <3>2
  <2>. HIDE DEF grown
  <2>7. Kept(given', heap')
    <3>1. p \in DOMAIN grown
      BY <2>1, <2>5
    <3>2. Kept([b \in DOMAIN grown \ {p} |-> grown[b]], FreeIn(h, p))
      BY <2>4, <2>5, <3>1, KeptFree
    <3>. QED BY <2>1, <2>6, <3>2
  <2>8. WellFormed(heap')
    BY <2>1, <2>4 DEF IsFreed
  <2>. QED BY <2>3, <2>7, <2>8 DEF HeapInv
<1>5. ASSUME UNCHANGED vars PROVE HeapInv'
  BY <1>5 DEF vars, HeapInv
<1>. QED BY <1>1, <1>2, <1>3, <1>4, <1>5 DEF Next

-----------------------------------------------------------------------------
(* mm_mallinfo: the use of the heap is the number of words in allocated     *)
(* chunks, the last guard's included.                                       *)

\* The used words before the last guard.
Used(h) ==
  {a \in HeapStart .. HeapEnd - 1 :
     \E c \in Chunks(h) \ {HeapEnd} : h.hdr[c].alloc /\ c <= a /\ a < EndOf(h.hdr, c)}

\* What the walk returns.
Count == [end : Nat, uordblks : Nat, fordblks : Nat]

\* The used words can be counted.
LEMMA UsedFinite ==
  ASSUME NEW h, NEW S \in SUBSET Used(h)
  PROVE  IsFiniteSet(S) /\ Cardinality(S) \in Nat /\ Cardinality(S) <= Cardinality(Used(h))
<1>1. IsFiniteSet(Used(h))
  <2>1. HeapStart \in Int /\ HeapEnd - 1 \in Int
    BY Constants
  <2>2. IsFiniteSet(HeapStart .. HeapEnd - 1)
    BY <2>1, FS_Interval
  <2>. QED BY <2>2, FS_Subset DEF Used
<1>. QED BY <1>1, FS_Subset, FS_CardinalityType

\* Counting from chunk c on.
LEMMA CountFrom ==
  ASSUME NEW h, Tiles(h.hdr), NEW c \in Chunks(h) \ {HeapEnd}
  PROVE  LET n == EndOf(h.hdr, c)
         IN Cardinality({a \in Used(h) : a >= c}) =
              Cardinality({a \in Used(h) : a >= n}) + (IF h.hdr[c].alloc THEN h.hdr[c].size ELSE 0)
<1>. DEFINE n == EndOf(h.hdr, c)
            size == h.hdr[c].size
            S == {a \in Used(h) : a >= n}
            T == {a \in Used(h) : a >= c}
<1>1. /\ \A d \in Chunks(h) : /\ d \in Nat /\ h.hdr[d].size \in Nat /\ h.hdr[d].size > 0
                              /\ EndOf(h.hdr, d) \in Nat /\ d < EndOf(h.hdr, d)
                              /\ HeapStart <= d /\ d <= HeapEnd
      /\ HeapStart \in Nat /\ HeapEnd \in Nat
  BY ChunksAre DEF Chunks
<1>2. /\ n \in Chunks(h) /\ n = c + size /\ c < n
      /\ \A d \in Chunks(h) \ {HeapEnd} : \A e \in Chunks(h) : e <= d \/ e >= EndOf(h.hdr, d)
  BY <1>1 DEF Tiles, Chunks, EndOf
<1>. HIDE DEF n
<1>a. /\ c \in Nat /\ n \in Nat /\ size \in Nat /\ HeapStart <= c /\ n <= HeapEnd
      /\ HeapStart \in Nat /\ HeapEnd \in Nat
  BY <1>1, <1>2
<1>3. Used(h) \subseteq Nat
  BY <1>1 DEF Used
<1>4. S \subseteq T /\ IsFiniteSet(S) /\ IsFiniteSet(T) /\ Cardinality(S) \in Nat
  <2>1. S \subseteq T
    BY <1>1, <1>2, <1>3
  <2>2. S \subseteq Used(h) /\ T \subseteq Used(h)
    OBVIOUS
  <2>. HIDE DEF S, T
  <2>. QED BY <2>1, <2>2, UsedFinite
<1>5. CASE h.hdr[c].alloc
  <2>1. T = S \cup (c .. n - 1)
    <3>1. \A a \in c .. n - 1 : a \in Used(h) /\ a >= c
      <4>. SUFFICES ASSUME NEW a \in c .. n - 1 PROVE a \in Used(h) /\ a >= c
        OBVIOUS
      <4>1. a \in HeapStart .. HeapEnd - 1
        BY ONLY <1>a, a \in c .. n - 1
      <4>2. c <= a /\ a < EndOf(h.hdr, c)
        BY <1>1, <1>2 DEF n
      <4>. QED BY <1>1, <1>5, <4>1, <4>2 DEF Used
    <3>2. \A a \in T : a \in S \/ a \in c .. n - 1
      BY <1>1, <1>2, <1>3
    <3>. QED BY <1>4, <3>1, <3>2
  <2>2. S \cap (c .. n - 1) = {}
    BY <1>1, <1>2, <1>3
  <2>3. IsFiniteSet(c .. n - 1) /\ Cardinality(c .. n - 1) = size
    <3>1. c \in Int /\ n - 1 \in Int /\ ~(c > n - 1) /\ (n - 1) - c + 1 = size
      BY <1>1, <1>2
    <3>2. /\ IsFiniteSet(c .. n - 1)
          /\ Cardinality(c .. n - 1) = IF c > n - 1 THEN 0 ELSE (n - 1) - c + 1
      BY <3>1, FS_Interval
    <3>. QED BY <3>1, <3>2
  <2>4. Cardinality(T) = Cardinality(S) + size - Cardinality(S \cap (c .. n - 1))
    <3>. DEFINE I == c .. n - 1
    <3>1. IsFiniteSet(I) /\ T = S \cup I /\ Cardinality(I) = size
      BY <2>1, <2>3
    <3>. HIDE DEF I, S, T, size
    <3>2. Cardinality(S \cup I) = Cardinality(S) + Cardinality(I) - Cardinality(S \cap I)
      BY <1>4, <3>1, FS_Union
    <3>3. Cardinality(T) = Cardinality(S) + size - Cardinality(S \cap I)
      BY <3>1, <3>2
    <3>. QED BY <3>3 DEF I
  <2>5. Cardinality(S \cap (c .. n - 1)) = 0
    BY <2>2, FS_EmptySet
  <2>. HIDE DEF S, T
  <2>6. Cardinality(T) = Cardinality(S) + size
    BY <1>1, <1>4, <2>4, <2>5
  <2>. QED BY <1>5, <2>6 DEF S, T, n
<1>6. CASE ~h.hdr[c].alloc
  <2>1. ASSUME NEW a \in T, a < n PROVE FALSE
    <3>1. PICK d \in Chunks(h) \ {HeapEnd} : h.hdr[d].alloc /\ d <= a /\ a < EndOf(h.hdr, d)
      BY DEF Used
    <3>2. a \in Nat /\ a >= c
      BY <1>3
    <3>3. d <= c \/ d >= n
      BY <1>2, <3>1 DEF n
    <3>4. c <= d \/ c >= EndOf(h.hdr, d)
      BY <1>2, <3>1
    <3>5. d \in Nat /\ EndOf(h.hdr, d) \in Nat
      BY <1>1, <3>1
    <3>6. d = c
      BY ONLY <1>a, <2>1, <3>1, <3>2, <3>3, <3>4, <3>5
    <3>. QED BY <1>6, <3>1, <3>6
  <2>2. T = S
    BY <1>1, <1>2, <1>3, <1>4, <2>1
  <2>. HIDE DEF S, T
  <2>3. Cardinality(T) = Cardinality(S) + 0
    BY <1>4, <2>2
  <2>. QED BY <1>6, <2>3 DEF S, T, n
<1>. QED BY <1>5, <1>6

\* The walk along the headers counts the used words.
LEMMA WalkIs ==
  ASSUME NEW h, Tiles(h.hdr)
  PROVE  /\ Walk(h) \in Count /\ Walk(h).end = HeapEnd
         /\ Walk(h).uordblks = AllocNode + Cardinality(Used(h))
         /\ Walk(h).uordblks + Walk(h).fordblks = HeapSize
<1>. DEFINE D == Chunks(h)
            Base(c) == [end |-> c, uordblks |-> AllocNode, fordblks |-> 0]
            More(c, r) == IF h.hdr[c].alloc THEN [r EXCEPT !.uordblks = @ + h.hdr[c].size]
                          ELSE [r EXCEPT !.fordblks = @ + h.hdr[c].size]
            stop == {c \in D : c >= HeapEnd}
            base == [c \in D |-> Base(c)]
            next == [c \in D |-> NextChunk(h, c)]
            F == [x \in D \X Count |-> More(x[1], x[2])]
            rank == [c \in D |-> HeapEnd - c]
            Step(w) == [c \in D |-> IF c >= HeapEnd THEN Base(c) ELSE More(c, w[NextChunk(h, c)])]
            step == CHOOSE w : w = Step(w)
            from(c) == Cardinality({a \in Used(h) : a >= c})
<1>1. /\ \A d \in D : /\ d \in Nat /\ h.hdr[d].size \in Nat /\ h.hdr[d].size > 0
                      /\ EndOf(h.hdr, d) \in Nat /\ d < EndOf(h.hdr, d)
                      /\ HeapStart <= d /\ d <= HeapEnd
      /\ HeapStart \in Nat /\ HeapEnd \in Nat /\ HeapStart \in D
      /\ AllocNode \in Nat /\ HeapStart < HeapEnd
      /\ HeapEnd - HeapStart + AllocNode = HeapSize
  <2>1. HeapStart \in D
    BY DEF Tiles, Chunks
  <2>2. \A d \in D : /\ d \in Nat /\ h.hdr[d].size \in Nat /\ h.hdr[d].size > 0
                     /\ EndOf(h.hdr, d) \in Nat /\ d < EndOf(h.hdr, d)
                     /\ HeapStart <= d /\ d <= HeapEnd
    BY ChunksAre DEF Chunks
  <2>3. /\ HeapStart \in Nat /\ HeapEnd \in Nat /\ AllocNode \in Nat /\ HeapStart < HeapEnd
        /\ HeapEnd - HeapStart + AllocNode = HeapSize
    BY Constants
  <2>. QED BY ONLY <2>1, <2>2, <2>3
<1>2. \A c \in D : c \notin stop => /\ c \in D \ {HeapEnd} /\ NextChunk(h, c) \in D
                                    /\ c < NextChunk(h, c) /\ NextChunk(h, c) = EndOf(h.hdr, c)
  BY <1>1 DEF Tiles, Chunks, NextChunk, EndOf
<1>3. \A c \in D, r \in Count : /\ More(c, r) \in Count /\ More(c, r).end = r.end
                                /\ More(c, r).uordblks =
                                     r.uordblks + (IF h.hdr[c].alloc THEN h.hdr[c].size ELSE 0)
                                /\ More(c, r).uordblks + More(c, r).fordblks =
                                     r.uordblks + r.fordblks + h.hdr[c].size
  <2>. SUFFICES ASSUME NEW c \in D, NEW r \in Count
                PROVE  /\ More(c, r) \in Count /\ More(c, r).end = r.end
                       /\ More(c, r).uordblks =
                            r.uordblks + (IF h.hdr[c].alloc THEN h.hdr[c].size ELSE 0)
                       /\ More(c, r).uordblks + More(c, r).fordblks =
                            r.uordblks + r.fordblks + h.hdr[c].size
    OBVIOUS
  <2>1. r.uordblks \in Nat /\ r.fordblks \in Nat /\ r.end \in Nat /\ h.hdr[c].size \in Nat
    BY <1>1 DEF Count
  <2>. QED BY <1>1, <2>1 DEF Count
<1>4. \A c \in D : Base(c) \in Count
  BY <1>1 DEF Count
<1>5. \E w \in [D -> Count] : Recursion(w, stop, base, next, F)
  <2>1. rank \in [D -> Nat]
    BY <1>1
  <2>2. \A d \in D : d \in stop => base[d] \in Count
    BY <1>4
  <2>3. \A d \in D : d \notin stop => next[d] \in D /\ rank[next[d]] < rank[d]
    BY <1>1, <1>2
  <2>4. \A d \in D, v \in Count : d \notin stop => F[<<d, v>>] \in Count
    BY <1>3
  <2>. HIDE DEF stop, base, next, F, rank, D
  <2>. QED BY <2>1, <2>2, <2>3, <2>4, RecursionExists
<1>6. PICK w \in [D -> Count] : Recursion(w, stop, base, next, F)
  BY <1>5
<1>7. w = Step(w)
  <2>1. \A c \in D : w[c] = IF c >= HeapEnd THEN Base(c) ELSE More(c, w[NextChunk(h, c)])
    <3>. SUFFICES ASSUME NEW c \in D
                  PROVE  w[c] = IF c >= HeapEnd THEN Base(c) ELSE More(c, w[NextChunk(h, c)])
      OBVIOUS
    <3>1. w[c] = IF c \in stop THEN base[c] ELSE F[<<c, w[next[c]]>>]
      BY <1>6 DEF Recursion
    <3>2. c \notin stop => w[next[c]] \in Count /\ next[c] = NextChunk(h, c)
      BY <1>2, <1>6
    <3>3. c \notin stop => F[<<c, w[next[c]]>>] = More(c, w[next[c]])
      BY <3>2
    <3>4. base[c] = Base(c) /\ (c \in stop <=> c >= HeapEnd)
      OBVIOUS
    <3>. HIDE DEF F, More, Base, base, stop, next
    <3>. QED BY <3>1, <3>2, <3>3, <3>4
  <2>. HIDE DEF More, Base, D
  <2>. QED BY <1>6, <2>1
<1>8. step = Step(step)
  <2>. HIDE DEF Step
  <2>. QED BY <1>7
<1>9. Walk(h) = step[HeapStart]
  BY DEF Walk
<1>. HIDE DEF step, More, Base
<1>10. \A c \in D : step[c] = IF c >= HeapEnd THEN Base(c) ELSE More(c, step[NextChunk(h, c)])
  BY <1>8
<1>. DEFINE Counted(c) == /\ step[c] \in Count /\ step[c].end = HeapEnd
                          /\ step[c].uordblks = AllocNode + from(c)
                          /\ step[c].uordblks + step[c].fordblks = HeapEnd - c + AllocNode
            S == {n \in Nat : \A c \in D : HeapEnd - c = n => Counted(c)}
<1>11. ASSUME NEW n \in Nat, \A m \in 0 .. n - 1 : m \in S PROVE n \in S
  <2>. SUFFICES ASSUME NEW c \in D, HeapEnd - c = n PROVE Counted(c)
    OBVIOUS
  <2>1. CASE c >= HeapEnd
    <3>0. c \in Nat /\ c <= HeapEnd /\ HeapEnd \in Nat
      BY <1>1
    <3>1. c = HeapEnd /\ step[c] = Base(c)
      <4>1. c = HeapEnd
        BY ONLY <2>1, <3>0
      <4>2. step[c] = Base(c)
        BY <1>10, <2>1
      <4>. QED BY <4>1, <4>2
    <3>2. \A a \in Used(h) : ~(a >= c)
      BY <1>1, <3>1 DEF Used
    <3>3. {a \in Used(h) : a >= c} = {}
      BY <3>2
    <3>4. from(c) = 0
      BY <3>3, FS_EmptySet
    <3>. HIDE DEF from
    <3>. QED BY <1>1, <1>4, <3>1, <3>4 DEF Base
  <2>2. CASE ~(c >= HeapEnd)
    <3>. DEFINE e == EndOf(h.hdr, c)
                size == h.hdr[c].size
    <3>1. c \in D \ {HeapEnd} /\ e \in D /\ c < e /\ NextChunk(h, c) = e /\ e = c + size
      BY <1>2, <2>2 DEF EndOf
    <3>. HIDE DEF e
    <3>2. step[c] = More(c, step[e])
      BY <1>10, <2>2, <3>1
    <3>3. HeapEnd - e \in 0 .. n - 1 /\ size \in Nat
      <4>1. /\ c \in Nat /\ e \in Nat /\ HeapEnd \in Nat /\ e <= HeapEnd /\ c < e /\ size \in Nat
            /\ HeapEnd - c = n
        BY <1>1, <3>1
      <4>. QED BY ONLY <4>1
    <3>4. Counted(e)
      <4>1. HeapEnd - e \in S
        <5>. HIDE DEF S
        <5>. QED BY <1>11, <3>3
      <4>. HIDE DEF Counted
      <4>. QED BY <3>1, <4>1
    <3>5. from(c) = from(e) + (IF h.hdr[c].alloc THEN size ELSE 0)
      BY <3>1, CountFrom DEF e
    <3>6. from(e) \in Nat
      <4>1. {a \in Used(h) : a >= e} \subseteq Used(h)
        OBVIOUS
      <4>. QED BY <4>1, UsedFinite
    <3>. HIDE DEF from
    <3>7. step[e] \in Count /\ step[e].uordblks \in Nat /\ step[e].fordblks \in Nat
      BY <3>4 DEF Count
    <3>8. /\ step[c] \in Count /\ step[c].end = step[e].end
          /\ step[c].uordblks = step[e].uordblks + (IF h.hdr[c].alloc THEN size ELSE 0)
          /\ step[c].uordblks + step[c].fordblks = step[e].uordblks + step[e].fordblks + size
      BY <1>3, <3>2, <3>7
    <3>9. step[c].uordblks = AllocNode + from(c)
      BY <1>1, <3>3, <3>4, <3>5, <3>6, <3>8
    <3>10. step[c].uordblks + step[c].fordblks = HeapEnd - c + AllocNode
      <4>1. step[e].uordblks + step[e].fordblks = HeapEnd - e + AllocNode
        BY <3>4
      <4>. QED BY <1>1, <3>1, <3>3, <3>8, <4>1
    <3>. QED BY <3>4, <3>8, <3>9, <3>10
  <2>. QED BY <2>1, <2>2
<1>12. Nat \subseteq S
  <2>. HIDE DEF S
  <2>. QED BY <1>11, Induct
<1>13. Counted(HeapStart)
  <2>1. HeapEnd - HeapStart \in Nat
    BY <1>1
  <2>. HIDE DEF Counted
  <2>. QED BY <1>1, <1>12, <2>1
<1>14. from(HeapStart) = Cardinality(Used(h))
  <2>1. \A a \in Used(h) : a >= HeapStart
    BY <1>1 DEF Used
  <2>2. {a \in Used(h) : a >= HeapStart} = Used(h)
    BY <2>1
  <2>. QED BY <2>2
<1>. HIDE DEF from
<1>. QED BY <1>1, <1>9, <1>13, <1>14

\* A free takes away from the use.
LEMMA UsedFreed ==
  ASSUME NEW h, Tiles(h.hdr), NEW q, NEW g, IsFreed(h, q, g)
  PROVE  Walk(g).uordblks <= Walk(h).uordblks
<1>1. /\ Tiles(g.hdr) /\ Chunks(g) \subseteq Chunks(h)
      /\ \A d \in Chunks(g) : g.hdr[d].alloc => h.hdr[d].alloc /\ g.hdr[d].size = h.hdr[d].size
  BY DEF IsFreed, WellFormed, Ordered
<1>2. Used(g) \subseteq Used(h)
  BY <1>1 DEF Used, EndOf
<1>3. /\ Cardinality(Used(g)) \in Nat /\ Cardinality(Used(h)) \in Nat
      /\ Cardinality(Used(g)) <= Cardinality(Used(h))
  BY <1>2, UsedFinite
<1>4. /\ Walk(g).uordblks = AllocNode + Cardinality(Used(g))
      /\ Walk(h).uordblks = AllocNode + Cardinality(Used(h))
  BY <1>1, WalkIs
<1>. QED BY <1>3, <1>4, Constants

-----------------------------------------------------------------------------
(* Where the chunks lie.                                                   *)

\* Every chunk but the guards starts one header behind a granule.
Aligned(h) == \A c \in Chunks(h) \ Guards : Divides(MinChunk, c - AllocNode)

\* The heap starts and ends on a granule.
LEMMA HeapDivides ==
  /\ MinChunk \in Nat \ {0} /\ Divides(MinChunk, HeapStart)
  /\ Divides(MinChunk, HeapEnd + AllocNode)
<1>1. MinChunk \in Nat \ {0} /\ HeapStart \in Int /\ HeapSize \in Int
  BY Constants
<1>2. Divides(MinChunk, HeapStart) /\ Divides(MinChunk, HeapSize)
  BY HeapAssumption DEF Divides
<1>3. Divides(MinChunk, HeapStart + HeapSize)
  BY <1>1, <1>2, DividesSum
<1>4. HeapEnd + AllocNode = HeapStart + HeapSize
  BY Constants
<1>. QED BY <1>1, <1>2, <1>3, <1>4

\* A chunk with room for a free node has room for the structure.
LEMMA RoomForNode ==
  ASSUME NEW h, Tiles(h.hdr), Aligned(h), NEW c \in Chunks(h) \ Guards,
         h.hdr[c].size >= FreeNode
  PROVE  h.hdr[c].size >= NodeSize
<1>. DEFINE size == h.hdr[c].size
            n == EndOf(h.hdr, c)
<1>1. c \in Nat /\ size \in Nat /\ n \in Nat /\ n \in Chunks(h) /\ c < n /\ HeapStart <= c
  <2>1. c \in DOMAIN h.hdr \ {HeapEnd}
    BY DEF Chunks, Guards
  <2>2. n \in Chunks(h)
    BY <2>1 DEF Tiles, Chunks
  <2>. QED BY <2>1, <2>2, ChunksAre
<1>2. n = c + size
  BY DEF EndOf
<1>. HIDE DEF n, size
<1>3. /\ MinChunk \in Nat \ {0} /\ Divides(MinChunk, c - AllocNode)
      /\ AllocNode \in Nat /\ NodeSize \in Nat /\ HeapEnd \in Nat /\ FreeNode \in Nat
      /\ HeapStart \in Nat
  BY HeapDivides, Constants DEF Aligned
<1>4. CASE n = HeapEnd
  <2>1. size + 2 * AllocNode = (HeapEnd + AllocNode) - (c - AllocNode)
    BY <1>1, <1>2, <1>3, <1>4
  <2>2. HeapEnd + AllocNode \in Int /\ c - AllocNode \in Int
    BY <1>1, <1>3
  <2>3. Divides(MinChunk, size + 2 * AllocNode)
    BY <1>3, <2>1, <2>2, HeapDivides, DividesSum
  <2>4. size \notin FreeNode .. NodeSize - 1
    BY <2>3, RestAssumption DEF Divides
  <2>. QED BY <1>1, <1>3, <2>4 DEF size
<1>5. CASE n # HeapEnd
  <2>1. n # HeapStart
    BY <1>1, <1>3
  <2>2. Divides(MinChunk, n - AllocNode)
    BY <1>1, <1>5, <2>1 DEF Aligned, Guards
  <2>3. size = (n - AllocNode) - (c - AllocNode)
    BY <1>1, <1>2, <1>3
  <2>4. n - AllocNode \in Int /\ c - AllocNode \in Int
    BY <1>1, <1>3
  <2>5. Divides(MinChunk, size)
    BY <1>3, <2>2, <2>3, <2>4, DividesSum
  <2>6. size \notin FreeNode .. NodeSize - 1
    BY <2>5, RestAssumption DEF Divides
  <2>. QED BY <1>1, <1>3, <2>6 DEF size
<1>. QED BY <1>4, <1>5

\* Allocations keep the headers one header behind a granule.
LEMMA AlignedTaken ==
  ASSUME NEW h, WellFormed(h), Regular(h), Aligned(h), NEW c \in Listed(h),
         NEW request \in Nat, NEW g, IsTaken(h, c, ChunkSize(request), g)
  PROVE  Aligned(g)
<1>. DEFINE size == ChunkSize(request)
<1>1. c \in Chunks(h) \ Guards /\ Tiles(h.hdr)
  BY RegularLists DEF WellFormed, Ordered
<1>2. c \in Nat /\ AllocNode \in Nat /\ MinChunk \in Nat \ {0}
  BY <1>1, ChunksAre, Constants DEF Chunks
<1>3. size \in Nat /\ Divides(MinChunk, size)
  BY ChunkSizeIs
<1>. HIDE DEF size
<1>4. Divides(MinChunk, (c + size) - AllocNode)
  <2>1. Divides(MinChunk, (c - AllocNode) + size)
    <3>1. Divides(MinChunk, c - AllocNode)
      BY <1>1 DEF Aligned
    <3>. QED BY <1>2, <1>3, <3>1, DividesSum
  <2>2. (c - AllocNode) + size = (c + size) - AllocNode
    BY <1>2, <1>3
  <2>. QED BY <2>1, <2>2
<1>5. Chunks(g) \subseteq Chunks(h) \cup {c + size}
  BY DEF IsTaken, size
<1>. QED BY <1>4, <1>5 DEF Aligned

\* Frees only take headers away.
LEMMA AlignedFreed ==
  ASSUME NEW h, Aligned(h), NEW q, NEW g, IsFreed(h, q, g)
  PROVE  Aligned(g)
BY DEF Aligned, IsFreed

\* The chunks of the list have room for the structure after an allocation if they had before.
LEMMA NodesTaken ==
  ASSUME NEW h, WellFormed(h), Regular(h), Aligned(h), NEW c \in Listed(h),
         NEW request \in Nat, NEW g, IsTaken(h, c, ChunkSize(request), g),
         \A d \in Listed(h) : h.hdr[d].size >= NodeSize
  PROVE  \A d \in Listed(g) : g.hdr[d].size >= NodeSize
<1>. SUFFICES ASSUME NEW d \in Listed(g) PROVE g.hdr[d].size >= NodeSize
  OBVIOUS
<1>1. /\ Listed(g) = (Listed(h) \ {c}) \cup (Chunks(g) \ Chunks(h))
      /\ \A e \in Chunks(h) \ {c} : g.hdr[e].size = h.hdr[e].size
      /\ \A r \in Chunks(g) \ Chunks(h) : g.hdr[r].size >= FreeNode
      /\ Tiles(g.hdr) /\ Listed(g) \subseteq Chunks(g) /\ Listed(g) \cap Guards = {}
  BY DEF IsTaken, WellFormed, Ordered, ListOf
<1>2. CASE d \in Listed(h) \ {c}
  <2>1. d \in Chunks(h) \ {c}
    BY <1>2, RegularLists
  <2>. QED BY <1>1, <1>2, <2>1
<1>3. CASE d \in Chunks(g) \ Chunks(h)
  <2>1. Aligned(g)
    BY AlignedTaken
  <2>. QED BY <1>1, <1>3, <2>1, RoomForNode
<1>. QED BY <1>1, <1>2, <1>3

\* The invariant the theorems follow from: besides the heap and the blocks, where chunks
\* lie, and that the use on record is no lower than the present one.
PeakInv == peak \in 0 .. HeapSize /\ (peak = 0 \/ peak >= Walk(heap).uordblks)

IInv == HeapInv /\ Aligned(heap) /\ PeakInv

\* The record of the highest use after a call that measures it.
LEMMA MeasureIs ==
  ASSUME peak \in 0 .. HeapSize, NEW h, Tiles(h.hdr), Measure(h)
  PROVE  /\ peak' \in 0 .. HeapSize /\ peak' >= Walk(h).uordblks
         /\ Walk(h).uordblks \in Nat
<1>1. Walk(h).uordblks \in Nat /\ Walk(h).fordblks \in Nat
      /\ Walk(h).uordblks + Walk(h).fordblks = HeapSize
  BY WalkIs DEF Count
<1>2. peak' = IF peak > Walk(h).uordblks THEN peak ELSE Walk(h).uordblks
  BY DEF Measure, Larger
<1>. QED BY <1>1, <1>2, Constants

\* The invariant holds at first.
LEMMA IInvInit == Init => IInv
<1>. SUFFICES ASSUME Init PROVE IInv
  OBVIOUS
<1>1. HeapInv
  BY HeapInvInit
<1>2. Aligned(heap)
  <2>1. Chunks(heap) = {HeapStart, HeapStart + AllocNode, HeapEnd}
    BY FirstHeap
  <2>2. (HeapStart + AllocNode) - AllocNode = HeapStart
    BY Constants
  <2>. QED BY <2>1, <2>2, HeapDivides DEF Aligned, Guards
<1>3. PeakInv
  BY Constants DEF Init, PeakInv
<1>. QED BY <1>1, <1>2, <1>3 DEF IInv

\* Every step keeps it.
LEMMA IInvStep == IInv /\ [Next]_vars => IInv'
<1>. SUFFICES ASSUME IInv, [Next]_vars PROVE IInv'
  OBVIOUS
<1>1. HeapInv /\ HeapInv' /\ Aligned(heap) /\ Tiles(heap.hdr) /\ Tiles(heap'.hdr)
      /\ peak \in 0 .. HeapSize
  BY HeapInvStep DEF IInv, PeakInv, HeapInv, WellFormed, Ordered
<1>2. ASSUME NEW request \in Requests, Malloc(request) PROVE Aligned(heap)' /\ PeakInv'
  <2>1. /\ Call /\ Found(request) # NULL /\ Measure(heap')
        /\ heap' = Taken(heap, Found(request), ChunkSize(request))
    BY <1>2 DEF Malloc
  <2>2. /\ request \in Nat /\ Found(request) \in Listed(heap)
        /\ IsTaken(heap, Found(request), ChunkSize(request), heap')
    BY <1>1, <2>1, FoundIs
  <2>3. WellFormed(heap) /\ Regular(heap)
    BY <1>1, <2>1, CallIs
  <2>4. Aligned(heap')
    BY <1>1, <2>2, <2>3, AlignedTaken
  <2>5. peak' \in 0 .. HeapSize /\ peak' >= Walk(heap').uordblks
    BY <1>1, <2>1, MeasureIs
  <2>. QED BY <2>4, <2>5 DEF PeakInv
<1>3. ASSUME NEW request \in Requests, MallocFails(request) PROVE Aligned(heap)' /\ PeakInv'
  <2>1. Measure(heap) /\ heap' = heap
    BY <1>3 DEF MallocFails
  <2>2. peak' \in 0 .. HeapSize /\ peak' >= Walk(heap).uordblks
    BY <1>1, <2>1, MeasureIs
  <2>. QED BY <1>1, <2>1, <2>2 DEF PeakInv
<1>4. ASSUME NEW p \in Blocks, FreeBlock(p) PROVE Aligned(heap)' /\ PeakInv'
  <2>1. Call /\ heap' = FreeIn(heap, p) /\ peak' = peak
    BY <1>4 DEF FreeBlock
  <2>2. IsFreed(heap, p - AllocNode, heap')
    BY <1>1, <2>1, FreeBlockIs
  <2>3. Aligned(heap') /\ Walk(heap').uordblks <= Walk(heap).uordblks
    BY <1>1, <2>2, AlignedFreed, UsedFreed
  <2>4. Walk(heap).uordblks \in Nat /\ Walk(heap').uordblks \in Nat
    BY <1>1, WalkIs DEF Count
  <2>. QED BY <2>1, <2>3, <2>4 DEF IInv, PeakInv
<1>5. ASSUME NEW p \in Blocks, NEW request \in Requests, Realloc(p, request)
      PROVE  Aligned(heap)' /\ PeakInv'
  <2>. DEFINE h == Taken(heap, Found(request), ChunkSize(request))
  <2>1. Call /\ Found(request) # NULL /\ Measure(h) /\ heap' = FreeIn(h, p)
    BY <1>5 DEF Realloc
  <2>2. /\ request \in Nat /\ Found(request) \in Listed(heap)
        /\ IsTaken(heap, Found(request), ChunkSize(request), h)
    BY <1>1, <2>1, FoundIs
  <2>3. WellFormed(heap) /\ Regular(heap)
    BY <1>1, <2>1, CallIs
  <2>4. IsFreed(h, p - AllocNode, heap')
    BY <1>1, <2>1, ReallocIs
  <2>. HIDE DEF h
  <2>5. Aligned(h) /\ Tiles(h.hdr)
    BY <1>1, <2>2, <2>3, AlignedTaken DEF IsTaken, WellFormed, Ordered
  <2>6. Aligned(heap') /\ Walk(heap').uordblks <= Walk(h).uordblks
    BY <2>4, <2>5, AlignedFreed, UsedFreed
  <2>7. peak' \in 0 .. HeapSize /\ peak' >= Walk(h).uordblks
    BY <1>1, <2>1, <2>5, MeasureIs
  <2>8. Walk(h).uordblks \in Nat /\ Walk(heap').uordblks \in Nat
    BY <1>1, <2>5, WalkIs DEF Count
  <2>. QED BY <2>6, <2>7, <2>8 DEF PeakInv
<1>6. ASSUME UNCHANGED vars PROVE Aligned(heap)' /\ PeakInv'
  BY <1>6 DEF vars, IInv, PeakInv
<1>7. Aligned(heap)' /\ PeakInv'
  BY <1>2, <1>3, <1>4, <1>5, <1>6 DEF Next
<1>. QED BY <1>1, <1>7 DEF IInv

\* The invariant holds for ever.
LEMMA Invariant == Spec => []IInv
<1>1. Init => IInv
  BY IInvInit
<1>2. IInv /\ [Next]_vars => IInv'
  BY IInvStep
<1>. QED BY <1>1, <1>2, PTL DEF Spec

\* What a sound heap adds.
LEMMA SoundIs ==
  ASSUME IInv, Sound
  PROVE  /\ WellFormed(heap) /\ Regular(heap) /\ Tiles(heap.hdr)
         /\ Listed(heap) = FreeChunks(heap) /\ Listed(heap) \cap Guards = {}
<1>1. WellFormed(heap) /\ Tiles(heap.hdr)
  BY DEF IInv, HeapInv, WellFormed, Ordered
<1>2. Regular(heap)
  <2>1. \A c \in Chunks(heap) : heap.hdr[c].size \in Nat
    BY <1>1, ChunksAre DEF Chunks
  <2>2. AllocBit \in Nat
    BY Constants
  <2>3. \A c \in Chunks(heap) : EndOf(heap.hdr, c) # HeapEnd => ~(heap.hdr[c].size >= AllocBit)
    BY DEF Sound, Overlong, NextChunk, EndOf
  <2>. QED BY <2>1, <2>2, <2>3 DEF Regular
<1>. QED BY <1>1, <1>2, RegularLists

-----------------------------------------------------------------------------
(* The theorems.                                                           *)

\* Whatever sizes are asked for and in whatever order blocks are freed, headers keep sizes
\* of the heap, the list links chunks of it, and the record of the highest use is at most
\* the heap.
THEOREM TypeCorrect == Spec => []TypeOK
<1>1. IInv => TypeOK
  <2>. SUFFICES ASSUME IInv PROVE TypeOK
    OBVIOUS
  <2>1. WellFormed(heap) /\ Tiles(heap.hdr) /\ ListOf(heap) /\ Kept(given, heap)
    BY DEF IInv, HeapInv, WellFormed, Ordered
  <2>2. Chunks(heap) \subseteq HeapStart .. HeapEnd
        /\ heap.hdr \in [Chunks(heap) -> [size : 1 .. HeapSize, back : 0 .. AllocBit - 1,
                                          alloc : BOOLEAN]]
    BY <2>1 DEF Tiles, Chunks, HeaderType
  <2>3. DOMAIN heap.next = DOMAIN heap.prev
    BY <2>1 DEF ListOf, IsList, Linked
  <2>4. \A n \in DOMAIN heap.next : {heap.next[n], heap.prev[n]} \subseteq Nat \cup {NULL}
    <3>1. /\ DOMAIN heap.next \subseteq Nat /\ heap.prev[0] = NULL
          /\ \A n \in DOMAIN heap.next : heap.next[n] # NULL => heap.next[n] \in DOMAIN heap.next
          /\ \A n \in DOMAIN heap.next \ {0} : heap.prev[n] \in DOMAIN heap.next
      BY <2>1 DEF ListOf, IsList, Linked
    <3>. QED BY <3>1
  <2>5. given \in [Blocks -> Nat]
    BY <2>1 DEF Kept, Blocks
  <2>6. Blocks \subseteq HeapStart .. HeapEnd
    <3>. SUFFICES ASSUME NEW p \in Blocks PROVE p \in HeapStart .. HeapEnd
      OBVIOUS
    <3>. DEFINE c == p - AllocNode
    <3>1. /\ p \in Int /\ given[p] \in Nat /\ c \in Held(heap)
          /\ ChunkSize(given[p]) <= heap.hdr[c].size
      BY <2>1 DEF Kept, Blocks
    <3>2. ChunkSize(given[p]) >= given[p] + AllocNode /\ ChunkSize(given[p]) \in Nat
      BY <3>1, ChunkSizeIs
    <3>3. c \in DOMAIN heap.hdr \ {HeapEnd}
      BY <3>1 DEF Held, Guards, Chunks
    <3>4. EndOf(heap.hdr, c) \in DOMAIN heap.hdr
      BY <2>1, <3>3 DEF Tiles
    <3>. HIDE DEF c
    <3>5. c \in Nat /\ HeapStart <= c /\ heap.hdr[c].size \in Nat
          /\ c + heap.hdr[c].size <= HeapEnd
      BY <2>1, <3>3, <3>4, ChunksAre DEF EndOf
    <3>6. p = c + AllocNode
      BY <3>1, Constants DEF c
    <3>. QED BY <3>1, <3>2, <3>5, <3>6, Constants
  <2>7. peak \in 0 .. HeapSize /\ calls \in 0 .. MaxCalls
    BY DEF IInv, HeapInv, PeakInv
  <2>. QED BY <2>2, <2>3, <2>4, <2>5, <2>6, <2>7 DEF TypeOK
<1>. QED BY <1>1, Invariant, PTL

\* Cutting in mm_malloc and merging in mm_free always leave chunks that tile the heap, each
\* with the size of the one before it, and never two free ones next to each other.
THEOREM ChunksTileCorrect == Spec => []ChunksTile
<1>1. IInv => ChunksTile
  <2>. SUFFICES ASSUME IInv, Sound, NEW c \in Chunks(heap) \ {HeapEnd}
                PROVE  LET n == NextChunk(heap, c)
                       IN /\ n \in Chunks(heap)
                          /\ \A d \in Chunks(heap) : d <= c \/ d >= n
                          /\ n # HeapEnd => heap.hdr[n].back = heap.hdr[c].size
                          /\ c \in FreeChunks(heap) => n \notin FreeChunks(heap)
    BY DEF ChunksTile
  <2>. DEFINE n == EndOf(heap.hdr, c)
  <2>1. Tiles(heap.hdr) /\ Apart(heap.hdr) /\ Regular(heap)
    BY SoundIs DEF WellFormed
  <2>2. NextChunk(heap, c) = n
    BY DEF NextChunk, EndOf
  <2>3. n \in Chunks(heap) /\ \A d \in Chunks(heap) : d <= c \/ d >= n
    BY <2>1 DEF Tiles, Chunks
  <2>4. n # HeapEnd => heap.hdr[n].back = heap.hdr[c].size
    <3>1. n # HeapEnd => heap.hdr[n].back = heap.hdr[c].size % AllocBit
      BY <2>1 DEF Tiles, Chunks
    <3>2. n # HeapEnd => heap.hdr[c].size < AllocBit
      BY <2>1 DEF Regular
    <3>3. heap.hdr[c].size \in 0 .. HeapSize
      BY <2>1, ChunkFacts DEF Chunks
    <3>. HIDE DEF n
    <3>. QED BY <3>1, <3>2, <3>3, Remainder
  <2>5. c \in FreeChunks(heap) => n \notin FreeChunks(heap)
    BY <2>1 DEF Apart, FreeChunks, Chunks
  <2>. HIDE DEF n
  <2>. QED BY <2>2, <2>3, <2>4, <2>5
<1>. QED BY <1>1, Invariant, PTL

\* mm_addfreechunk and the unlinking in mm_malloc and mm_free always leave the one list that
\* mm_initialize made: every free chunk in it, behind the head of its class, by size.
THEOREM ListSoundCorrect == Spec => []ListSound
<1>1. IInv => ListSound
  <2>. SUFFICES ASSUME IInv, Sound
                PROVE  LET size(n) == NodeOf(heap, n)
                           class(n) == IF n \in ListHeads THEN n ELSE Size2Ndx(size(n))
                       IN /\ DOMAIN heap.next = Nodes
                          /\ heap.next[NNodes - 1] = NULL
                             \/ heap.next[NNodes - 1] \in FreeChunks(heap)
                          /\ \A n \in Nodes :
                               LET m == heap.next[n]
                               IN m # NULL =>
                                    /\ m \in Nodes /\ heap.prev[m] = n
                                    /\ m \in ListHeads => m = class(n) + 1
                                    /\ m \notin ListHeads =>
                                         class(m) = class(n) /\ size(n) <= size(m)
                          /\ \A n \in Nodes \ {0} :
                               heap.prev[n] \in Nodes /\ heap.next[heap.prev[n]] = n
    BY DEF ListSound
  <2>. DEFINE sz == Sizes(heap)
              nx == heap.next
              class(n) == IF n \in ListHeads THEN n ELSE Size2Ndx(NodeOf(heap, n))
  <2>1. ListOf(heap) /\ IsList(nx, heap.prev, sz) /\ Listed(heap) = FreeChunks(heap)
    BY SoundIs DEF WellFormed, Ordered, ListOf
  <2>2. /\ ListHeads \subseteq DOMAIN nx
        /\ \A n \in DOMAIN nx : nx[n] # NULL => nx[n] \in DOMAIN nx /\ heap.prev[nx[n]] = n
        /\ \A n \in DOMAIN nx \ {0} : heap.prev[n] \in DOMAIN nx /\ nx[heap.prev[n]] = n
    BY <2>1 DEF IsList, Linked
  <2>3. DOMAIN nx = Nodes
    BY <2>1, <2>2 DEF Nodes, Listed
  <2>4. \A n \in Nodes : class(n) = ClassIn(sz, n)
    BY <2>1, <2>3, NodeIs DEF ClassIn
  <2>5. ASSUME NEW n \in Nodes, nx[n] # NULL
        PROVE  /\ nx[n] \in Nodes /\ heap.prev[nx[n]] = n
               /\ nx[n] \in ListHeads => nx[n] = class(n) + 1
               /\ nx[n] \notin ListHeads =>
                    class(nx[n]) = class(n) /\ NodeOf(heap, n) <= NodeOf(heap, nx[n])
    <3>. DEFINE m == nx[n]
    <3>1. m \in Nodes /\ heap.prev[m] = n
      BY <2>2, <2>3, <2>5
    <3>2. /\ m \in ListHeads => m = ClassIn(sz, n) + 1
          /\ m \notin ListHeads => /\ ClassIn(sz, m) = ClassIn(sz, n)
                                   /\ n \notin ListHeads => sz[n] <= sz[m]
      BY <2>1, <2>3, <2>5, ListOrder
    <3>. HIDE DEF m
    <3>3. m \notin ListHeads => NodeOf(heap, n) <= NodeOf(heap, m)
      <4>1. n \in ListHeads => NodeOf(heap, n) = 0
        BY <2>1, <2>3, NodeIs
      <4>2. n \notin ListHeads => NodeOf(heap, n) = sz[n]
        BY <2>1, <2>3, NodeIs
      <4>3. m \notin ListHeads => NodeOf(heap, m) = sz[m] /\ NodeOf(heap, m) \in Nat
        BY <2>1, <2>3, <3>1, NodeIs
      <4>. QED BY <3>2, <4>1, <4>2, <4>3
    <3>. QED BY <2>4, <3>1, <3>2, <3>3 DEF m
  <2>6. nx[NNodes - 1] = NULL \/ nx[NNodes - 1] \in FreeChunks(heap)
    <3>. DEFINE last == NNodes - 1
    <3>1. last \in ListHeads /\ last + 1 \notin ListHeads
      BY Constants
    <3>2. last \in Nodes /\ class(last) = last
      BY <3>1 DEF Nodes
    <3>. HIDE DEF last, class
    <3>3. nx[last] # NULL => nx[last] \in Nodes /\ nx[last] \notin ListHeads
      BY <2>5, <3>1, <3>2
    <3>. QED BY <3>3 DEF Nodes, last
  <2>. QED BY <2>2, <2>3, <2>5, <2>6
<1>. QED BY <1>1, Invariant, PTL

\* The blocks of the callers are at all times the allocated chunks, each with the room asked
\* for: malloc and realloc hand out nothing twice and free loses nothing.
THEOREM BlocksKeptCorrect == Spec => []BlocksKept
<1>1. IInv => BlocksKept
  <2>. SUFFICES ASSUME IInv, Sound
                PROVE  /\ {p - AllocNode : p \in Blocks} =
                            (Chunks(heap) \ FreeChunks(heap)) \ {HeapStart, HeapEnd}
                       /\ \A p \in Blocks : given[p] + AllocNode <= heap.hdr[p - AllocNode].size
    BY DEF BlocksKept
  <2>1. Kept(given, heap) /\ Listed(heap) = FreeChunks(heap) /\ Tiles(heap.hdr)
    BY SoundIs DEF IInv, HeapInv
  <2>2. {p - AllocNode : p \in Blocks} = (Chunks(heap) \ FreeChunks(heap)) \ {HeapStart, HeapEnd}
    BY <2>1 DEF Kept, Blocks, Held, Guards
  <2>3. ASSUME NEW p \in Blocks PROVE given[p] + AllocNode <= heap.hdr[p - AllocNode].size
    <3>1. /\ given[p] \in Nat /\ ChunkSize(given[p]) <= heap.hdr[p - AllocNode].size
          /\ p - AllocNode \in Chunks(heap)
      BY <2>1 DEF Kept, Blocks, Held
    <3>2. ChunkSize(given[p]) >= given[p] + AllocNode /\ ChunkSize(given[p]) \in Nat
      BY <3>1, ChunkSizeIs
    <3>3. heap.hdr[p - AllocNode].size \in Nat
      BY <2>1, <3>1, ChunksAre DEF Chunks
    <3>. QED BY <3>1, <3>2, <3>3, Constants
  <2>. QED BY <2>2, <2>3
<1>. QED BY <1>1, Invariant, PTL

\* The walk of mm_mallinfo ends at the last guard and splits the heap into used and free
\* space, and g_max_used_size is never below what is used.
THEOREM AccountedCorrect == Spec => []Accounted
<1>1. IInv => Accounted
  <2>. SUFFICES ASSUME IInv PROVE Accounted
    OBVIOUS
  <2>1. Tiles(heap.hdr)
    BY DEF IInv, HeapInv, WellFormed, Ordered
  <2>2. Walk(heap).end = HeapEnd /\ Walk(heap).uordblks + Walk(heap).fordblks = HeapSize
    BY <2>1, WalkIs
  <2>3. peak = 0 \/ peak >= Walk(heap).uordblks
    BY DEF IInv, PeakInv
  <2>. QED BY <2>2, <2>3 DEF Accounted
<1>. QED BY <1>1, Invariant, PTL

\* The search of mm_malloc, which starts at the class of the size, passes over no chunk that
\* would do, and the first that does is a shortest.
THEOREM BestFitCorrect == Spec => BestFit
<1>. DEFINE Best(r) == /\ MallocFails(r) => Fitting(r) = {}
                       /\ Malloc(r) => \E c \in Fitting(r) :
                            /\ c + AllocNode \in DOMAIN given' \ Blocks
                            /\ \A d \in Fitting(r) : heap.hdr[c].size <= heap.hdr[d].size
<1>1. IInv => \A r \in Requests : Best(r)
  <2>. SUFFICES ASSUME IInv, NEW r \in Requests PROVE Best(r)
    OBVIOUS
  <2>. DEFINE size == ChunkSize(r)
  <2>0. HeapInv
    BY DEF IInv
  <2>1. r \in Nat /\ size \in Nat /\ size > 0
    BY Constants, ChunkSizeIs
  <2>. HIDE DEF size
  <2>2. ASSUME Call
        PROVE  /\ WellFormed(heap) /\ Regular(heap) /\ Kept(given, heap)
               /\ ListOf(heap) /\ Listed(heap) = FreeChunks(heap)
               /\ \A d \in FreeChunks(heap) : heap.hdr[d].size \in Nat
    <3>1. WellFormed(heap) /\ Regular(heap) /\ Kept(given, heap)
      BY <2>0, <2>2, CallIs
    <3>2. ListOf(heap) /\ Tiles(heap.hdr) /\ Listed(heap) = FreeChunks(heap)
      BY <3>1, RegularLists DEF WellFormed, Ordered
    <3>. QED BY <3>1, <3>2, ChunksAre DEF FreeChunks, Chunks
  <2>3. ASSUME MallocFails(r) PROVE Fitting(r) = {}
    <3>1. Call /\ FirstFit(heap, size) = NULL
      BY <2>3 DEF MallocFails, Found, size
    <3>2. \A d \in FreeChunks(heap) : heap.hdr[d].size < size /\ heap.hdr[d].size \in Nat
      BY <2>1, <2>2, <3>1, FirstFitIs
    <3>. QED BY <2>1, <3>2 DEF size, Fitting
  <2>4. ASSUME Malloc(r)
        PROVE  \E c \in Fitting(r) : /\ c + AllocNode \in DOMAIN given' \ Blocks
                                 /\ \A d \in Fitting(r) : heap.hdr[c].size <= heap.hdr[d].size
    <3>. DEFINE c == FirstFit(heap, size)
    <3>1. Call /\ c # NULL /\ Found(r) = c /\ given' = Grant(given, c + AllocNode, r)
      BY <2>4 DEF Malloc, Found, size
    <3>2. /\ c \in FreeChunks(heap) /\ heap.hdr[c].size >= size
          /\ \A d \in FreeChunks(heap) : heap.hdr[d].size >= size =>
                heap.hdr[c].size <= heap.hdr[d].size
      BY <2>1, <2>2, <3>1, FirstFitIs
    <3>3. c \in Listed(heap) /\ IsTaken(heap, c, size, Taken(heap, c, size))
      BY <2>0, <3>1, FoundIs DEF size
    <3>. HIDE DEF c
    <3>4. c + AllocNode \notin DOMAIN given
          /\ DOMAIN Grant(given, c + AllocNode, r) = DOMAIN given \cup {c + AllocNode}
      BY <2>1, <2>2, <3>1, <3>3, KeptGrant DEF size
    <3>. QED BY <3>1, <3>2, <3>4 DEF size, Blocks, Fitting
  <2>. QED BY <2>3, <2>4
<1>2. Spec => [][\A r \in Requests : Best(r)]_vars
  <2>. HIDE DEF Best
  <2>. QED BY <1>1, Invariant, PTL DEF Spec
<1>. QED BY <1>2 DEF BestFit

\* Only the free of a block smaller than struct mm_freenode_s puts a chunk too small for its
\* links into the list: neither the rest of a split nor a merged chunk ever is.
THEOREM SmashedBySmallBlocksCorrect == Spec => SmashedBySmallBlocks
<1>. DEFINE Blamed == \E p \in Blocks \ DOMAIN given' : ChunkSize(given[p]) < NodeSize
<1>1. ASSUME IInv, [Next]_vars, Smashed' PROVE Blamed \/ UNCHANGED vars
  <2>0. HeapInv /\ HeapInv' /\ Aligned(heap)
    BY <1>1, HeapInvStep DEF IInv
  <2>1. PICK c \in FreeChunks(heap') : heap'.hdr[c].size < NodeSize
    BY <1>1 DEF Smashed
  <2>2. c \in Listed(heap') /\ heap'.hdr[c].size \in Nat /\ NodeSize \in Nat
    <3>1. FreeChunks(heap') \subseteq Listed(heap') /\ Tiles(heap'.hdr)
      BY <2>0 DEF HeapInv, WellFormed, Ordered
    <3>. QED BY <2>1, <3>1, ChunksAre, Constants DEF FreeChunks, Chunks
  <2>3. ASSUME Call
        PROVE  /\ WellFormed(heap) /\ Regular(heap) /\ Kept(given, heap)
               /\ \A d \in Listed(heap) : heap.hdr[d].size >= NodeSize
    <3>1. WellFormed(heap) /\ Regular(heap) /\ Kept(given, heap) /\ ~Smashed
      BY <2>0, <2>3, CallIs
    <3>2. Listed(heap) = FreeChunks(heap) /\ Tiles(heap.hdr)
      BY <3>1, RegularLists DEF WellFormed, Ordered
    <3>3. \A d \in FreeChunks(heap) : heap.hdr[d].size \in Nat
      BY <3>2, ChunksAre DEF FreeChunks, Chunks
    <3>. QED BY <3>1, <3>2, <3>3, Constants DEF Smashed
  <2>4. ASSUME NEW r \in Requests, Malloc(r) PROVE FALSE
    <3>1. /\ Call /\ Found(r) # NULL /\ heap' = Taken(heap, Found(r), ChunkSize(r))
      BY <2>4 DEF Malloc
    <3>2. /\ r \in Nat /\ Found(r) \in Listed(heap)
          /\ IsTaken(heap, Found(r), ChunkSize(r), heap')
      BY <2>0, <3>1, FoundIs
    <3>3. \A d \in Listed(heap') : heap'.hdr[d].size >= NodeSize
      BY <2>0, <2>3, <3>1, <3>2, NodesTaken
    <3>. QED BY <2>1, <2>2, <3>3
  <2>5. ASSUME NEW r \in Requests, MallocFails(r) PROVE FALSE
    <3>1. Call /\ heap' = heap
      BY <2>5 DEF MallocFails
    <3>. QED BY <2>1, <2>2, <2>3, <3>1
  <2>6. ASSUME NEW p \in Blocks, NEW h, IsFreed(h, p - AllocNode, heap'),
               \A d \in Listed(h) : h.hdr[d].size >= NodeSize, Tiles(h.hdr),
               ChunkSize(given[p]) <= h.hdr[p - AllocNode].size,
               p - AllocNode \in Chunks(h), given[p] \in Nat
        PROVE  ChunkSize(given[p]) < NodeSize
    <3>1. heap'.hdr[c].size >= h.hdr[p - AllocNode].size
      BY <2>1, <2>2, <2>6 DEF IsFreed
    <3>2. h.hdr[p - AllocNode].size \in Nat /\ ChunkSize(given[p]) \in Nat
      BY <2>6, ChunksAre, ChunkSizeIs DEF Chunks
    <3>. QED BY <2>1, <2>2, <2>6, <3>1, <3>2
  <2>7. ASSUME NEW p \in Blocks, Kept(given, heap)
        PROVE  /\ given[p] \in Nat /\ p - AllocNode \in Held(heap)
               /\ ChunkSize(given[p]) <= heap.hdr[p - AllocNode].size
    BY <2>7 DEF Kept, Blocks
  <2>8. ASSUME NEW p \in Blocks, FreeBlock(p) PROVE Blamed
    <3>1. Call /\ heap' = FreeIn(heap, p) /\ p \notin DOMAIN given'
      BY <2>8 DEF FreeBlock
    <3>2. IsFreed(heap, p - AllocNode, heap')
      BY <2>0, <3>1, FreeBlockIs
    <3>3. Tiles(heap.hdr) /\ p - AllocNode \in Chunks(heap)
      BY <2>3, <2>7, <3>1 DEF WellFormed, Ordered, Held
    <3>4. ChunkSize(given[p]) < NodeSize
      BY <2>3, <2>6, <2>7, <3>1, <3>2, <3>3
    <3>. QED BY <3>1, <3>4
  <2>9. ASSUME NEW p \in Blocks, NEW r \in Requests, Realloc(p, r) PROVE Blamed
    <3>. DEFINE e == Found(r)
                h == Taken(heap, e, ChunkSize(r))
    <3>1. /\ Call /\ e # NULL /\ heap' = FreeIn(h, p)
          /\ DOMAIN given' = (Blocks \ {p}) \cup {e + AllocNode}
      BY <2>9 DEF Realloc
    <3>2. r \in Nat /\ e \in Listed(heap) /\ IsTaken(heap, e, ChunkSize(r), h)
      BY <2>0, <3>1, FoundIs
    <3>3. IsFreed(h, p - AllocNode, heap')
      BY <2>0, <3>1, ReallocIs
    <3>. HIDE DEF e, h
    <3>4. /\ WellFormed(heap) /\ Regular(heap) /\ Kept(given, heap)
          /\ \A d \in Listed(heap) : heap.hdr[d].size >= NodeSize
      BY <2>3, <3>1
    <3>5. e + AllocNode \notin DOMAIN given
      BY <3>2, <3>4, KeptGrant
    <3>6. \A d \in Listed(h) : h.hdr[d].size >= NodeSize
      BY <2>0, <3>2, <3>4, NodesTaken
    <3>7. p - AllocNode \in Held(h) /\ h.hdr[p - AllocNode].size = heap.hdr[p - AllocNode].size
      BY <2>7, <3>2, <3>4, HeldTaken
    <3>8. Tiles(h.hdr) /\ p - AllocNode \in Chunks(h)
      BY <3>2, <3>7 DEF IsTaken, WellFormed, Ordered, Held
    <3>9. ChunkSize(given[p]) < NodeSize
      BY <2>6, <2>7, <3>3, <3>4, <3>6, <3>7, <3>8
    <3>10. p \notin DOMAIN given'
      BY <3>1, <3>5 DEF Blocks
    <3>. QED BY <3>9, <3>10
  <2>. QED BY <1>1, <2>4, <2>5, <2>8, <2>9 DEF Next
<1>2. IInv /\ [Next]_vars => [Smashed' => Blamed]_vars
  BY <1>1
<1>3. Spec => [][Smashed' => Blamed]_vars
  <2>. HIDE DEF Blamed
  <2>. QED BY <1>2, Invariant, PTL DEF Spec
<1>. QED BY <1>3 DEF SmashedBySmallBlocks
=============================================================================
