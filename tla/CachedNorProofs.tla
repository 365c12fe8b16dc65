--------------------------- MODULE CachedNorProofs ---------------------------
(***************************************************************************)
(* The write-back cache keeps every page, whatever the sizes, the flash,   *)
(* the calls and the failures: the type invariant, the three invariants    *)
(* and the action property of CachedNor, for every value of the constants. *)
(*                                                                         *)
(* The inductive invariant Inv follows a call through its flush: Flow says *)
(* which calls and marks a place goes with, Asked what is known of the     *)
(* pages of the call, Loops what nor_erase and nor_write are past, Kept    *)
(* that flash and cache hold the view, and that the walk of the flush has  *)
(* programmed what it passed, Marks that marked pages are not synced yet.  *)
(***************************************************************************)
EXTENDS CachedNor, NatFacts

LEMMA Sizes ==
  /\ PageSize \in Nat \ {0} /\ SecSize \in Nat \ {0} /\ EraseSize \in Nat \ {0}
  /\ HalfSize \in Nat \ {0} /\ CacheSize \in Nat \ {0}
  /\ TotalSize \in Nat \ {0} /\ WordSize \in Nat \ {0}
  /\ Divides(SecSize, HalfSize) /\ Divides(HalfSize, CacheSize)
  /\ Divides(PageSize, SecSize) /\ Divides(PageSize, EraseSize)
  /\ Divides(PageSize, CacheSize) /\ Divides(PageSize, TotalSize)
  /\ Divides(SecSize, EraseSize) /\ Divides(SecSize, CacheSize)
  /\ Divides(SecSize, TotalSize)
  /\ Divides(EraseSize, CacheSize) /\ Divides(CacheSize, TotalSize)
<1>1. /\ PageSize \in Nat \ {0} /\ SecSize \in Nat \ {0} /\ EraseSize \in Nat \ {0}
      /\ HalfSize \in Nat \ {0} /\ CacheSize \in Nat \ {0}
      /\ TotalSize \in Nat \ {0} /\ WordSize \in Nat \ {0}
      /\ Divides(SecSize, HalfSize) /\ Divides(HalfSize, CacheSize)
      /\ Divides(PageSize, SecSize) /\ Divides(SecSize, EraseSize)
      /\ Divides(EraseSize, CacheSize) /\ Divides(CacheSize, TotalSize)
  BY CacheAssumption DEF Divides
<1>2. Divides(PageSize, EraseSize) /\ Divides(SecSize, CacheSize)
  BY <1>1, MultipleTrans
<1>3. Divides(PageSize, CacheSize) /\ Divides(SecSize, TotalSize)
  BY <1>1, <1>2, MultipleTrans
<1>4. Divides(PageSize, TotalSize)
  BY <1>1, <1>3, MultipleTrans
<1>. QED BY <1>1, <1>2, <1>3, <1>4

LEMMA AligningDown ==
  \A n \in Nat \ {0} : \A a \in Nat :
    /\ AlignDown(a, n) \in Nat /\ Divides(n, AlignDown(a, n))
    /\ AlignDown(a, n) <= a /\ a < AlignDown(a, n) + n
    /\ \A b \in Int : Divides(n, b) /\ b <= a /\ a < b + n => AlignDown(a, n) = b
BY Aligning DEF AlignDown

LEMMA AlignBounds ==
  ASSUME NEW n \in Nat \ {0}, NEW a \in Nat
  PROVE  /\ AlignDown(a, n) \in Nat /\ Divides(n, AlignDown(a, n))
         /\ AlignDown(a, n) <= a /\ a < AlignDown(a, n) + n
BY AligningDown

LEMMA AlignedDown ==
  \A n \in Nat \ {0} : \A a \in Nat : Divides(n, a) => AlignDown(a, n) = a
BY AligningDown

-----------------------------------------------------------------------------
(* wrlock.c: the loop of nor_wr_unlock.                                    *)

Regions == [addr : Nat, len : Nat]

\* Where nor_wr_unlock goes on after its first command, and what that command unlocks.
NextUnlock(r) ==
  LET rest == r.len - SmallerOf(LockUnit(r.addr), r.len)
  IN [addr |-> r.addr + SmallerOf(LockUnit(r.addr), rest), len |-> rest]

Commanded(r) == ChipUnit(AlignDown(r.addr, LockUnit(r.addr)))

LEMMA NextUnlockType == \A r \in Regions : NextUnlock(r) \in Regions
BY Sizes DEF Regions, NextUnlock, SmallerOf, LockUnit

\* The regions the loop comes through: those in every set that holds r and with each
\* region the one the loop goes on with.
Closed(S) == \A s \in S : s.len # 0 => NextUnlock(s) \in S
LoopOf(r) == {s \in Regions : \A S \in SUBSET Regions : r \in S /\ Closed(S) => s \in S}
UnlockedBy(r) == UNION {Commanded(s) : s \in {s \in LoopOf(r) : s.len # 0}}

LEMMA LoopUnfolds ==
  ASSUME NEW r \in Regions
  PROVE  LoopOf(r) = {r} \cup (IF r.len = 0 THEN {} ELSE LoopOf(NextUnlock(r)))
<1>. DEFINE L == {r} \cup (IF r.len = 0 THEN {} ELSE LoopOf(NextUnlock(r)))
<1>1. \A q \in Regions : q \in LoopOf(q) /\ LoopOf(q) \in SUBSET Regions /\ Closed(LoopOf(q))
  BY NextUnlockType DEF LoopOf, Closed
<1>2. r \in L /\ L \in SUBSET Regions /\ Closed(L)
  <2>1. L \in SUBSET Regions
    BY <1>1, NextUnlockType
  <2>2. ASSUME NEW s \in L, s.len # 0 PROVE NextUnlock(s) \in L
    <3>1. CASE r.len = 0
      BY <2>2, <3>1
    <3>2. CASE r.len # 0
      <4>1. LoopOf(NextUnlock(r)) \subseteq L /\ NextUnlock(r) \in LoopOf(NextUnlock(r))
        BY <1>1, <3>2, NextUnlockType
      <4>2. s = r \/ s \in LoopOf(NextUnlock(r))
        BY <3>2
      <4>3. Closed(LoopOf(NextUnlock(r)))
        BY <1>1, NextUnlockType
      <4>. QED BY <2>2, <4>1, <4>2, <4>3 DEF Closed
    <3>. QED BY <3>1, <3>2
  <2>. QED BY <2>1, <2>2 DEF Closed
<1>. HIDE DEF L
<1>3. LoopOf(r) \subseteq L
  BY <1>2 DEF LoopOf
<1>4. L \subseteq LoopOf(r)
  <2>1. r \in LoopOf(r)
    BY <1>1
  <2>2. ASSUME r.len # 0 PROVE LoopOf(NextUnlock(r)) \subseteq LoopOf(r)
    BY <2>2, NextUnlockType DEF LoopOf, Closed
  <2>. QED BY <2>1, <2>2 DEF L
<1>. QED BY <1>3, <1>4 DEF L

UnlockEquation(f) ==
  f = [r \in Regions |-> IF r.len = 0 THEN {} ELSE Commanded(r) \cup f[NextUnlock(r)]]

\* The recursive function is one, so its equation holds.
LEMMA UnlockEquationHolds == UnlockEquation(UnlockLoop)
<1>. DEFINE f == [r \in Regions |-> UnlockedBy(r)]
<1>1. UnlockLoop = CHOOSE g : UnlockEquation(g)
  BY DEF UnlockLoop, UnlockEquation, Regions, Commanded, NextUnlock
<1>2. ASSUME NEW r \in Regions
      PROVE  f[r] = IF r.len = 0 THEN {} ELSE Commanded(r) \cup f[NextUnlock(r)]
  <2>1. CASE r.len = 0
    BY <2>1, LoopUnfolds DEF UnlockedBy
  <2>2. CASE r.len # 0
    <3>1. LoopOf(r) = {r} \cup LoopOf(NextUnlock(r))
      BY <2>2, LoopUnfolds
    <3>2. UnlockedBy(r) = Commanded(r) \cup UnlockedBy(NextUnlock(r))
      BY <2>2, <3>1 DEF UnlockedBy
    <3>. QED BY <2>2, <3>2, NextUnlockType
  <2>. QED BY <2>1, <2>2
<1>3. UnlockEquation(f)
  <2>. HIDE DEF f
  <2>1. f = [r \in Regions |-> f[r]]
    BY DEF f
  <2>2. f = [r \in Regions |-> IF r.len = 0 THEN {} ELSE Commanded(r) \cup f[NextUnlock(r)]]
    BY <1>2, <2>1
  <2>. QED BY <2>2 DEF UnlockEquation
<1>. HIDE DEF f
<1>. QED BY <1>1, <1>3

LEMMA UnlockUnfolds ==
  ASSUME NEW r \in Regions, r.len # 0
  PROVE  UnlockLoop[r] = Commanded(r) \cup UnlockLoop[NextUnlock(r)]
BY UnlockEquationHolds DEF UnlockEquation

LEMMA SizesOrder ==
  /\ PageSize <= SecSize /\ SecSize <= EraseSize /\ EraseSize <= CacheSize
  /\ CacheSize <= TotalSize
<1>1. \A n \in Nat \ {0} : Divides(n, 0)
  BY Multiple
<1>. QED BY <1>1, Sizes, MultipleGap

\* The chip unlocks the whole unit the loop means.
LEMMA CommandedIs ==
  ASSUME NEW r \in Regions
  PROVE  LET u == LockUnit(r.addr)
         IN /\ u \in {SecSize, CacheSize}
            /\ Commanded(r) = AlignDown(r.addr, u) .. AlignDown(r.addr, u) + u - 1
<1>. DEFINE a == r.addr
            u == LockUnit(a)
            b == AlignDown(a, u)
<1>1. a \in Nat /\ u \in {SecSize, CacheSize} /\ u \in Nat \ {0}
  BY Sizes DEF Regions, LockUnit
<1>. HIDE DEF u
<1>2. b \in Nat /\ Divides(u, b) /\ b <= a /\ a < b + u
  BY <1>1, AligningDown
<1>3. AlignDown(b, u) = b
  BY <1>1, <1>2, AlignedDown
<1>. HIDE DEF a, b
<1>4. (b >= TotalSize - CacheSize \/ b < CacheSize) <=> (a >= TotalSize - CacheSize \/ a < CacheSize)
  <2>1. CASE u = SecSize
    <3>1. Divides(SecSize, TotalSize - CacheSize)
      BY Sizes, DividesSum
    <3>2. b < TotalSize - CacheSize => b + SecSize <= TotalSize - CacheSize
      BY <1>2, <2>1, <3>1, Sizes, MultipleGap
    <3>3. b < CacheSize => b + SecSize <= CacheSize
      BY <1>2, <2>1, Sizes, MultipleGap
    <3>4. a \in Nat /\ b \in Nat /\ b <= a /\ a < b + SecSize
      BY <1>1, <1>2, <2>1
    <3>. QED BY <3>2, <3>3, <3>4, Sizes
  <2>2. CASE u = CacheSize
    <3>1. b < CacheSize => b + CacheSize <= CacheSize
      <4>1. Divides(CacheSize, CacheSize)
        BY Sizes, DividesSelf
      <4>. QED BY <1>2, <2>2, <4>1, Sizes, MultipleGap
    <3>2. Divides(CacheSize, TotalSize - CacheSize)
      <4>1. Divides(CacheSize, CacheSize)
        BY Sizes, DividesSelf
      <4>. QED BY <4>1, Sizes, DividesSum
    <3>3. b < TotalSize - CacheSize => b + CacheSize <= TotalSize - CacheSize
      BY <1>2, <2>2, <3>2, Sizes, MultipleGap
    <3>4. a \in Nat /\ b \in Nat /\ b <= a /\ a < b + CacheSize
      BY <1>1, <1>2, <2>2
    <3>. QED BY <3>1, <3>3, <3>4, Sizes
  <2>. QED BY <1>1, <2>1, <2>2
<1>5. Commanded(r) = ChipUnit(b)
  BY DEF Commanded, b, u, a
<1>6. CASE a >= TotalSize - CacheSize \/ a < CacheSize
  <2>1. u = SecSize
    BY <1>6 DEF LockUnit, u
  <2>2. ChipUnit(b) = AlignDown(b, SecSize) .. AlignDown(b, SecSize) + SecSize - 1
    BY <1>4, <1>6 DEF ChipUnit
  <2>. QED BY <1>1, <1>3, <1>5, <2>1, <2>2 DEF u, b, a
<1>7. CASE ~(a >= TotalSize - CacheSize \/ a < CacheSize)
  <2>1. u = CacheSize
    BY <1>7 DEF LockUnit, u
  <2>2. ChipUnit(b) = AlignDown(b, CacheSize) .. AlignDown(b, CacheSize) + CacheSize - 1
    BY <1>4, <1>7 DEF ChipUnit
  <2>. QED BY <1>1, <1>3, <1>5, <2>1, <2>2 DEF u, b, a
<1>. QED BY <1>1, <1>6, <1>7 DEF u, b, a

\* The first address of a region is unlocked.
LEMMA UnlocksFirst ==
  ASSUME NEW a \in Nat, NEW n \in Nat \ {0}
  PROVE  a \in Unlocked(a, n)
<1>. DEFINE r == [addr |-> a, len |-> n]
            u == LockUnit(a)
<1>1. r \in Regions /\ r.addr = a /\ r.len # 0
  BY DEF Regions
<1>2. u \in {SecSize, CacheSize} /\ Commanded(r) = AlignDown(a, u) .. AlignDown(a, u) + u - 1
  BY <1>1, CommandedIs
<1>3. AlignDown(a, u) \in Nat /\ AlignDown(a, u) <= a /\ a < AlignDown(a, u) + u
  BY <1>2, Sizes, AligningDown
<1>4. a \in Commanded(r)
  <2>. HIDE DEF u, r
  <2>. QED BY <1>2, <1>3, Sizes
<1>. QED BY <1>1, <1>4, UnlockUnfolds DEF Unlocked

\* In the blocks locked by sectors the loop goes from sector to sector.
LEMMA UnlocksSectors ==
  ASSUME NEW a \in Nat, NEW n \in Nat, Divides(SecSize, a), Divides(SecSize, n),
         a + n <= CacheSize \/ a >= TotalSize - CacheSize
  PROVE  a .. a + n - 1 \subseteq Unlocked(a, n)
<1>. DEFINE Covers(b, m) ==
       Divides(SecSize, b) /\ Divides(SecSize, m)
       /\ (b + m <= CacheSize \/ b >= TotalSize - CacheSize)
       => b .. b + m - 1 \subseteq Unlocked(b, m)
            S == {m \in Nat : \A b \in Nat : Covers(b, m)}
<1>1. ASSUME NEW m \in Nat, \A k \in 0 .. m - 1 : k \in S
      PROVE  m \in S
  <2>. SUFFICES ASSUME NEW b \in Nat, Divides(SecSize, b), Divides(SecSize, m),
                       b + m <= CacheSize \/ b >= TotalSize - CacheSize,
                       m # 0
                PROVE  b .. b + m - 1 \subseteq Unlocked(b, m)
    BY Sizes
  <2>. DEFINE r == [addr |-> b, len |-> m]
  <2>1. r \in Regions /\ r.addr = b /\ r.len = m
    BY DEF Regions
  <2>2. LockUnit(b) = SecSize
    BY SizesOrder, Sizes DEF LockUnit
  <2>3. SecSize <= m
    BY Sizes, DividesSelf, MultipleGap
  <2>4. AlignDown(b, SecSize) = b
    BY Sizes, AlignedDown
  <2>5. Commanded(r) = b .. b + SecSize - 1
    BY <2>1, <2>2, <2>4, CommandedIs
  <2>6. UnlockLoop[r] = Commanded(r) \cup UnlockLoop[NextUnlock(r)]
    BY <2>1, UnlockUnfolds
  <2>7. m - SecSize \in S /\ Divides(SecSize, m - SecSize) /\ Divides(SecSize, b + SecSize)
    <3>1. Divides(SecSize, SecSize)
      BY Sizes, DividesSelf
    <3>2. m - SecSize \in 0 .. m - 1
      BY <2>3, Sizes
    <3>3. Divides(SecSize, m - SecSize) /\ Divides(SecSize, b + SecSize)
      BY <3>1, Sizes, DividesSum
    <3>. HIDE DEF S
    <3>. QED BY <1>1, <3>2, <3>3
  <2>8. CASE m = SecSize
    BY <2>5, <2>6, <2>8 DEF Unlocked
  <2>9. CASE m # SecSize
    <3>1. SecSize <= m - SecSize
      BY <2>3, <2>7, <2>9, Sizes, DividesSelf, MultipleGap
    <3>2. NextUnlock(r) = [addr |-> b + SecSize, len |-> m - SecSize]
      BY <2>1, <2>2, <2>3, <3>1, Sizes DEF NextUnlock, SmallerOf
    <3>3. b + SecSize \in Nat /\ m - SecSize \in Nat
          /\ (b + SecSize + (m - SecSize) <= CacheSize \/ b + SecSize >= TotalSize - CacheSize)
      BY <2>3, Sizes
    <3>4. b + SecSize .. b + SecSize + (m - SecSize) - 1 \subseteq Unlocked(b + SecSize, m - SecSize)
      BY <2>7, <3>3
    <3>5. b .. b + m - 1 \subseteq (b .. b + SecSize - 1)
            \cup (b + SecSize .. b + SecSize + (m - SecSize) - 1)
      BY <2>3, Sizes
    <3>. QED BY <2>5, <2>6, <3>2, <3>4, <3>5 DEF Unlocked
  <2>. QED BY <2>8, <2>9
<1>. HIDE DEF S
<1>2. Nat \subseteq S
  BY <1>1, Induct
<1>3. n \in S
  BY <1>2
<1>. QED BY <1>3 DEF S

-----------------------------------------------------------------------------
(* Pages.                                                                  *)

At(p) == p * PageSize

LEMMA AtOrder ==
  \A p, q \in Int :
    /\ At(p) \in Int /\ Divides(PageSize, At(p))
    /\ p < q <=> At(p) < At(q)
    /\ p < q <=> At(p) + PageSize <= At(q)
    /\ p <= q <=> At(p) <= At(q)
<1>. SUFFICES ASSUME NEW p \in Int, NEW q \in Int
              PROVE  /\ At(p) \in Int /\ Divides(PageSize, At(p))
                     /\ p < q <=> At(p) < At(q)
                     /\ p < q <=> At(p) + PageSize <= At(q)
                     /\ p <= q <=> At(p) <= At(q)
  OBVIOUS
<1>1. PageSize \in Nat \ {0}
  BY Sizes
<1>2. At(p) = PageSize * p /\ At(q) = PageSize * q
  BY <1>1 DEF At
<1>3. Divides(PageSize, At(p)) /\ At(p) \in Int
  BY <1>1, <1>2, Multiple
<1>. QED BY <1>1, <1>2, <1>3, TimesOrder

LEMMA AtSum == \A p, q \in Int : At(p + q) = At(p) + At(q) /\ At(p - q) = At(p) - At(q)
BY Sizes DEF At

LEMMA AtZero == At(0) = 0 /\ At(1) = PageSize
BY Sizes DEF At

\* The page an address that is a multiple of a page is the address of.
LEMMA AtDiv ==
  \A a \in Int : Divides(PageSize, a) => a \div PageSize \in Int /\ At(a \div PageSize) = a
<1>. SUFFICES ASSUME NEW a \in Int, Divides(PageSize, a)
              PROVE  a \div PageSize \in Int /\ At(a \div PageSize) = a
  OBVIOUS
<1>1. a = PageSize * (a \div PageSize) /\ a \div PageSize \in Int
  BY Sizes, Multiple
<1>. QED BY <1>1, Sizes DEF At

LEMMA DivDiff ==
  \A a, b \in Int : Divides(PageSize, a) /\ Divides(PageSize, b) =>
    (a - b) \div PageSize = (a \div PageSize) - (b \div PageSize)
<1>1. PageSize \in Nat \ {0}
  BY Sizes
<1>. QED BY ONLY <1>1, MultipleSum

LEMMA Counts ==
  /\ PageCnt \in Nat \ {0} /\ At(PageCnt) = CacheSize
  /\ BlkCnt \in Nat \ {0} /\ EraseSize * BlkCnt = CacheSize
  /\ BlkCnt <= PageCnt
<1>1. PageCnt \in Int /\ At(PageCnt) = CacheSize
  BY Sizes, AtDiv DEF PageCnt
<1>2. BlkCnt \in Int /\ EraseSize * BlkCnt = CacheSize
  BY Sizes, Multiple DEF BlkCnt
<1>3. PageCnt > 0
  BY <1>1, AtOrder, AtZero, Sizes
<1>4. BlkCnt > 0
  <2>1. BlkCnt <= 0 => EraseSize * BlkCnt <= EraseSize * 0
    BY <1>2, Sizes, TimesOrder
  <2>. QED BY <1>2, <2>1, Sizes
<1>5. BlkCnt <= PageCnt
  <2>1. At(BlkCnt) = PageSize * BlkCnt
    BY <1>2, Sizes DEF At
  <2>2. PageSize * BlkCnt <= EraseSize * BlkCnt
    <3>1. BlkCnt * PageSize <= BlkCnt * EraseSize
      BY <1>2, <1>4, Sizes, SizesOrder, TimesOrder
    <3>2. BlkCnt * PageSize = PageSize * BlkCnt /\ BlkCnt * EraseSize = EraseSize * BlkCnt
      BY <1>2, Sizes
    <3>. QED BY <3>1, <3>2
  <2>. QED BY <1>1, <1>2, <2>1, <2>2, AtOrder
<1>. QED BY <1>1, <1>2, <1>3, <1>4, <1>5

LEMMA PageIs ==
  /\ Page \subseteq Nat
  /\ \A p \in Int : p \in Page <=> 0 <= At(p) /\ At(p) < TotalSize
  /\ \A p \in Page : 0 <= At(p) /\ At(p) + PageSize <= TotalSize
  /\ 0 \in Page
<1>. DEFINE n == TotalSize \div PageSize
<1>1. n \in Int /\ At(n) = TotalSize
  BY Sizes, AtDiv
<1>2. Page = 0 .. n - 1
  BY DEF Page
<1>. HIDE DEF n
<1>5. \A p \in Int : (0 <= p <=> 0 <= At(p)) /\ (p < n <=> At(p) < TotalSize)
                     /\ (p < n <=> At(p) + PageSize <= TotalSize)
  <2>. TAKE p \in Int
  <2>1. 0 \in Int /\ (0 <= p <=> At(0) <= At(p))
    BY AtOrder
  <2>2. (p < n <=> At(p) < At(n)) /\ (p < n <=> At(p) + PageSize <= At(n))
    BY <1>1, AtOrder
  <2>. QED BY <1>1, <2>1, <2>2, AtZero
<1>3. \A p \in Int : p \in Page <=> 0 <= At(p) /\ At(p) < TotalSize
  BY <1>1, <1>2, <1>5
<1>4. \A p \in Page : 0 <= At(p) /\ At(p) + PageSize <= TotalSize
  BY <1>1, <1>2, <1>5
<1>. QED BY <1>2, <1>3, <1>4, AtZero, Sizes

LEMMA PageAddr == \A p \in Page : p \in Nat /\ At(p) \in Nat
<1>. SUFFICES ASSUME NEW p \in Page PROVE p \in Nat /\ At(p) \in Nat
  OBVIOUS
<1>1. p \in Nat /\ 0 <= At(p)
  BY PageIs
<1>2. At(p) \in Int
  BY <1>1, AtOrder
<1>. QED BY <1>1, <1>2

LEMMA PagesOfIs ==
  \A a, n : PagesOf(a, n) = {p \in Page : a <= At(p) /\ At(p) < a + n}
BY DEF PagesOf, At

\* The pages of a range are those of its first part and those of the rest.
LEMMA PagesOfParts ==
  \A a, m, n \in Nat : m <= n =>
    /\ PagesOf(a, n) = PagesOf(a, m) \cup PagesOf(a + m, n - m)
    /\ PagesOf(a, m) \cap PagesOf(a + m, n - m) = {}
<1>1. \A p \in Page : At(p) \in Int
  BY PageIs, AtOrder
<1>. QED BY <1>1, PagesOfIs

LEMMA NoPages == \A a \in Nat : PagesOf(a, 0) = {}
<1>1. \A p \in Page : At(p) \in Int
  BY PageIs, AtOrder
<1>. QED BY <1>1, PagesOfIs

\* The pages of a range that begins and ends with a page, by number.
LEMMA PageSpan ==
  ASSUME NEW a \in Nat, NEW n \in Nat, Divides(PageSize, a), Divides(PageSize, n),
         a + n <= TotalSize
  PROVE  /\ a \div PageSize \in Nat /\ n \div PageSize \in Nat
         /\ PagesOf(a, n) = a \div PageSize .. a \div PageSize + (n \div PageSize) - 1
         /\ (a + n) \div PageSize = a \div PageSize + (n \div PageSize)
<1>. DEFINE f == a \div PageSize
            k == n \div PageSize
<1>1. f \in Int /\ k \in Int /\ At(f) = a /\ At(k) = n
  BY AtDiv
<1>. HIDE DEF f, k
<1>2. (a + n) \div PageSize = f + k
  <2>1. Divides(PageSize, a + n) /\ a + n \in Int
    BY Sizes, DividesSum
  <2>2. (a + n) \div PageSize \in Int /\ At((a + n) \div PageSize) = a + n
    BY <2>1, AtDiv
  <2>3. At(f + k) = a + n
    BY <1>1, AtSum
  <2>. DEFINE g == (a + n) \div PageSize
  <2>. HIDE DEF g
  <2>4. g \in Int /\ At(g) = At(f + k) /\ f + k \in Int
    BY <1>1, <2>2, <2>3 DEF g
  <2>5. ~(g < f + k) /\ ~(f + k < g)
    BY <2>4, AtOrder
  <2>. QED BY <2>4, <2>5 DEF g
<1>3. f \in Nat /\ k \in Nat
  BY <1>1, AtOrder, AtZero
<1>4. At(f + k) = a + n
  BY <1>1, AtSum
<1>5. ASSUME NEW p \in Page, a <= At(p), At(p) < a + n PROVE p \in f .. f + k - 1
  <2>1. p \in Int
    BY PageIs
  <2>. QED BY <1>1, <1>3, <1>4, <1>5, <2>1, AtOrder
<1>6. ASSUME NEW p \in f .. f + k - 1 PROVE p \in Page /\ a <= At(p) /\ At(p) < a + n
  <2>1. p \in Int /\ f <= p /\ p < f + k
    BY <1>3
  <2>2. a <= At(p) /\ At(p) < a + n /\ At(p) \in Int
    BY <1>1, <1>3, <1>4, <2>1, AtOrder
  <2>. QED BY <2>1, <2>2, PageIs, Sizes
<1>7. PagesOf(a, n) = f .. f + k - 1
  BY <1>5, <1>6, PagesOfIs
<1>. QED BY <1>2, <1>3, <1>7 DEF f, k

-----------------------------------------------------------------------------
(* The window of the cache.                                                *)

Slot(w, i) == (w \div PageSize) + i

LEMMA WindowIs ==
  ASSUME NEW w \in Nat, Divides(CacheSize, w), w < TotalSize
  PROVE  /\ w + CacheSize <= TotalSize
         /\ w \div PageSize \in Nat /\ At(w \div PageSize) = w
         /\ \A i \in 0 .. PageCnt - 1 :
              Slot(w, i) \in Page /\ w <= At(Slot(w, i)) /\ At(Slot(w, i)) < w + CacheSize
         /\ \A p \in Page :
              w <= At(p) /\ At(p) < w + CacheSize <=> p - (w \div PageSize) \in 0 .. PageCnt - 1
<1>. DEFINE f == w \div PageSize
<1>1. w + CacheSize <= TotalSize
  BY Sizes, MultipleGap
<1>2. Divides(PageSize, w)
  BY Sizes, MultipleTrans
<1>3. f \in Int /\ At(f) = w
  BY <1>2, AtDiv
<1>. HIDE DEF f
<1>4. f \in Nat
  BY <1>3, AtOrder, AtZero
<1>5. ASSUME NEW i \in Int
      PROVE  /\ At(f + i) = w + At(i) /\ At(i) \in Int
             /\ 0 <= i <=> 0 <= At(i)
             /\ i <= PageCnt - 1 <=> At(i) < CacheSize
  <2>1. At(f + i) = w + At(i) /\ At(i) \in Int
    BY <1>3, AtSum, AtOrder
  <2>2. 0 <= i <=> At(0) <= At(i)
    BY AtOrder
  <2>3. i < PageCnt <=> At(i) < At(PageCnt)
    BY Counts, AtOrder
  <2>. QED BY <2>1, <2>2, <2>3, AtZero, Counts
<1>6. ASSUME NEW i \in 0 .. PageCnt - 1
      PROVE  f + i \in Page /\ w <= At(f + i) /\ At(f + i) < w + CacheSize
  <2>1. i \in Int /\ 0 <= i /\ i <= PageCnt - 1
    BY Counts
  <2>2. At(f + i) = w + At(i) /\ 0 <= At(i) /\ At(i) < CacheSize /\ At(i) \in Int
    BY <1>5, <2>1
  <2>3. f + i \in Int /\ 0 <= At(f + i) /\ At(f + i) < TotalSize
    BY <1>1, <1>4, <2>1, <2>2, Sizes
  <2>. QED BY <2>2, <2>3, PageIs, Sizes
<1>7. ASSUME NEW p \in Page
      PROVE  w <= At(p) /\ At(p) < w + CacheSize <=> p - f \in 0 .. PageCnt - 1
  <2>. DEFINE i == p - f
  <2>1. i \in Int /\ f + i = p
    BY <1>4, PageIs
  <2>. HIDE DEF i
  <2>2. /\ At(p) = w + At(i) /\ At(i) \in Int
        /\ 0 <= i <=> 0 <= At(i)
        /\ i <= PageCnt - 1 <=> At(i) < CacheSize
    BY <1>5, <2>1
  <2>3. i \in 0 .. PageCnt - 1 <=> 0 <= i /\ i <= PageCnt - 1
    BY <2>1, Counts
  <2>. QED BY <2>2, <2>3, Sizes DEF i
<1>. QED BY <1>1, <1>3, <1>4, <1>6, <1>7 DEF f, Slot

\* Where erase block b of a window begins.
Off(b) == b * EraseSize

LEMMA OffOrder ==
  \A b, d \in Int :
    /\ Off(b) \in Int /\ Divides(EraseSize, Off(b))
    /\ b < d <=> Off(b) < Off(d)
    /\ b <= d <=> Off(b) <= Off(d)
<1>. SUFFICES ASSUME NEW b \in Int, NEW d \in Int
              PROVE  /\ Off(b) \in Int /\ Divides(EraseSize, Off(b))
                     /\ b < d <=> Off(b) < Off(d)
                     /\ b <= d <=> Off(b) <= Off(d)
  OBVIOUS
<1>1. EraseSize \in Nat \ {0}
  BY Sizes
<1>2. Off(b) = EraseSize * b /\ Off(d) = EraseSize * d
  BY <1>1 DEF Off
<1>3. Divides(EraseSize, Off(b)) /\ Off(b) \in Int
  BY <1>1, <1>2, Multiple
<1>. QED BY <1>1, <1>2, <1>3, TimesOrder

LEMMA OffSum ==
  \A b, d \in Int : Off(b + 1) = Off(b) + EraseSize /\ Off(b - d) = Off(b) - Off(d)
BY Sizes DEF Off

LEMMA OffEnds == Off(0) = 0 /\ Off(BlkCnt) = CacheSize
BY Sizes, Counts DEF Off

BlockIn(w, b) == PagesOf(w + Off(b), EraseSize)

LEMMA BlockInIs ==
  ASSUME NEW w \in Nat, NEW b \in Int, NEW p \in Page
  PROVE  p \in BlockIn(w, b) <=> Off(b) <= At(p) - w /\ At(p) - w < Off(b + 1)
<1>1. At(p) \in Int /\ Off(b) \in Int /\ Off(b + 1) = Off(b) + EraseSize
  <2>1. At(p) \in Int
    BY PageIs, AtOrder
  <2>2. Off(b) \in Int
    BY OffOrder
  <2>. QED BY <2>1, <2>2, Sizes DEF Off
<1>2. p \in BlockIn(w, b) <=> w + Off(b) <= At(p) /\ At(p) < w + Off(b) + EraseSize
  BY PagesOfIs DEF BlockIn
<1>. QED BY <1>1, <1>2, Sizes

\* Each address at or after a multiple of the erase size is in an erase block counted
\* from there.
LEMMA BlockFor ==
  ASSUME NEW x \in Nat
  PROVE  \E b \in Nat : Off(b) <= x /\ x < Off(b + 1)
<1>. DEFINE b == x \div EraseSize
            r == x % EraseSize
<1>1. b \in Int /\ r \in 0 .. EraseSize - 1 /\ x = EraseSize * b + r
  <2>1. x \in Int /\ EraseSize \in Nat \ {0}
    BY Sizes
  <2>. QED BY ONLY <2>1, DivMod
<1>. HIDE DEF b, r
<1>2. Off(b) = EraseSize * b /\ Off(b) \in Int /\ Off(b + 1) = Off(b) + EraseSize
  <2>1. Off(b) = EraseSize * b
    BY <1>1, Sizes DEF Off
  <2>. QED BY <1>1, <2>1, OffOrder, OffSum
<1>3. Off(b) <= x /\ x < Off(b + 1)
  BY <1>1, <1>2, Sizes
<1>4. b \in Nat
  <2>1. Off(0) < Off(b + 1) /\ b + 1 \in Int
    BY <1>1, <1>2, <1>3, OffEnds, Sizes
  <2>2. 0 < b + 1
    BY <2>1, OffOrder
  <2>. QED BY <1>1, <2>2
<1>. QED BY <1>3, <1>4

\* The pages of a run of blocks.
LEMMA RunPages ==
  ASSUME NEW w \in Nat, NEW first \in Nat, NEW last \in Nat, first <= last
  PROVE  PagesOf(w + first * EraseSize, (last - first + 1) * EraseSize)
           = UNION {BlockIn(w, b) : b \in first .. last}
<1>. DEFINE next == last + 1
<1>0. next \in Nat /\ last - first + 1 = next - first
  OBVIOUS
<1>1. (last - first + 1) * EraseSize = Off(next) - Off(first) /\ first * EraseSize = Off(first)
  <2>1. (last - first + 1) * EraseSize = Off(next - first)
    BY <1>0 DEF Off
  <2>2. Off(next - first) = Off(next) - Off(first)
    BY <1>0, OffSum
  <2>. QED BY <2>1, <2>2 DEF Off
<1>2. \A p \in Page : At(p) \in Int
  BY PageIs, AtOrder
<1>3. Off(first) \in Int /\ Off(next) \in Int /\ Off(0) <= Off(first)
  BY <1>0, OffOrder
<1>4. PagesOf(w + first * EraseSize, (last - first + 1) * EraseSize)
        = {p \in Page : Off(first) <= At(p) - w /\ At(p) - w < Off(next)}
  <2>. HIDE DEF next
  <2>. QED BY <1>1, <1>2, <1>3, PagesOfIs
<1>5. ASSUME NEW p \in Page, Off(first) <= At(p) - w, At(p) - w < Off(next)
      PROVE  \E b \in first .. last : p \in BlockIn(w, b)
  <2>1. At(p) - w \in Nat
    BY <1>2, <1>3, <1>5, OffEnds
  <2>2. PICK b \in Nat : Off(b) <= At(p) - w /\ At(p) - w < Off(b + 1)
    BY <2>1, BlockFor
  <2>. DEFINE d == b + 1
  <2>3. d \in Int /\ Off(d) \in Int /\ Off(b) \in Int
    BY OffOrder
  <2>4. Off(first) < Off(d) /\ Off(b) < Off(next)
    BY <1>3, <1>5, <2>1, <2>2, <2>3
  <2>5. first < d /\ b < next
    <3>. HIDE DEF d, next
    <3>. QED BY <1>0, <2>3, <2>4, OffOrder
  <2>. QED BY <2>2, <2>5, BlockInIs
<1>6. ASSUME NEW b \in first .. last, NEW p \in BlockIn(w, b)
      PROVE  p \in Page /\ Off(first) <= At(p) - w /\ At(p) - w < Off(next)
  <2>. DEFINE d == b + 1
  <2>1. b \in Int /\ d \in Int /\ first <= b /\ d <= next
    OBVIOUS
  <2>2. Off(first) <= Off(b) /\ Off(d) <= Off(next) /\ Off(d) \in Int /\ Off(b) \in Int
    <3>. HIDE DEF d, next
    <3>. QED BY <1>0, <2>1, OffOrder
  <2>3. p \in Page
    BY PagesOfIs DEF BlockIn
  <2>4. Off(b) <= At(p) - w /\ At(p) - w < Off(d)
    BY <2>1, <2>3, BlockInIs
  <2>5. At(p) - w \in Int
    BY <1>2, <2>3
  <2>. HIDE DEF d, next
  <2>. QED BY <1>3, <2>2, <2>3, <2>4, <2>5
<1>. HIDE DEF next
<1>. QED BY <1>4, <1>5, <1>6, PagesOfIs DEF BlockIn

\* The blocks a range marks are the range.
LEMMA MarkedPages ==
  ASSUME NEW w \in Nat, Divides(CacheSize, w), NEW a \in Nat, NEW n \in Nat,
         Divides(EraseSize, a), Divides(EraseSize, n), w <= a, a + n <= w + CacheSize
  PROVE  UNION {BlockIn(w, b) : b \in {b \in 0 .. BlkCnt - 1 :
                  \E p \in PagesOf(a, n) : AlignDown(At(p), EraseSize) = w + Off(b)}}
           = PagesOf(a, n)
<1>1. Divides(EraseSize, w) /\ Divides(EraseSize, a + n)
  BY Sizes, MultipleTrans, DividesSum
<1>2. ASSUME NEW b \in 0 .. BlkCnt - 1, NEW p \in PagesOf(a, n),
             AlignDown(At(p), EraseSize) = w + Off(b), NEW q \in BlockIn(w, b)
      PROVE  q \in PagesOf(a, n)
  <2>. DEFINE x == w + Off(b)
  <2>1. b \in Int /\ Off(b) \in Int /\ Divides(EraseSize, Off(b))
    BY Counts, OffOrder
  <2>2. x \in Int /\ Divides(EraseSize, x)
    <3>1. w \in Int /\ EraseSize \in Nat \ {0}
      BY Sizes
    <3>2. \A c \in Int : Divides(EraseSize, c) => Divides(EraseSize, w + c)
      BY ONLY <1>1, <3>1, DividesSum
    <3>. QED BY ONLY <2>1, <3>1, <3>2
  <2>3. q \in Page /\ x <= At(q) /\ At(q) < x + EraseSize /\ At(q) \in Int
    BY PagesOfIs, PageAddr DEF BlockIn
  <2>4. At(p) \in Nat /\ a <= At(p) /\ At(p) < a + n
    BY PagesOfIs, PageAddr
  <2>5. AlignDown(At(p), EraseSize) = x
    BY <1>2
  <2>. HIDE DEF x
  <2>6. x <= At(p) /\ At(p) < x + EraseSize
    BY <2>4, <2>5, Sizes, AligningDown
  <2>7. x < a => x + EraseSize <= a
    BY <2>2, Sizes, MultipleGap
  <2>8. x < a + n => x + EraseSize <= a + n
    BY <1>1, <2>2, Sizes, MultipleGap
  <2>. QED BY <2>2, <2>3, <2>4, <2>6, <2>7, <2>8, PagesOfIs, Sizes
<1>3. ASSUME NEW p \in PagesOf(a, n)
      PROVE  \E b \in 0 .. BlkCnt - 1 :
               p \in BlockIn(w, b) /\ AlignDown(At(p), EraseSize) = w + Off(b)
  <2>1. p \in Page /\ At(p) \in Nat /\ a <= At(p) /\ At(p) < a + n
    BY PagesOfIs, PageAddr
  <2>2. At(p) - w \in Nat
    BY <2>1
  <2>3. PICK b \in Nat : Off(b) <= At(p) - w /\ At(p) - w < Off(b + 1)
    BY <2>2, BlockFor
  <2>4. p \in BlockIn(w, b)
    BY <2>1, <2>3, BlockInIs
  <2>5. Off(b) \in Int /\ Divides(EraseSize, Off(b))
    BY OffOrder
  <2>6. Off(b + 1) = Off(b) + EraseSize
    BY Sizes DEF Off
  <2>7. Divides(EraseSize, w + Off(b))
    BY <1>1, <2>5, Sizes, DividesSum
  <2>8. AlignDown(At(p), EraseSize) = w + Off(b)
    BY <2>1, <2>3, <2>5, <2>6, <2>7, Sizes, AligningDown
  <2>9. b < BlkCnt
    <3>1. Off(b) < Off(BlkCnt)
      BY <2>1, <2>3, <2>5, OffEnds, Sizes
    <3>. QED BY <3>1, Counts, OffOrder
  <2>. QED BY <2>4, <2>8, <2>9, Counts
<1>4. \A b \in Int : BlockIn(w, b) \subseteq Page
  BY PagesOfIs DEF BlockIn
<1>. QED BY <1>2, <1>3, <1>4

-----------------------------------------------------------------------------
(* nor_erase and the walk of the flush.                                    *)

FitsAt(a, n, unit, flag) == n >= unit /\ a % unit = 0 /\ flag \in Flags

EraseUnitFor(a, n) ==
  IF a = 0 /\ n = TotalSize THEN TotalSize
  ELSE IF FitsAt(a, n, CacheSize, "64K") /\ "USE_4K" \notin Flags THEN CacheSize
  ELSE IF FitsAt(a, n, HalfSize, "32K") /\ "USE_4K" \notin Flags THEN HalfSize
  ELSE SecSize

LEMMA EraseUnitIs == EraseUnit = EraseUnitFor(addr, len)
BY DEF EraseUnit, EraseUnitFor, WholeChip, Fits, FitsAt

\* A unit of a block or of a part of one that sectors make up, at a multiple of it, is
\* unlocked as a whole.
LEMMA UnlocksUnit ==
  ASSUME NEW u \in Nat \ {0}, Divides(SecSize, u), Divides(u, CacheSize),
         NEW a \in Nat, Divides(u, a), a + u <= TotalSize
  PROVE  a .. a + u - 1 \subseteq Unlocked(a, u)
<1>1. Divides(SecSize, a) /\ Divides(u, a + u) /\ Divides(u, TotalSize)
      /\ Divides(u, TotalSize - CacheSize)
  BY Sizes, MultipleTrans, DividesSelf, DividesSum
<1>2. CASE a + u <= CacheSize \/ a >= TotalSize - CacheSize
  BY <1>1, <1>2, UnlocksSectors
<1>3. CASE ~(a + u <= CacheSize \/ a >= TotalSize - CacheSize)
  <2>. DEFINE r == [addr |-> a, len |-> u]
              b == AlignDown(a, CacheSize)
  <2>1. r \in Regions /\ r.addr = a /\ r.len # 0
    BY DEF Regions
  <2>2. ~(a < CacheSize)
    <3>1. a < CacheSize => a + u <= CacheSize
      BY Sizes, MultipleGap
    <3>. QED BY <1>3, <3>1
  <2>3. LockUnit(a) = CacheSize
    BY <1>3, <2>2 DEF LockUnit
  <2>4. Commanded(r) = b .. b + CacheSize - 1
    BY <2>1, <2>3, CommandedIs
  <2>5. b \in Nat /\ Divides(CacheSize, b) /\ b <= a /\ a < b + CacheSize
    BY Sizes, AlignBounds
  <2>. HIDE DEF b, r
  <2>6. Divides(u, b + CacheSize)
    <3>1. Divides(u, b)
      BY <2>5, Sizes, MultipleTrans
    <3>. QED BY <2>5, <3>1, Sizes, DividesSum
  <2>7. a + u <= b + CacheSize
    BY <2>5, <2>6, Sizes, MultipleGap
  <2>8. a .. a + u - 1 \subseteq Commanded(r)
    BY <2>4, <2>5, <2>7, Sizes
  <2>. QED BY <2>1, <2>8, UnlockUnfolds DEF Unlocked, r
<1>. QED BY <1>2, <1>3

\* nor_erase never goes past what it was asked for, and nothing it erases is locked,
\* whichever of the units of 64K, 32K and 4K it takes (core.c:786-824).
LEMMA EraseUnitFits ==
  ASSUME NEW a \in Nat, NEW n \in Nat \ {0}, Divides(SecSize, a), Divides(SecSize, n),
         a + n <= TotalSize
  PROVE  LET u == EraseUnitFor(a, n)
         IN /\ u \in Nat \ {0} /\ u <= n /\ Divides(SecSize, u)
            /\ ~(a = 0 /\ n = TotalSize) => a .. a + u - 1 \subseteq Unlocked(a, u)
<1>. DEFINE u == EraseUnitFor(a, n)
<1>1. SecSize <= n
  BY Sizes, DividesSelf, MultipleGap
<1>2. CASE a = 0 /\ n = TotalSize
  BY <1>2, Sizes DEF EraseUnitFor
<1>3. CASE ~(a = 0 /\ n = TotalSize)
  <2>1. \/ u = CacheSize /\ FitsAt(a, n, CacheSize, "64K")
        \/ u = HalfSize /\ FitsAt(a, n, HalfSize, "32K")
        \/ u = SecSize
    BY <1>3 DEF EraseUnitFor
  <2>2. u \in Nat \ {0} /\ Divides(SecSize, u) /\ Divides(u, CacheSize)
    BY <2>1, Sizes, DividesSelf
  <2>3. u <= n /\ Divides(u, a)
    BY <1>1, <2>1, Sizes DEF FitsAt, Divides
  <2>. HIDE DEF u
  <2>4. a + u <= TotalSize
    BY <2>2, <2>3, Sizes
  <2>5. a .. a + u - 1 \subseteq Unlocked(a, u)
    BY <2>2, <2>3, <2>4, UnlocksUnit
  <2>. QED BY <2>2, <2>3, <2>5 DEF u
<1>. QED BY <1>2, <1>3

\* The i-th page of the walk is a page of the window, each page is one of them, and the
\* page written last is the last.
LEMMA WalkIs ==
  ASSUME lastWrite \in 0 .. PageCnt - 1
  PROVE  /\ \A i \in 0 .. PageCnt - 1 : Walk(i) \in 0 .. PageCnt - 1
         /\ \A i, j \in 0 .. PageCnt - 1 : Walk(i) = Walk(j) => i = j
         /\ \A j \in 0 .. PageCnt - 1 : \E i \in 0 .. PageCnt - 1 : Walk(i) = j
         /\ Walk(PageCnt - 1) = lastWrite
<1>1. ASSUME NEW i \in 0 .. PageCnt - 1
      PROVE  Walk(i) = IF i + lastWrite + 1 < PageCnt THEN i + lastWrite + 1
                       ELSE i + lastWrite + 1 - PageCnt
  <2>1. PageCnt \in Nat \ {0} /\ i \in Int /\ lastWrite \in Int
    BY Counts
  <2>2. CASE i + lastWrite + 1 < PageCnt
    <3>1. PageCnt * 0 + (i + lastWrite + 1) = i + lastWrite + 1
      BY <2>1
    <3>2. i + lastWrite + 1 \in 0 .. PageCnt - 1
      BY <2>1, <2>2
    <3>. QED BY <2>1, <2>2, <3>1, <3>2, DivModUnique DEF Walk
  <2>3. CASE ~(i + lastWrite + 1 < PageCnt)
    <3>1. PageCnt * 1 + (i + lastWrite + 1 - PageCnt) = i + lastWrite + 1
      BY <2>1
    <3>2. i + lastWrite + 1 - PageCnt \in 0 .. PageCnt - 1
      BY <2>1, <2>3
    <3>. QED BY <2>1, <2>3, <3>1, <3>2, DivModUnique DEF Walk
  <2>. QED BY <2>2, <2>3
<1>2. PageCnt \in Nat \ {0}
  BY Counts
<1>3. ASSUME NEW j \in 0 .. PageCnt - 1 PROVE \E i \in 0 .. PageCnt - 1 : Walk(i) = j
  <2>1. CASE j > lastWrite
    <3>1. j - lastWrite - 1 \in 0 .. PageCnt - 1
      BY <1>2, <2>1
    <3>2. Walk(j - lastWrite - 1) = j
      BY <1>1, <1>2, <2>1, <3>1
    <3>. QED BY <3>1, <3>2
  <2>2. CASE j <= lastWrite
    <3>1. j - lastWrite - 1 + PageCnt \in 0 .. PageCnt - 1
      BY <1>2, <2>2
    <3>2. Walk(j - lastWrite - 1 + PageCnt) = j
      BY <1>1, <1>2, <2>2, <3>1
    <3>. QED BY <3>1, <3>2
  <2>. QED BY <1>2, <2>1, <2>2
<1>. QED BY <1>1, <1>2, <1>3

-----------------------------------------------------------------------------
(* The inductive invariant.                                                *)

Flushing == {"flusherase", "flushwrite"}

\* What a label says of the call and of the marks.
Flow ==
  /\ pc # "idle" => call \in Calls /\ ~Misaligned(call)
  /\ pc \in Flushing /\ call.fn = "read" => Straddles(call)
  /\ pc = "flushwrite" => wiped = {} /\ ~(call.fn = "erase" /\ Straddles(call))
  /\ pc = "direct" => call.fn # "sync"
  /\ pc = "direct" /\ call.fn = "read" => Range \cap (DirtyPages \cup WipedPages) = {}
  /\ pc = "direct" /\ call.fn = "write" => dirty = {} /\ wiped = {}
  /\ pc = "direct" /\ call.fn = "erase" => wiped = {}
  /\ pc = "serve" => call.fn # "erasechip"
  /\ pc = "serve" /\ call.fn = "sync" => dirty = {} /\ wiped = {}
  /\ pc = "serve" /\ call.fn \in {"write", "erase"} =>
       ~Straddles(call) /\ win \in {Window, INVALID_CACHE_ADDR}

\* What is known of the pages of a call that has begun.
Asked ==
  pc # "idle" =>
    /\ call.fn = "write" => \A p \in Range : view[p] = Erased
    /\ call.fn \in {"write", "erase"} => Range \cap known = {}
    /\ call.fn = "erase" => Range \cap fresh = {}
    /\ call.fn = "erasechip" => known = {}

\* What nor_erase and nor_write have left to do lies in the call or in the blocks
\* marked, and what they are past is done, but for what a chip erase has spared.
Loops ==
  /\ pc = "flusherase" =>
       /\ addr % SecSize = 0 /\ len % SecSize = 0 /\ addr + len <= TotalSize
       /\ step <= BlkCnt
       /\ PagesOf(addr, len) \subseteq WipedPages
       /\ \A b \in wiped : b < step =>
            \A p \in BlockPages(b) \ (PagesOf(addr, len) \cup spared) : mem[p] = Erased
  /\ pc = "direct" /\ call.fn \in {"erase", "erasechip"} =>
       /\ addr % SecSize = 0 /\ len % SecSize = 0
       /\ call.addr <= addr /\ addr + len = call.addr + call.len
       /\ \A p \in Range \ (PagesOf(addr, len) \cup spared) : mem[p] = Erased
  /\ pc = "direct" /\ call.fn = "write" =>
       /\ addr % PageSize = 0 /\ len % PageSize = 0
       /\ call.addr <= addr /\ addr + len = call.addr + call.len
       /\ \A p \in Range \ spared :
            mem[p] = IF p \in PagesOf(addr, len) THEN Erased ELSE Data(p)

\* The pages that flash and cache hold as view says: of a write to the window all pages
\* it is about to mark count among them.
Sure == (known \cup (IF pc \in Flushing \cup {"serve"} /\ call.fn = "write" THEN Range ELSE {}))
        \ spared

\* The walk of the flush has passed page i of the window.
Walked(i) == \A k \in step .. PageCnt - 1 : Walk(k) # i

Kept ==
  /\ \A p \in Sure : Cached(p) = view[p]
  /\ \A p \in Sure \cap DirtyPages : p \in WipedPages \/ Cached(p) \subseteq mem[p]
  /\ pc = "flushwrite" => \A i \in dirty :
       PageAt(i) \in Sure /\ Walked(i) => mem[PageAt(i)] = buf[i]

\* What the marks say of the calls since the last sync.
Marks ==
  /\ DirtyPages \subseteq fresh
  /\ WipedPages \subseteq cleared
  /\ dirty # {} => meta = PageAt(lastWrite)

Inv == TypeOK /\ Flow /\ Asked /\ Loops /\ Kept /\ Marks

-----------------------------------------------------------------------------
(* What calls, marks and loops are.                                        *)

LEMMA CallIs ==
  ASSUME NEW c \in Calls, ~Misaligned(c)
  PROVE  /\ c.fn \in {"read", "write", "erase", "sync", "erasechip"}
         /\ c.addr \in Nat /\ c.len \in Nat /\ c.addr + c.len <= TotalSize
         /\ Divides(PageSize, c.addr) /\ Divides(PageSize, c.len)
         /\ c.fn = "erase" => Divides(EraseSize, c.addr) /\ Divides(EraseSize, c.len)
         /\ c.fn \in {"erase", "erasechip"} =>
              Divides(SecSize, c.addr) /\ Divides(SecSize, c.len)
         /\ c.fn = "erasechip" => c.addr = 0 /\ c.len = TotalSize
         /\ PagesOf(c.addr, c.len) \subseteq Page
         /\ \A p \in PagesOf(c.addr, c.len) :
              p - (c.addr \div PageSize) \in 0 .. (c.len \div PageSize) - 1
         /\ c.fn = "write" => \A p \in PagesOf(c.addr, c.len) :
              c.data[p - (c.addr \div PageSize)] \in Cell
<1>1. /\ c.fn \in {"read", "write", "erase", "sync", "erasechip"}
      /\ c.addr \in Nat /\ c.len \in Nat /\ c.addr + c.len <= TotalSize
      /\ c.fn = "erasechip" => c.addr = 0 /\ c.len = TotalSize
      /\ c.fn = "write" => c.data \in [0 .. (c.len \div PageSize) - 1 -> Cell]
  BY CacheCallsAssumption
<1>2. IF c.fn = "erase" THEN Divides(EraseSize, c.addr) /\ Divides(EraseSize, c.len)
      ELSE Divides(PageSize, c.addr) /\ Divides(PageSize, c.len)
  BY DEF Misaligned, Unit, Divides
<1>3. Divides(PageSize, c.addr) /\ Divides(PageSize, c.len)
  <2>1. CASE c.fn = "erase"
    BY <1>1, <1>2, <2>1, Sizes, MultipleTrans
  <2>2. CASE c.fn # "erase"
    BY <1>2, <2>2
  <2>. QED BY <2>1, <2>2
<1>4. c.fn \in {"erase", "erasechip"} => Divides(SecSize, c.addr) /\ Divides(SecSize, c.len)
  <2>1. CASE c.fn = "erase"
    BY <1>1, <1>2, <2>1, Sizes, MultipleTrans
  <2>2. CASE c.fn = "erasechip"
    BY <1>1, <2>2, Sizes, DividesSelf
  <2>. QED BY <2>1, <2>2
<1>5. /\ c.addr \div PageSize \in Nat /\ c.len \div PageSize \in Nat
      /\ PagesOf(c.addr, c.len)
           = c.addr \div PageSize .. c.addr \div PageSize + (c.len \div PageSize) - 1
  BY <1>1, <1>3, PageSpan
<1>6. PagesOf(c.addr, c.len) \subseteq Page
  BY PagesOfIs
<1>7. ASSUME NEW p \in PagesOf(c.addr, c.len)
      PROVE  p - (c.addr \div PageSize) \in 0 .. (c.len \div PageSize) - 1
  <2>. DEFINE f == c.addr \div PageSize
              k == c.len \div PageSize
  <2>1. f \in Nat /\ k \in Nat /\ p \in f .. f + k - 1
    BY <1>5
  <2>. HIDE DEF f, k
  <2>2. p - f \in 0 .. k - 1
    BY <2>1
  <2>. QED BY <2>2 DEF f, k
<1>8. c.fn = "write" => \A p \in PagesOf(c.addr, c.len) :
        c.data[p - (c.addr \div PageSize)] \in Cell
  BY <1>1, <1>7
<1>. QED BY <1>1, <1>2, <1>3, <1>4, <1>6, <1>7, <1>8

\* The marks lie in a window of the flash; the cache has a set of bits for each page.
LEMMA MarksIs ==
  ASSUME TypeOK
  PROVE  /\ dirty # {} \/ wiped # {} =>
              win \in Nat /\ Divides(CacheSize, win) /\ win < TotalSize
         /\ DirtyPages \subseteq Page /\ WipedPages \subseteq Page
         /\ \A i \in dirty : PageAt(i) \in DirtyPages /\ PageAt(i) - (win \div PageSize) = i
         /\ \A p \in DirtyPages :
              p - (win \div PageSize) \in dirty /\ PageAt(p - (win \div PageSize)) = p
         /\ \A p \in Page : Cached(p) \in Cell
<1>1. dirty # {} \/ wiped # {} => win \in Nat /\ Divides(CacheSize, win) /\ win < TotalSize
  <2>. SUFFICES ASSUME dirty # {} \/ wiped # {}
                PROVE  win \in Nat /\ Divides(CacheSize, win) /\ win < TotalSize
    OBVIOUS
  <2>1. win # INVALID_CACHE_ADDR /\ win # TotalSize
    BY DEF TypeOK
  <2>2. win \in 0 .. TotalSize /\ win % CacheSize = 0
    BY <2>1 DEF TypeOK
  <2>. QED BY <2>1, <2>2, Sizes DEF Divides
<1>2. \A i \in dirty : PageAt(i) \in DirtyPages /\ PageAt(i) - (win \div PageSize) = i
                     /\ PageAt(i) \in Page
  <2>. SUFFICES ASSUME NEW i \in dirty
                PROVE  PageAt(i) \in DirtyPages /\ PageAt(i) - (win \div PageSize) = i
                       /\ PageAt(i) \in Page
    OBVIOUS
  <2>. DEFINE f == win \div PageSize
  <2>1. f \in Nat /\ Slot(win, i) \in Page
    BY <1>1, WindowIs DEF TypeOK
  <2>2. i \in Int
    BY Counts DEF TypeOK
  <2>3. PageAt(i) = Slot(win, i) /\ PageAt(i) = f + i
    BY DEF PageAt, Slot
  <2>. HIDE DEF f
  <2>4. PageAt(i) - f = i
    BY <2>1, <2>2, <2>3
  <2>. QED BY <2>1, <2>3, <2>4 DEF f, DirtyPages
<1>3. \A p \in DirtyPages :
        p - (win \div PageSize) \in dirty /\ PageAt(p - (win \div PageSize)) = p
  BY <1>2 DEF DirtyPages
<1>4. DirtyPages \subseteq Page
  BY <1>2 DEF DirtyPages
<1>5. WipedPages \subseteq Page
  BY PagesOfIs DEF WipedPages, BlockPages
<1>6. \A p \in Page : Cached(p) \in Cell
  BY <1>3 DEF Cached, TypeOK, Cell, Erased
<1>. QED BY <1>1, <1>2, <1>3, <1>4, <1>5, <1>6

\* One turn of nor_erase's loop erases the first pages of what is left.
LEMMA EraseIs ==
  ASSUME TypeOK, Flow, Loops, Erasing
  PROVE  /\ addr \in Nat /\ len \in Nat \ {0} /\ addr + len <= TotalSize
         /\ EraseUnit \in Nat \ {0} /\ EraseUnit <= len
         /\ Divides(SecSize, addr + EraseUnit) /\ Divides(SecSize, len - EraseUnit)
         /\ ErasedPages = PagesOf(addr, EraseUnit)
         /\ PagesOf(addr, len) = ErasedPages \cup PagesOf(addr + EraseUnit, len - EraseUnit)
         /\ ErasedPages \cap PagesOf(addr + EraseUnit, len - EraseUnit) = {}
         /\ ErasedPages \subseteq Page
<1>1. addr \in Nat /\ len \in Nat \ {0}
  BY DEF TypeOK, Erasing
<1>2. Divides(SecSize, addr) /\ Divides(SecSize, len) /\ addr + len <= TotalSize
  <2>1. CASE pc = "flusherase"
    BY <2>1 DEF Loops, Divides
  <2>2. CASE pc = "direct"
    BY <2>2, CallIs DEF Loops, Divides, Erasing, Flow
  <2>. QED BY <2>1, <2>2 DEF Erasing
<1>. DEFINE u == EraseUnitFor(addr, len)
<1>3. /\ u \in Nat \ {0} /\ u <= len /\ Divides(SecSize, u)
      /\ ~(addr = 0 /\ len = TotalSize) => addr .. addr + u - 1 \subseteq Unlocked(addr, u)
  BY <1>1, <1>2, EraseUnitFits
<1>4. EraseUnit = u
  BY EraseUnitIs
<1>. HIDE DEF u
<1>5. Divides(SecSize, addr + u) /\ Divides(SecSize, len - u)
  BY <1>1, <1>2, <1>3, Sizes, DividesSum
<1>6. ErasedPages = PagesOf(addr, u)
  <2>1. \A p \in PagesOf(addr, u) : At(p) \in addr .. addr + u - 1 /\ p \in Page
    BY <1>1, <1>3, PagesOfIs, PageAddr
  <2>2. CASE WholeChip
    <3>1. \A p \in PagesOf(addr, u) : At(p) \in 0 .. TotalSize - 1
      BY <1>1, <1>2, <1>3, <2>1, Sizes
    <3>. QED BY <1>4, <2>2, <3>1 DEF ErasedPages, Opened, Open, At
  <2>3. CASE ~WholeChip
    BY <1>3, <1>4, <2>1, <2>3 DEF ErasedPages, Opened, Open, At, WholeChip
  <2>. QED BY <2>2, <2>3
<1>7. /\ PagesOf(addr, len) = PagesOf(addr, u) \cup PagesOf(addr + u, len - u)
      /\ PagesOf(addr, u) \cap PagesOf(addr + u, len - u) = {}
  BY <1>1, <1>3, PagesOfParts
<1>8. PagesOf(addr, u) \subseteq Page
  BY PagesOfIs
<1>. QED BY <1>1, <1>2, <1>3, <1>4, <1>5, <1>6, <1>7, <1>8

\* The next page of the flush's walk, if one is pending.
LEMMA NextStepIs ==
  ASSUME TypeOK, Pending # {}
  PROVE  /\ NextStep \in step .. PageCnt - 1 /\ NextStep \in Nat
         /\ Walk(NextStep) \in dirty
         /\ \A k \in step .. PageCnt - 1 : Walk(k) \in dirty => NextStep <= k
<1>1. Pending \in SUBSET Nat
  BY Counts DEF Pending, TypeOK
<1>2. \E i \in Pending : \A j \in Pending : i <= j
  BY <1>1, LeastOf
<1>3. NextStep \in Pending /\ \A j \in Pending : NextStep <= j
  BY <1>2 DEF NextStep
<1>. QED BY <1>1, <1>3 DEF Pending

\* A page that is programmed lies in the window and is marked, or is the first of what
\* is left of a direct write; it is never locked.
LEMMA ProgramIs ==
  ASSUME TypeOK, Flow, Loops, Programming
  PROVE  /\ Program.page \in Page /\ Reaches
         /\ pc = "flushwrite" =>
              /\ Pending # {} /\ Walk(NextStep) \in dirty
              /\ Program.page = PageAt(Walk(NextStep)) /\ Program.data = buf[Walk(NextStep)]
         /\ pc # "flushwrite" =>
              /\ pc = "direct" /\ call.fn = "write" /\ len \in Nat \ {0} /\ PageSize <= len
              /\ Divides(PageSize, addr + PageSize) /\ Divides(PageSize, len - PageSize)
              /\ Program.page \in Range /\ Program.data = Data(Program.page)
              /\ PagesOf(addr, len) = {Program.page} \cup PagesOf(addr + PageSize, len - PageSize)
              /\ Program.page \notin PagesOf(addr + PageSize, len - PageSize)
<1>1. CASE pc = "flushwrite"
  <2>1. Pending # {}
    BY <1>1 DEF Programming
  <2>2. Walk(NextStep) \in dirty
    BY <2>1, NextStepIs
  <2>3. /\ Program.page = PageAt(Walk(NextStep)) /\ Program.data = buf[Walk(NextStep)]
        /\ Program.len = PageSize
    BY <1>1 DEF Program
  <2>4. Program.page \in Page
    BY <2>2, <2>3, MarksIs
  <2>5. Program.page * PageSize \in Nat
    BY <2>4, PageAddr DEF At
  <2>6. Program.page * PageSize \in Unlocked(Program.page * PageSize, Program.len)
    BY <2>3, <2>5, Sizes, UnlocksFirst
  <2>7. Reaches
    BY <2>6 DEF Reaches, Writable, Open
  <2>. QED BY <1>1, <2>1, <2>2, <2>3, <2>4, <2>7
<1>2. CASE pc # "flushwrite"
  <2>1. pc = "direct" /\ call.fn = "write" /\ len > 0
    BY <1>2 DEF Programming
  <2>2. addr \in Nat /\ len \in Nat \ {0}
    BY <2>1 DEF TypeOK
  <2>3. /\ Divides(PageSize, addr) /\ Divides(PageSize, len)
        /\ call.addr <= addr /\ addr + len = call.addr + call.len
    BY <2>1 DEF Loops, Divides
  <2>4. /\ call.addr \in Nat /\ call.len \in Nat /\ Divides(PageSize, call.addr)
        /\ call.addr + call.len <= TotalSize
    BY <2>1, CallIs DEF Flow
  <2>. DEFINE g == addr \div PageSize
  <2>5. g \in Int /\ At(g) = addr
    BY <2>2, <2>3, AtDiv
  <2>6. PageSize <= len
    BY <2>2, <2>3, Sizes, DividesSelf, MultipleGap
  <2>7. g - (call.addr \div PageSize) = (addr - call.addr) \div PageSize
    BY <2>2, <2>3, <2>4, DivDiff
  <2>8. Program.page = g /\ Program.data = Data(g) /\ Program.len = len
    BY <1>2, <2>7 DEF Program, Data
  <2>. HIDE DEF g
  <2>9. g \in Page
    <3>1. 0 <= addr /\ addr < TotalSize
      BY <2>2, <2>3, <2>4, Sizes
    <3>. QED BY <2>5, <3>1, PageIs
  <2>10. g \in Range
    BY <2>2, <2>3, <2>4, <2>5, <2>9, PagesOfIs DEF Range
  <2>11. Divides(PageSize, addr + PageSize) /\ Divides(PageSize, len - PageSize)
    BY <2>2, <2>3, Sizes, DividesSelf, DividesSum
  <2>12. PagesOf(addr, PageSize) = {g}
    <3>1. ASSUME NEW p \in Page, addr <= At(p), At(p) < addr + PageSize PROVE p = g
      <4>1. p \in Int /\ At(p) \in Int
        BY PageAddr
      <4>2. ~(p < g) /\ ~(g < p)
        BY <2>5, <3>1, <4>1, AtOrder, Sizes
      <4>. QED BY <2>5, <4>1, <4>2
    <3>2. addr <= At(g) /\ At(g) < addr + PageSize
      BY <2>2, <2>5, Sizes
    <3>. QED BY <2>9, <3>1, <3>2, PagesOfIs
  <2>13. /\ PagesOf(addr, len) = {g} \cup PagesOf(addr + PageSize, len - PageSize)
         /\ g \notin PagesOf(addr + PageSize, len - PageSize)
    <3>1. /\ PagesOf(addr, len) = PagesOf(addr, PageSize) \cup PagesOf(addr + PageSize, len - PageSize)
          /\ PagesOf(addr, PageSize) \cap PagesOf(addr + PageSize, len - PageSize) = {}
      BY <2>2, <2>6, Sizes, PagesOfParts
    <3>. QED BY <2>12, <3>1
  <2>14. Reaches
    <3>1. g * PageSize = addr
      BY <2>5 DEF At
    <3>2. addr \in Unlocked(addr, len)
      BY <2>2, UnlocksFirst
    <3>. QED BY <2>8, <3>1, <3>2 DEF Reaches, Writable, Open
  <2>. QED BY <1>2, <2>1, <2>2, <2>6, <2>8, <2>9, <2>10, <2>11, <2>13, <2>14
<1>. QED BY <1>1, <1>2

\* A write or an erase that is served lies in its window, and so do the marks it makes.
LEMMA ServeIs ==
  ASSUME TypeOK, Flow, pc = "serve", call.fn \in {"write", "erase"}
  PROVE  /\ Window \in 0 .. TotalSize /\ Divides(CacheSize, Window)
         /\ Window = TotalSize => Range = {}
         /\ Range \subseteq Page
         /\ \A p \in Range : p - (Window \div PageSize) \in 0 .. PageCnt - 1
         /\ Window \div PageSize \in Nat
         /\ call.len > 0 => LastPage \in Range
         /\ call.len = 0 => Range = {}
         /\ win \in {Window, INVALID_CACHE_ADDR}
<1>1. /\ call.addr \in Nat /\ call.len \in Nat /\ call.addr + call.len <= TotalSize
      /\ Divides(PageSize, call.addr) /\ Divides(PageSize, call.len)
      /\ Range \subseteq Page
  BY CallIs DEF Flow, Range
<1>2. /\ Window \in Nat /\ Divides(CacheSize, Window)
      /\ Window <= call.addr /\ call.addr < Window + CacheSize
  BY <1>1, Sizes, AlignBounds DEF Window
<1>3. call.addr + call.len <= Window + CacheSize
  <2>1. (call.addr % CacheSize) + call.len <= CacheSize
    <3>1. (call.addr % CacheSize) \in Int
      BY <1>1, Sizes
    <3>. QED BY <1>1, <3>1, Sizes DEF Flow, Straddles
  <2>2. Window = call.addr - (call.addr % CacheSize) /\ call.addr % CacheSize \in Int
    BY <1>1, Sizes DEF Window, AlignDown
  <2>. QED BY <1>1, <2>1, <2>2, Sizes
<1>4. Window \in 0 .. TotalSize /\ (Window = TotalSize => call.len = 0)
  BY <1>1, <1>2, Sizes
<1>5. call.len = 0 => Range = {}
  BY <1>1, NoPages DEF Range
<1>6. Window \div PageSize \in Nat
  <2>1. Divides(PageSize, Window)
    BY <1>2, Sizes, MultipleTrans
  <2>2. Window \div PageSize \in Int /\ At(Window \div PageSize) = Window
    BY <1>2, <2>1, AtDiv
  <2>. QED BY <1>2, <2>2, AtOrder, AtZero
<1>7. ASSUME NEW p \in Range PROVE p - (Window \div PageSize) \in 0 .. PageCnt - 1
  <2>1. Window < TotalSize
    <3>1. Window # TotalSize
      BY <1>4, <1>5, <1>7
    <3>. QED BY <1>4, <3>1, Sizes
  <2>2. p \in Page /\ At(p) \in Nat /\ Window <= At(p) /\ At(p) < Window + CacheSize
    BY <1>1, <1>2, <1>3, PagesOfIs, PageAddr, Sizes DEF Range
  <2>. QED BY <1>2, <2>1, <2>2, WindowIs
<1>8. call.len > 0 => LastPage \in Range
  <2>. DEFINE f == call.addr \div PageSize
              k == call.len \div PageSize
  <2>1. f \in Nat /\ k \in Nat /\ Range = f .. f + k - 1 /\ LastPage = f + k - 1
    BY <1>1, PageSpan DEF Range, LastPage
  <2>2. k = 0 => call.len = 0
    BY <1>1, AtDiv, AtZero
  <2>. HIDE DEF f, k
  <2>. QED BY <1>1, <2>1, <2>2
<1>9. win \in {Window, INVALID_CACHE_ADDR}
  BY DEF Flow
<1>10. \A p \in Range : p - (Window \div PageSize) \in 0 .. PageCnt - 1
  BY <1>7
<1>11. Window = TotalSize => Range = {}
  BY <1>4, <1>5
<1>. QED BY <1>1, <1>2, <1>4, <1>5, <1>6, <1>8, <1>9, <1>10, <1>11

-----------------------------------------------------------------------------
(* The invariant holds at first.                                           *)

LEMMA InvInit == Init => Inv
<1>. SUFFICES ASSUME Init PROVE Inv
  OBVIOUS
<1>1. mem \in [Page -> Cell]
  BY CacheAssumption DEF Init
<1>2. TypeOK
  <2>1. 0 \in 0 .. PageCnt /\ 0 \in 0 .. PageCnt - 1 /\ 0 \in 0 .. TotalSize /\ 0 \in Page
    BY Counts, Sizes, PageIs
  <2>2. buf \in [0 .. PageCnt - 1 -> Cell]
    BY DEF Init, Cell, Erased
  <2>3. calls \in 0 .. MaxCalls /\ faults \in 0 .. MaxFaults
    BY CacheAssumption DEF Init
  <2>. QED BY <1>1, <2>1, <2>2, <2>3 DEF Init, TypeOK
<1>3. Flow /\ Asked /\ Loops
  BY DEF Init, Flow, Asked, Loops, Flushing
<1>4. DirtyPages = {} /\ WipedPages = {}
  BY DEF Init, DirtyPages, WipedPages
<1>5. Kept
  BY <1>4 DEF Init, Kept, Sure, Cached, Flushing
<1>6. Marks
  BY <1>4 DEF Init, Marks
<1>. QED BY <1>2, <1>3, <1>5, <1>6 DEF Inv

-----------------------------------------------------------------------------
(* The types.                                                              *)

LEMMA FailsType ==
  ASSUME TypeOK, Flow, Fails
  PROVE  /\ pc' \in {"idle", "flusherase", "flushwrite", "direct", "serve"}
         /\ addr' \in 0 .. TotalSize /\ len' \in 0 .. TotalSize
         /\ result' \in {"none", "ok", "EINVAL", "EBUSY", "EIO"}
         /\ faults' \in 0 .. MaxFaults
         /\ UNCHANGED <<call, step, rbuf, history, calls>>
<1>1. faults' \in 0 .. MaxFaults
  BY CacheAssumption DEF TypeOK, Fails
<1>2. call.fn = "erasechip" /\ pc # "direct" /\ pc # "idle" =>
        call.addr \in 0 .. TotalSize /\ call.len \in 0 .. TotalSize
  BY CallIs, Sizes DEF Flow
<1>3. call.fn = "erasechip" => call.addr \in 0 .. TotalSize /\ call.len \in 0 .. TotalSize
  BY CacheCallsAssumption, Sizes DEF TypeOK, NoCall
<1>. QED BY <1>1, <1>3 DEF TypeOK, Fails, Enter

\* TypeOK in three parts: a step that leaves the cache alone need not look into it, and
\* only the operations of the chip change what is locked or spared.
CacheOK ==
  /\ win = INVALID_CACHE_ADDR \/ (win \in 0 .. TotalSize /\ win % CacheSize = 0)
  /\ win \in {INVALID_CACHE_ADDR, TotalSize} => dirty = {} /\ wiped = {}
  /\ buf \in [0 .. PageCnt - 1 -> Cell]
  /\ dirty \subseteq 0 .. PageCnt - 1 /\ wiped \subseteq 0 .. BlkCnt - 1
  /\ lastWrite \in 0 .. PageCnt - 1

RunOK ==
  /\ mem \in [Page -> Cell] /\ view \in [Page -> Cell]
  /\ pc \in {"idle", "flusherase", "flushwrite", "direct", "serve"}
  /\ call \in Calls \cup {NoCall}
  /\ step \in 0 .. PageCnt /\ addr \in 0 .. TotalSize /\ len \in 0 .. TotalSize
  /\ result \in {"none", "ok", "EINVAL", "EBUSY", "EIO"}
  /\ {known, fresh, cleared} \subseteq SUBSET Page /\ meta \in Page
  /\ calls \in 0 .. MaxCalls /\ faults \in 0 .. MaxFaults

LockOK == locked \subseteq Page /\ spared \subseteq Page

LEMMA TypeParts == TypeOK <=> CacheOK /\ RunOK /\ LockOK
BY DEF TypeOK, CacheOK, RunOK, LockOK

LEMMA LockStep == LockOK /\ Flow /\ [Next]_vars => LockOK'
<1>. SUFFICES ASSUME LockOK, Flow, [Next]_vars PROVE LockOK'
  OBVIOUS
<1>1. CASE UNCHANGED <<locked, spared>>
  BY <1>1 DEF LockOK
<1>2. ASSUME NEW c \in Calls, Begin(c) PROVE LockOK'
  BY <1>2 DEF Begin, LockOK
<1>3. CASE Erase
  BY <1>3 DEF Erase, Relocks, StillLocked, LockOK, history
<1>4. CASE EraseIgnored
  BY <1>4 DEF EraseIgnored, LockOK
<1>5. CASE EraseFails
  BY <1>5 DEF EraseFails, Fails, StillLocked, LockOK, history
<1>6. CASE Write
  BY <1>6 DEF Write, LockOK, history
<1>7. CASE WriteFails
  BY <1>7 DEF WriteFails, Fails, StillLocked, LockOK, history
<1>8. CASE ReadFails
  BY <1>1, <1>8 DEF ReadFails, Fails, history
<1>9. CASE DirectDone
  <2>1. call.fn \in {"write", "erase", "erasechip"}
    BY <1>9, CallIs DEF DirectDone, Flow
  <2>. QED BY <1>1, <1>9, <2>1 DEF DirectDone, Written, Cleared
<1>10. CASE ServeWrite \/ ServeErase
  BY <1>1, <1>10 DEF ServeWrite, ServeErase, Written, Cleared
<1>11. CASE \/ UNCHANGED vars \/ PickRun \/ ErasesFlushed \/ WritesFlushed
            \/ ServeRead \/ ServeSync \/ DirectRead \/ \E c \in Calls : Refuse(c)
  BY <1>1, <1>11 DEF vars, history, PickRun, ErasesFlushed, WritesFlushed, ServeRead,
     ServeSync, DirectRead, Refuse
<1>. QED BY <1>2, <1>3, <1>4, <1>5, <1>6, <1>7, <1>8, <1>9, <1>10, <1>11 DEF Next

LEMMA CacheKept == CacheOK /\ UNCHANGED cache => CacheOK'
<1>. SUFFICES ASSUME CacheOK, UNCHANGED cache PROVE CacheOK'
  OBVIOUS
<1>1. /\ win' = win /\ buf' = buf /\ dirty' = dirty /\ wiped' = wiped
      /\ lastWrite' = lastWrite
  BY DEF cache
<1>. QED BY <1>1 DEF CacheOK, INVALID_CACHE_ADDR

LEMMA TypeStep == TypeOK /\ Flow /\ Loops /\ [Next]_vars => TypeOK'
<1>. SUFFICES ASSUME TypeOK, CacheOK, RunOK, Flow, Loops, [Next]_vars PROVE CacheOK' /\ RunOK'
  <2>1. (CacheOK' /\ RunOK') /\ LockOK' => TypeOK'
    BY TypeParts, PTL
  <2>. QED BY <2>1, TypeParts, LockStep
<1>1. CASE UNCHANGED vars
  <2>1. CacheOK'
    BY <1>1, CacheKept DEF vars
  <2>. QED BY <1>1, <2>1 DEF vars, job, answer, history, RunOK
<1>2. ASSUME NEW c \in Calls, Refuse(c) PROVE CacheOK' /\ RunOK'
  <2>1. calls' \in 0 .. MaxCalls
    BY <1>2, CacheAssumption DEF Refuse, RunOK
  <2>0. CacheOK'
    BY <1>2, CacheKept DEF Refuse
  <2>. QED BY <1>2, <2>0, <2>1 DEF Refuse, job, history, RunOK
<1>3. ASSUME NEW c \in Calls, Begin(c) PROVE CacheOK' /\ RunOK'
  <2>1. calls' \in 0 .. MaxCalls
    BY <1>3, CacheAssumption DEF Begin, RunOK
  <2>2. c.addr \in 0 .. TotalSize /\ c.len \in 0 .. TotalSize
    BY <1>3, CallIs, Sizes DEF Begin
  <2>3. 0 \in 0 .. TotalSize /\ 0 \in 0 .. PageCnt
    BY Sizes, Counts
  <2>4. /\ pc' \in {"flusherase", "direct", "serve"}
        /\ addr' \in 0 .. TotalSize /\ len' \in 0 .. TotalSize
    BY <1>3, <2>2, <2>3 DEF Begin, AfterFlush, Enter, RunOK
  <2>5. known' \subseteq Page
    BY <1>3 DEF Begin, TypeOK
  <2>0. CacheOK'
    BY <1>3, CacheKept DEF Begin
  <2>. QED BY <1>3, <2>0, <2>1, <2>3, <2>4, <2>5 DEF Begin, answer, RunOK
<1>4. CASE Erase
  <2>1. addr' \in 0 .. TotalSize /\ len' \in 0 .. TotalSize
    BY <1>4, EraseIs, Sizes DEF Erase
  <2>2. mem' \in [Page -> Cell]
    BY <1>4 DEF Erase, RunOK, Cell, Erased
  <2>3. faults' \in 0 .. MaxFaults
    BY <1>4, CacheAssumption DEF Erase, Relocks, RunOK
  <2>0. CacheOK'
    BY <1>4, CacheKept DEF Erase
  <2>. QED BY <1>4, <2>0, <2>1, <2>2, <2>3 DEF Erase, answer, history, RunOK
<1>5. CASE EraseFails
  <2>1. mem' \in [Page -> Cell]
    BY <1>5 DEF EraseFails, RunOK, Cell, Erased
  <2>0. CacheOK'
    BY <1>5, CacheKept DEF EraseFails
  <2>. QED BY <1>5, <2>0, <2>1, FailsType
       DEF EraseFails, history, RunOK
<1>6. CASE Write
  <2>1. mem' \in [Page -> Cell]
    BY <1>6 DEF Write, RunOK, Cell
  <2>2. step' \in 0 .. PageCnt /\ addr' \in 0 .. TotalSize /\ len' \in 0 .. TotalSize
    <3>1. CASE pc = "flushwrite"
      <4>1. NextStep \in step .. PageCnt - 1
        BY <1>6, <3>1, ProgramIs, NextStepIs DEF Write
      <4>. QED BY <1>6, <3>1, <4>1, Counts DEF Write, RunOK
    <3>2. CASE pc # "flushwrite"
      <4>1. PageSize <= len /\ pc = "direct" /\ call.fn = "write"
        BY <1>6, <3>2, ProgramIs DEF Write
      <4>2. addr + len <= TotalSize
        BY <4>1, CallIs DEF Loops, Flow
      <4>. QED BY <1>6, <3>2, <4>1, <4>2, Sizes DEF Write, RunOK
    <3>. QED BY <3>1, <3>2
  <2>0. CacheOK'
    BY <1>6, CacheKept DEF Write
  <2>. QED BY <1>6, <2>0, <2>1, <2>2 DEF Write, answer, history, RunOK
<1>7. CASE WriteFails
  <2>1. mem' \in [Page -> Cell]
    <3>1. mem[Program.page] \in Cell
      BY <1>7, ProgramIs DEF WriteFails, RunOK
    <3>. QED BY <1>7, <3>1 DEF WriteFails, RunOK, Cell
  <2>0. CacheOK'
    BY <1>7, CacheKept DEF WriteFails
  <2>. QED BY <1>7, <2>0, <2>1, FailsType
       DEF WriteFails, history, RunOK
<1>8. CASE PickRun
  <2>1. PICK first, last \in step .. BlkCnt - 1 :
          /\ first <= last /\ first \in wiped
          /\ addr' = win + first * EraseSize /\ len' = (last - first + 1) * EraseSize
          /\ step' = last + 1
    BY <1>8 DEF PickRun, TypeOK
  <2>2. win \in Nat /\ Divides(CacheSize, win) /\ win < TotalSize
    BY <2>1, MarksIs
  <2>3. win + CacheSize <= TotalSize
    BY <2>2, WindowIs
  <2>. DEFINE next == last + 1
  <2>4. first \in Nat /\ next \in Nat /\ first < next /\ next <= BlkCnt /\ last - first + 1 = next - first
    BY <2>1, Counts DEF TypeOK
  <2>5. addr' = win + Off(first) /\ len' = Off(next) - Off(first)
    <3>1. len' = Off(next - first)
      BY <2>1, <2>4 DEF Off
    <3>. QED BY <2>1, <2>4, <3>1, OffSum DEF Off
  <2>6. step' = next
    BY <2>1
  <2>. HIDE DEF next
  <2>7. /\ Off(first) \in Int /\ Off(next) \in Int
        /\ 0 <= Off(first) /\ Off(first) < Off(next) /\ Off(next) <= CacheSize
    BY <2>4, OffOrder, OffEnds, Counts
  <2>8. addr' \in 0 .. TotalSize /\ len' \in 0 .. TotalSize /\ step' \in 0 .. PageCnt
    BY <2>2, <2>3, <2>4, <2>5, <2>6, <2>7, Counts, Sizes
  <2>0. CacheOK'
    BY <1>8, CacheKept DEF PickRun
  <2>. QED BY <1>8, <2>0, <2>8 DEF PickRun, answer, history, RunOK
<1>9. CASE ErasesFlushed
  <2>1. call \in Calls /\ ~Misaligned(call)
    BY <1>9 DEF ErasesFlushed, Flow
  <2>0. call.addr \in 0 .. TotalSize /\ call.len \in 0 .. TotalSize
    BY <2>1, CallIs, Sizes
  <2>2. /\ pc' \in {"flushwrite", "direct", "serve"}
        /\ addr' \in 0 .. TotalSize /\ len' \in 0 .. TotalSize
    BY <1>9, <2>0 DEF ErasesFlushed, AfterFlush, Enter, RunOK
  <2>3. step' \in 0 .. PageCnt
    BY <1>9, Counts DEF ErasesFlushed
  <2>. QED BY <1>9, <2>2, <2>3 DEF ErasesFlushed, answer, history, CacheOK, RunOK, TypeOK, INVALID_CACHE_ADDR
<1>10. CASE WritesFlushed
  <2>1. call \in Calls /\ ~Misaligned(call)
    BY <1>10 DEF WritesFlushed, Flow
  <2>0. call.addr \in 0 .. TotalSize /\ call.len \in 0 .. TotalSize
    BY <2>1, CallIs, Sizes
  <2>2. /\ pc' \in {"direct", "serve"}
        /\ addr' \in 0 .. TotalSize /\ len' \in 0 .. TotalSize
    BY <1>10, <2>0 DEF WritesFlushed, AfterFlush, Enter, RunOK
  <2>3. buf' \in [0 .. PageCnt - 1 -> Cell]
    BY <1>10 DEF WritesFlushed, Cell, Erased
  <2>4. wiped = {}
    BY <1>10 DEF WritesFlushed, Flow
  <2>. QED BY <1>10, <2>2, <2>3, <2>4
       DEF WritesFlushed, answer, history, CacheOK, RunOK, TypeOK, INVALID_CACHE_ADDR
<1>11. CASE ServeWrite
  <2>1. call \in Calls /\ ~Misaligned(call)
    BY <1>11 DEF ServeWrite, Flow
  <2>2. \A p \in Range : Data(p) \in Cell
    BY <1>11, <2>1, CallIs DEF ServeWrite, Range, Data
  <2>3. /\ Window \in 0 .. TotalSize /\ Divides(CacheSize, Window)
        /\ Window = TotalSize => Range = {}
        /\ Range \subseteq Page
        /\ \A p \in Range : p - (Window \div PageSize) \in 0 .. PageCnt - 1
        /\ Window \div PageSize \in Nat
        /\ call.len > 0 => LastPage \in Range
        /\ win \in {Window, INVALID_CACHE_ADDR}
    BY <1>11, ServeIs DEF ServeWrite
  <2>4. view' \in [Page -> Cell] /\ known' \subseteq Page /\ fresh' \subseteq Page
        /\ cleared' \subseteq Page
    BY <1>11, <2>2, <2>3 DEF ServeWrite, Written, TypeOK
  <2>5. meta' \in Page
    BY <1>11, <2>3 DEF ServeWrite, Written, TypeOK
  <2>6. lastWrite' \in 0 .. PageCnt - 1 /\ dirty' \subseteq 0 .. PageCnt - 1
    BY <1>11, <2>3 DEF ServeWrite, TypeOK
  <2>7. buf' \in [0 .. PageCnt - 1 -> Cell]
    <3>. DEFINE f == Window \div PageSize
                S == {p - f : p \in Range}
    <3>1. \A i \in S : f + i \in Range
      <4>. HIDE DEF f
      <4>1. f \in Nat /\ \A p \in Range : p \in Nat
        BY <2>3, PageIs DEF f
      <4>. QED BY <4>1
    <3>2. buf' = [i \in 0 .. PageCnt - 1 |-> IF i \in S THEN Data(f + i) ELSE buf[i]]
      BY <1>11 DEF ServeWrite
    <3>. HIDE DEF f, S
    <3>. QED BY <2>2, <3>1, <3>2 DEF TypeOK
  <2>8. win' \in 0 .. TotalSize /\ win' % CacheSize = 0
    BY <1>11, <2>3 DEF ServeWrite, Divides
  <2>9. win' \in {INVALID_CACHE_ADDR, TotalSize} => dirty' = {} /\ wiped' = {}
    <3>1. Window = INVALID_CACHE_ADDR => Window = TotalSize
      BY <2>3, Sizes, CacheAssumption DEF INVALID_CACHE_ADDR
    <3>2. win' \in {INVALID_CACHE_ADDR, TotalSize} =>
            Range = {} /\ win \in {INVALID_CACHE_ADDR, TotalSize}
      BY <1>11, <2>3, <3>1 DEF ServeWrite
    <3>. QED BY <1>11, <3>2 DEF ServeWrite, TypeOK
  <2>. QED BY <1>11, <2>4, <2>5, <2>6, <2>7, <2>8, <2>9
       DEF ServeWrite, Done, job, CacheOK, RunOK, TypeOK, INVALID_CACHE_ADDR
<1>12. CASE ServeErase
  <2>1. /\ Window \in 0 .. TotalSize /\ Divides(CacheSize, Window)
        /\ Window = TotalSize => Range = {}
        /\ Range \subseteq Page
        /\ win \in {Window, INVALID_CACHE_ADDR}
    BY <1>12, ServeIs DEF ServeErase
  <2>2. view' \in [Page -> Cell] /\ known' \subseteq Page /\ cleared' \subseteq Page
    BY <1>12, <2>1 DEF ServeErase, Cleared, TypeOK, Cell, Erased
  <2>3. wiped' \subseteq 0 .. BlkCnt - 1
    BY <1>12 DEF ServeErase, TypeOK
  <2>4. win' \in 0 .. TotalSize /\ win' % CacheSize = 0
    BY <1>12, <2>1 DEF ServeErase, Divides
  <2>5. win' \in {INVALID_CACHE_ADDR, TotalSize} => dirty' = {} /\ wiped' = {}
    <3>1. Window = INVALID_CACHE_ADDR => Window = TotalSize
      BY <2>1, Sizes, CacheAssumption DEF INVALID_CACHE_ADDR
    <3>2. win' \in {INVALID_CACHE_ADDR, TotalSize} =>
            Range = {} /\ win \in {INVALID_CACHE_ADDR, TotalSize}
      BY <1>12, <2>1, <3>1 DEF ServeErase
    <3>. QED BY <1>12, <3>2 DEF ServeErase, TypeOK
  <2>. QED BY <1>12, <2>2, <2>3, <2>4, <2>5
       DEF ServeErase, Cleared, Done, job, CacheOK, RunOK, TypeOK, INVALID_CACHE_ADDR
<1>13. CASE ServeRead
  BY <1>13 DEF ServeRead, Done, cache, job, history, CacheOK, RunOK, TypeOK, INVALID_CACHE_ADDR
<1>14. CASE ServeSync
  BY <1>14 DEF ServeSync, Done, cache, job, CacheOK, RunOK, TypeOK, INVALID_CACHE_ADDR
<1>15. CASE DirectRead
  BY <1>15 DEF DirectRead, Done, cache, job, history, CacheOK, RunOK, TypeOK, INVALID_CACHE_ADDR
<1>16. CASE ReadFails
  BY <1>16, FailsType DEF ReadFails, cache, history, CacheOK, RunOK, TypeOK, INVALID_CACHE_ADDR
<1>17. CASE DirectDone
  <2>1. call \in Calls /\ ~Misaligned(call) /\ call.fn # "sync" /\ call.fn # "read"
    BY <1>17 DEF DirectDone, Flow
  <2>2. call.fn \in {"write", "erase", "erasechip"}
    BY <2>1, CallIs
  <2>3. Range \subseteq Page
    BY PagesOfIs DEF Range
  <2>4. CASE call.fn = "write"
    <3>1. \A p \in Range : Data(p) \in Cell
      BY <2>1, <2>4, CallIs DEF Range, Data
    <3>2. call.len > 0 => LastPage \in Page
      <4>. DEFINE f == call.addr \div PageSize
                  k == call.len \div PageSize
      <4>1. call.addr \in Nat /\ call.len \in Nat /\ call.addr + call.len <= TotalSize
            /\ Divides(PageSize, call.addr) /\ Divides(PageSize, call.len)
        BY <2>1, CallIs
      <4>2. f \in Nat /\ k \in Nat /\ Range = f .. f + k - 1 /\ LastPage = f + k - 1
        BY <4>1, PageSpan DEF Range, LastPage
      <4>3. k = 0 => call.len = 0
        BY <4>1, AtDiv, AtZero
      <4>. HIDE DEF f, k
      <4>. QED BY <2>3, <4>1, <4>2, <4>3
    <3>3. /\ view' \in [Page -> Cell] /\ known' \subseteq Page /\ fresh' \subseteq Page
          /\ cleared' \subseteq Page /\ meta' \in Page
      BY <1>17, <2>3, <2>4, <3>1, <3>2 DEF DirectDone, Written, TypeOK
    <3>. QED BY <1>17, <3>3 DEF DirectDone, Done, cache, job, CacheOK, RunOK, TypeOK, INVALID_CACHE_ADDR
  <2>5. CASE call.fn = "erase"
    <3>1. /\ view' \in [Page -> Cell] /\ known' \subseteq Page /\ fresh' \subseteq Page
          /\ cleared' \subseteq Page /\ meta' \in Page
      BY <1>17, <2>3, <2>5 DEF DirectDone, Cleared, TypeOK, Cell, Erased
    <3>. QED BY <1>17, <3>1 DEF DirectDone, Done, cache, job, CacheOK, RunOK, TypeOK, INVALID_CACHE_ADDR
  <2>6. CASE call.fn = "erasechip"
    <3>1. /\ view' \in [Page -> Cell] /\ known' \subseteq Page /\ fresh' \subseteq Page
          /\ cleared' \subseteq Page /\ meta' \in Page
      BY <1>17, <2>6, MarksIs DEF DirectDone, TypeOK, Cell, Erased
    <3>. QED BY <1>17, <3>1 DEF DirectDone, Done, cache, job, CacheOK, RunOK, TypeOK, INVALID_CACHE_ADDR
  <2>. QED BY <2>2, <2>4, <2>5, <2>6
<1>18. CASE EraseIgnored
  <2>1. addr' \in 0 .. TotalSize /\ len' \in 0 .. TotalSize
    BY <1>18, EraseIs, Sizes DEF EraseIgnored
  <2>2. faults' \in 0 .. MaxFaults
    BY <1>18, CacheAssumption DEF EraseIgnored, RunOK
  <2>0. CacheOK'
    BY <1>18, CacheKept DEF EraseIgnored
  <2>. QED BY <1>18, <2>0, <2>1, <2>2 DEF EraseIgnored, answer, RunOK
<1>. QED BY <1>1, <1>2, <1>3, <1>4, <1>5, <1>6, <1>7, <1>8, <1>9, <1>10, <1>11, <1>12,
            <1>13, <1>14, <1>15, <1>16, <1>17, <1>18 DEF Next

-----------------------------------------------------------------------------
(* What a label says of the call and of the marks.                         *)

LEMMA SameCall ==
  UNCHANGED call => Range' = Range /\ Window' = Window /\ \A p : Data(p)' = Data(p)
BY DEF Range, Window, Data

LEMMA SameMarks ==
  /\ UNCHANGED <<win, dirty>> => DirtyPages' = DirtyPages /\ \A i : PageAt(i)' = PageAt(i)
  /\ UNCHANGED <<win, wiped>> => WipedPages' = WipedPages /\ \A b : BlockPages(b)' = BlockPages(b)
BY DEF DirtyPages, PageAt, WipedPages, BlockPages

LEMMA NoMarks ==
  /\ dirty = {} => DirtyPages = {}
  /\ wiped = {} => WipedPages = {}
BY DEF DirtyPages, WipedPages

LEMMA BlockPagesIs == \A b : BlockPages(b) = BlockIn(win, b)
BY DEF BlockPages, BlockIn, Off

\* Marked pages lie in the window.
LEMMA MarkedInWindow ==
  ASSUME TypeOK, NEW p \in DirtyPages \cup WipedPages
  PROVE  p \in Page /\ win \in Nat /\ Divides(CacheSize, win)
         /\ win <= At(p) /\ At(p) < win + CacheSize
<1>1. dirty # {} \/ wiped # {}
  BY NoMarks
<1>2. win \in Nat /\ Divides(CacheSize, win) /\ win < TotalSize
  BY <1>1, MarksIs
<1>3. CASE p \in DirtyPages
  <2>1. p \in Page /\ p - (win \div PageSize) \in 0 .. PageCnt - 1
    BY <1>3, MarksIs DEF TypeOK
  <2>. QED BY <1>2, <2>1, WindowIs
<1>4. CASE p \in WipedPages
  <2>1. PICK b \in wiped : p \in BlockIn(win, b)
    BY <1>4, BlockPagesIs DEF WipedPages
  <2>. DEFINE d == b + 1
  <2>2. b \in Nat /\ b < BlkCnt /\ d \in Nat /\ d <= BlkCnt
    BY Counts DEF TypeOK
  <2>3. p \in Page /\ At(p) \in Nat
    BY <2>1, PagesOfIs, PageAddr DEF BlockIn
  <2>4. Off(b) <= At(p) - win /\ At(p) - win < Off(d)
    BY <1>2, <2>1, <2>2, <2>3, BlockInIs
  <2>. HIDE DEF d
  <2>5. Off(0) <= Off(b) /\ Off(d) <= Off(BlkCnt) /\ Off(b) \in Int /\ Off(d) \in Int
    BY <2>2, OffOrder, Counts
  <2>. QED BY <1>2, <2>3, <2>4, <2>5, OffEnds, Sizes
<1>. QED BY <1>3, <1>4

\* A read that stays in a window but is no hit has no marked pages.
LEMMA NoHitNoMarks ==
  ASSUME TypeOK, NEW c \in Calls, ~Misaligned(c), ~Straddles(c), ~Hit(c)
  PROVE  PagesOf(c.addr, c.len) \cap (DirtyPages \cup WipedPages) = {}
<1>. SUFFICES ASSUME NEW p \in PagesOf(c.addr, c.len), p \in DirtyPages \cup WipedPages
              PROVE  FALSE
  OBVIOUS
<1>1. p \in Page /\ win \in Nat /\ Divides(CacheSize, win)
      /\ win <= At(p) /\ At(p) < win + CacheSize /\ At(p) \in Nat
  BY MarkedInWindow, PageAddr
<1>2. c.addr \in Nat /\ c.len \in Nat /\ c.addr + c.len <= TotalSize
  BY CallIs
<1>3. c.addr <= At(p) /\ At(p) < c.addr + c.len
  BY PagesOfIs
<1>. DEFINE w == AlignDown(c.addr, CacheSize)
<1>4. w \in Nat /\ Divides(CacheSize, w) /\ w <= c.addr
  BY <1>2, Sizes, AlignBounds
<1>5. c.addr + c.len <= w + CacheSize
  <2>1. c.addr % CacheSize \in Int /\ w = c.addr - (c.addr % CacheSize)
    BY <1>2, Sizes DEF AlignDown
  <2>2. (c.addr % CacheSize) + c.len <= CacheSize
    BY <1>2, <2>1, Sizes DEF Straddles
  <2>. HIDE DEF w
  <2>. QED BY <1>2, <2>1, <2>2, Sizes
<1>. HIDE DEF w
<1>6. w = win
  <2>1. w <= At(p) /\ At(p) < w + CacheSize
    BY <1>1, <1>2, <1>3, <1>4, <1>5, Sizes
  <2>2. ~(w < win) /\ ~(win < w)
    BY <1>1, <1>4, <2>1, Sizes, MultipleGap
  <2>. QED BY <1>1, <1>4, <2>2
<1>. DEFINE e == c.addr + c.len - 1
<1>7. e \in Nat /\ w <= e /\ e < w + CacheSize
  BY <1>1, <1>2, <1>3, <1>4, <1>5, Sizes
<1>8. (c.addr + c.len + WordSize - 1) % WordSize = e
  <2>1. e \in 0 .. WordSize - 1
    BY <1>2, <1>7, Sizes, CacheAssumption
  <2>2. c.addr + c.len + WordSize - 1 = WordSize * 1 + e
    BY <1>2, Sizes
  <2>. HIDE DEF e
  <2>3. \A q \in Int : (WordSize * q + e) % WordSize = e
    BY <2>1, Sizes, DivModUnique
  <2>. QED BY <2>2, <2>3
<1>. HIDE DEF e
<1>9. AlignDown(e, CacheSize) = w
  <2>1. CacheSize \in Nat \ {0} /\ w \in Int
    BY <1>4, Sizes
  <2>. QED BY ONLY <1>4, <1>7, <2>1, AligningDown
<1>10. win # INVALID_CACHE_ADDR
  BY MarksIs, NoMarks DEF TypeOK
<1>. QED BY <1>6, <1>8, <1>9, <1>10 DEF Hit, w

LEMMA FailsFlow ==
  ASSUME Fails, pc # "idle"
  PROVE  \/ pc' = "idle"
         \/ pc' = "direct" /\ call.fn = "erasechip" /\ addr' = call.addr /\ len' = call.len
BY DEF Fails, Enter

LEMMA FlowStep == TypeOK /\ Flow /\ [Next]_vars => Flow'
<1>. SUFFICES ASSUME TypeOK, Flow, [Next]_vars PROVE Flow'
  OBVIOUS
<1>. USE SameCall, SameMarks, NoMarks
<1>1. CASE UNCHANGED vars
  BY <1>1 DEF vars, cache, job, answer, history, Flow, INVALID_CACHE_ADDR
<1>2. ASSUME NEW c \in Calls, Refuse(c) PROVE Flow'
  BY <1>2 DEF Refuse, cache, job, history, Flow, Flushing
<1>3. ASSUME NEW c \in Calls, Begin(c) PROVE Flow'
  <2>1. call' = c /\ ~Misaligned(c) /\ UNCHANGED <<win, dirty, wiped>>
        /\ Range' = PagesOf(c.addr, c.len) /\ Window' = AlignDown(c.addr, CacheSize)
    BY <1>3 DEF Begin, cache, Range, Window
  <2>2. c.fn \in {"read", "write", "erase", "sync", "erasechip"}
    BY <2>1, CallIs
  <2>3. win = INVALID_CACHE_ADDR => dirty = {} /\ wiped = {}
    BY DEF TypeOK
  <2>4. CASE NeedsFlush(c) /\ ~NothingToFlush(c)
    <3>1. pc' = "flusherase"
      BY <1>3, <2>4 DEF Begin
    <3>2. c.fn = "read" => Straddles(c)
      BY <2>4 DEF NeedsFlush, Bypasses
    <3>. QED BY <2>1, <3>1, <3>2 DEF Flow, Flushing
  <2>5. CASE NeedsFlush(c) /\ NothingToFlush(c)
    <3>1. pc' = IF Bypasses(c) THEN "direct" ELSE "serve"
      BY <1>3, <2>5 DEF Begin, AfterFlush, Enter
    <3>2. win = INVALID_CACHE_ADDR /\ dirty' = {} /\ wiped' = {} /\ win' = INVALID_CACHE_ADDR
      BY <2>1, <2>3, <2>5 DEF NothingToFlush
    <3>3. DirtyPages' = {} /\ WipedPages' = {}
      BY <2>1, <2>3, <3>2
    <3>. QED BY <2>1, <2>2, <3>1, <3>2, <3>3 DEF Flow, Flushing, Bypasses, INVALID_CACHE_ADDR
  <2>6. CASE c.fn = "read" /\ ~NeedsFlush(c) /\ ~Hit(c)
    <3>1. pc' = "direct"
      BY <1>3, <2>6 DEF Begin, Enter
    <3>2. ~Straddles(c)
      BY <2>6 DEF NeedsFlush, Bypasses
    <3>3. Range' \cap (DirtyPages' \cup WipedPages') = {}
      BY <2>1, <2>6, <3>2, NoHitNoMarks
    <3>. QED BY <2>1, <2>6, <3>1, <3>3 DEF Flow, Flushing
  <2>7. CASE ~NeedsFlush(c) /\ (c.fn # "read" \/ Hit(c))
    <3>1. pc' = "serve"
      BY <1>3, <2>7 DEF Begin, Enter
    <3>2. c.fn # "sync" /\ c.fn # "erasechip" /\ ~Straddles(c)
          /\ (c.fn \in {"write", "erase"} => Hit(c))
      BY <2>2, <2>7 DEF NeedsFlush, Bypasses
    <3>3. Hit(c) => win = AlignDown(c.addr, CacheSize)
      BY DEF Hit
    <3>. QED BY <2>1, <3>1, <3>2, <3>3 DEF Flow, Flushing
  <2>. QED BY <2>4, <2>5, <2>6, <2>7
<1>4. CASE Erase
  BY <1>4 DEF Erase, cache, answer, history, Flow, INVALID_CACHE_ADDR
<1>5. CASE EraseFails
  <2>1. pc # "idle" /\ UNCHANGED <<win, dirty, wiped, call>>
    BY <1>5 DEF EraseFails, Erasing, Fails, cache
  <2>. QED BY <1>5, <2>1, FailsFlow DEF EraseFails, Flow, Flushing, INVALID_CACHE_ADDR
<1>6. CASE Write
  BY <1>6 DEF Write, cache, answer, history, Flow, INVALID_CACHE_ADDR
<1>7. CASE WriteFails
  <2>1. pc # "idle" /\ UNCHANGED <<win, dirty, wiped, call>>
    BY <1>7 DEF WriteFails, Programming, Fails, cache
  <2>. QED BY <1>7, <2>1, FailsFlow DEF WriteFails, Flow, Flushing, INVALID_CACHE_ADDR
<1>8. CASE PickRun
  BY <1>8 DEF PickRun, cache, answer, history, Flow, INVALID_CACHE_ADDR
<1>9. CASE ErasesFlushed
  <2>1. call \in Calls /\ ~Misaligned(call) /\ UNCHANGED <<win, dirty, call>> /\ wiped' = {}
    BY <1>9 DEF ErasesFlushed, Flow
  <2>2. \/ pc' = "direct" /\ call.fn = "erase" /\ Straddles(call)
        \/ pc' = "flushwrite" /\ ~(call.fn = "erase" /\ Straddles(call))
    BY <1>9 DEF ErasesFlushed, AfterFlush, Enter, Bypasses
  <2>3. pc \in Flushing
    BY <1>9 DEF ErasesFlushed, Flushing
  <2>. QED BY <2>1, <2>2, <2>3 DEF Flow, Flushing
<1>10. CASE WritesFlushed
  <2>1. call \in Calls /\ ~Misaligned(call) /\ UNCHANGED call /\ dirty' = {} /\ wiped' = {}
        /\ win' = INVALID_CACHE_ADDR
    BY <1>10 DEF WritesFlushed, Flow
  <2>2. pc' = IF Bypasses(call) THEN "direct" ELSE "serve"
    BY <1>10 DEF WritesFlushed, AfterFlush, Enter
  <2>3. DirtyPages' = {} /\ WipedPages' = {}
    BY <2>1 DEF DirtyPages, WipedPages
  <2>. QED BY <2>1, <2>2, <2>3 DEF Flow, Flushing, Bypasses, INVALID_CACHE_ADDR
<1>11. CASE ServeWrite
  BY <1>11 DEF ServeWrite, Done, Flow, Flushing
<1>12. CASE ServeErase
  BY <1>12 DEF ServeErase, Done, Flow, Flushing
<1>13. CASE ServeRead
  BY <1>13 DEF ServeRead, Done, Flow, Flushing
<1>14. CASE ServeSync
  BY <1>14 DEF ServeSync, Done, Flow, Flushing
<1>15. CASE DirectRead
  BY <1>15 DEF DirectRead, Done, Flow, Flushing
<1>16. CASE ReadFails
  <2>1. pc # "idle" /\ UNCHANGED <<win, dirty, wiped, call>> /\ call.fn = "read"
    BY <1>16 DEF ReadFails, Fails, cache
  <2>2. pc' = "idle"
    BY <1>16, <2>1, FailsFlow DEF ReadFails
  <2>. QED BY <2>2 DEF Flow, Flushing
<1>17. CASE DirectDone
  BY <1>17 DEF DirectDone, Done, Flow, Flushing
<1>18. CASE EraseIgnored
  BY <1>18 DEF EraseIgnored, cache, answer, Flow, INVALID_CACHE_ADDR
<1>. QED BY <1>1, <1>2, <1>3, <1>4, <1>5, <1>6, <1>7, <1>8, <1>9, <1>10, <1>11, <1>12,
            <1>13, <1>14, <1>15, <1>16, <1>17, <1>18 DEF Next

-----------------------------------------------------------------------------
(* The pages of the call.                                                  *)

LEMMA AskedStep == TypeOK /\ Flow /\ Asked /\ [Next]_vars => Asked'
<1>. SUFFICES ASSUME TypeOK, Flow, Asked, [Next]_vars PROVE Asked'
  OBVIOUS
<1>. USE SameCall
<1>0. ASSUME UNCHANGED <<call, view, known, fresh>>, pc # "idle" PROVE Asked'
  BY <1>0 DEF Asked
<1>1. CASE UNCHANGED vars
  BY <1>1 DEF vars, history, Asked
<1>2. ASSUME NEW c \in Calls, Refuse(c) PROVE Asked'
  BY <1>2 DEF Refuse, Asked
<1>3. ASSUME NEW c \in Calls, Begin(c) PROVE Asked'
  <2>1. call' = c /\ Range' = PagesOf(c.addr, c.len) /\ UNCHANGED <<view, fresh>> /\ Allowed(c)
    BY <1>3 DEF Begin, Range
  <2>2. known' = CASE c.fn \in {"write", "erase"} -> known \ Range'
                   [] c.fn = "erasechip"        -> {}
                   [] OTHER                     -> known
    BY <1>3, <2>1 DEF Begin
  <2>3. c.fn \in {"write", "erase"} => Range' \cap known' = {}
    BY <2>2
  <2>4. c.fn = "erasechip" => known' = {}
    BY <2>2
  <2>. QED BY <2>1, <2>3, <2>4 DEF Asked, Allowed
<1>4. CASE Erase
  BY <1>0, <1>4 DEF Erase, Erasing, history
<1>5. CASE EraseFails
  BY <1>0, <1>5 DEF EraseFails, Erasing, Fails, history
<1>6. CASE Write
  BY <1>0, <1>6 DEF Write, Programming, history
<1>7. CASE WriteFails
  BY <1>0, <1>7 DEF WriteFails, Programming, Fails, history
<1>8. CASE PickRun
  BY <1>0, <1>8 DEF PickRun, history
<1>9. CASE ErasesFlushed
  BY <1>0, <1>9 DEF ErasesFlushed, history
<1>10. CASE WritesFlushed
  BY <1>0, <1>10 DEF WritesFlushed, history
<1>11. CASE ServeWrite
  BY <1>11 DEF ServeWrite, Done, Asked
<1>12. CASE ServeErase
  BY <1>12 DEF ServeErase, Done, Asked
<1>13. CASE ServeRead
  BY <1>13 DEF ServeRead, Done, Asked
<1>14. CASE ServeSync
  BY <1>14 DEF ServeSync, Done, Asked
<1>15. CASE DirectRead
  BY <1>15 DEF DirectRead, Done, Asked
<1>16. CASE ReadFails
  BY <1>0, <1>16 DEF ReadFails, Fails, history
<1>17. CASE DirectDone
  BY <1>17 DEF DirectDone, Done, Asked
<1>18. CASE EraseIgnored
  BY <1>0, <1>18 DEF EraseIgnored, Erasing
<1>. QED BY <1>1, <1>2, <1>3, <1>4, <1>5, <1>6, <1>7, <1>8, <1>9, <1>10, <1>11, <1>12,
            <1>13, <1>14, <1>15, <1>16, <1>17, <1>18 DEF Next

-----------------------------------------------------------------------------
(* What is done when a flush is.                                           *)

\* Every marked block has been erased, but for what a chip erase has spared.
LEMMA ErasesDone ==
  ASSUME TypeOK, Loops, pc = "flusherase", len = 0, wiped \cap (step .. BlkCnt - 1) = {}
  PROVE  \A p \in WipedPages \ spared : mem[p] = Erased
<1>. SUFFICES ASSUME NEW b \in wiped, NEW p \in BlockPages(b) \ spared PROVE mem[p] = Erased
  BY DEF WipedPages
<1>1. b < step
  BY Counts DEF TypeOK
<1>2. PagesOf(addr, len) = {}
  BY NoPages DEF TypeOK
<1>. QED BY <1>1, <1>2 DEF Loops

\* A marked page has been programmed when the walk is past it.
LEMMA WalkDone ==
  ASSUME TypeOK, Flow, Kept, pc = "flushwrite", NEW p \in Sure \cap DirtyPages,
         Walked(p - (win \div PageSize))
  PROVE  mem[p] = Cached(p)
<1>1. p - (win \div PageSize) \in dirty /\ PageAt(p - (win \div PageSize)) = p
  BY MarksIs
<1>2. mem[p] = buf[p - (win \div PageSize)]
  BY <1>1 DEF Kept
<1>. QED BY <1>2 DEF Cached

LEMMA WritesDone ==
  ASSUME TypeOK, Flow, Kept, pc = "flushwrite", Pending = {}
  PROVE  \A p \in Sure : mem[p] = view[p]
<1>. SUFFICES ASSUME NEW p \in Sure PROVE mem[p] = view[p]
  OBVIOUS
<1>1. Cached(p) = view[p]
  BY DEF Kept
<1>2. CASE p \in DirtyPages
  <2>1. p - (win \div PageSize) \in dirty
    BY <1>2, MarksIs
  <2>2. Walked(p - (win \div PageSize))
    BY <2>1 DEF Walked, Pending
  <2>. QED BY <1>1, <1>2, <2>2, WalkDone
<1>3. CASE p \notin DirtyPages
  BY <1>1, <1>3, NoMarks DEF Cached, Flow
<1>. QED BY <1>2, <1>3

-----------------------------------------------------------------------------
(* What nor_erase and nor_write have left to do.                           *)

\* The loops as they start.
LEMMA DirectStarts ==
  ASSUME TypeOK, call' \in Calls, ~Misaligned(call'), pc' = "direct",
         addr' = call'.addr, len' = call'.len,
         call'.fn = "write" => \A p \in Range' \ spared' : mem'[p] = Erased
  PROVE  Loops'
<1>1. PagesOf(addr', len') = Range'
  BY DEF Range
<1>2. call'.fn \in {"erase", "erasechip"} =>
        addr' % SecSize = 0 /\ len' % SecSize = 0
  BY CallIs DEF Divides
<1>3. addr' % PageSize = 0 /\ len' % PageSize = 0
  BY CallIs DEF Divides
<1>4. call'.addr <= addr' /\ addr' + len' = call'.addr + call'.len
  BY CallIs
<1>. QED BY <1>1, <1>2, <1>3, <1>4 DEF Loops

LEMMA LoopsStep == Inv /\ [Next]_vars => Loops'
<1>. SUFFICES ASSUME TypeOK, Flow, Asked, Loops, Kept, [Next]_vars PROVE Loops'
  BY DEF Inv
<1>. USE SameCall, SameMarks
<1>0. pc' \in {"idle", "serve", "flushwrite"} => Loops'
  BY DEF Loops
<1>1. CASE UNCHANGED vars
  BY <1>1 DEF vars, cache, job, history, Loops
<1>2. ASSUME NEW c \in Calls, Refuse(c) PROVE Loops'
  BY <1>0, <1>2 DEF Refuse
<1>3. ASSUME NEW c \in Calls, Begin(c) PROVE Loops'
  <2>1. call' = c /\ ~Misaligned(c) /\ UNCHANGED <<mem, win, dirty, wiped>>
        /\ Range' = PagesOf(c.addr, c.len)
    BY <1>3 DEF Begin, cache, Range
  <2>2. CASE pc' = "flusherase"
    <3>1. addr' = 0 /\ len' = 0 /\ step' = 0
      BY <1>3, <2>2 DEF Begin, AfterFlush, Enter
    <3>2. 0 % SecSize = 0 /\ 0 <= TotalSize /\ 0 <= BlkCnt
      BY Sizes, Counts, DividesSelf DEF Divides
    <3>3. PagesOf(0, 0) = {}
      BY NoPages
    <3>4. \A b \in wiped : ~(b < 0)
      BY Counts DEF TypeOK
    <3>. QED BY <2>1, <2>2, <3>1, <3>2, <3>3, <3>4 DEF Loops
  <2>3. CASE pc' = "direct"
    <3>1. addr' = c.addr /\ len' = c.len
      BY <1>3, <2>3 DEF Begin, AfterFlush, Enter
    <3>2. ASSUME c.fn = "write", NEW p \in Range' \ spared' PROVE mem'[p] = Erased
      <4>1. p \in known /\ p \notin spared /\ view[p] = Erased
        BY <1>3, <2>1, <3>2 DEF Begin, Allowed
      <4>2. NeedsFlush(c) /\ NothingToFlush(c)
        BY <1>3, <2>3, <3>2 DEF Begin, Enter
      <4>3. dirty = {} /\ wiped = {}
        BY <4>2 DEF NothingToFlush, TypeOK
      <4>4. Cached(p) = mem[p]
        BY <4>3, NoMarks DEF Cached
      <4>. QED BY <2>1, <4>1, <4>4 DEF Kept, Sure
    <3>. QED BY <2>1, <2>3, <3>1, <3>2, DirectStarts
  <2>. QED BY <1>0, <1>3, <2>2, <2>3 DEF Begin, AfterFlush, Enter
<1>4. CASE Erase
  <2>1. Erasing /\ UNCHANGED <<cache, pc, call, step, spared>>
    BY <1>4 DEF Erase, history
  <2>2. /\ addr \in Nat /\ len \in Nat \ {0} /\ addr + len <= TotalSize
        /\ EraseUnit \in Nat \ {0} /\ EraseUnit <= len
        /\ Divides(SecSize, addr + EraseUnit) /\ Divides(SecSize, len - EraseUnit)
        /\ PagesOf(addr, len) = ErasedPages \cup PagesOf(addr + EraseUnit, len - EraseUnit)
        /\ ErasedPages \cap PagesOf(addr + EraseUnit, len - EraseUnit) = {}
        /\ ErasedPages \subseteq Page
    BY <2>1, EraseIs
  <2>3. addr' = addr + EraseUnit /\ len' = len - EraseUnit
    BY <1>4 DEF Erase
  <2>4. addr' % SecSize = 0 /\ len' % SecSize = 0 /\ addr' + len' = addr + len /\ addr <= addr'
    BY <2>2, <2>3 DEF Divides
  <2>5. \A p \in Page : mem'[p] = IF p \in ErasedPages THEN Erased ELSE mem[p]
    BY <1>4 DEF Erase
  <2>6. PagesOf(addr, len) = ErasedPages \cup PagesOf(addr', len')
    BY <2>2, <2>3
  <2>7. CASE pc = "flusherase"
    <3>1. PagesOf(addr', len') \subseteq WipedPages
      BY <2>6, <2>7 DEF Loops
    <3>2. ASSUME NEW b \in wiped, b < step,
                 NEW p \in BlockPages(b) \ (PagesOf(addr', len') \cup spared)
          PROVE  mem'[p] = Erased
      <4>1. p \in Page
        BY PagesOfIs DEF BlockPages
      <4>. QED BY <2>5, <2>6, <2>7, <3>2, <4>1 DEF Loops
    <3>. QED BY <2>1, <2>4, <2>7, <3>1, <3>2 DEF Loops, cache
  <2>8. CASE pc = "direct" /\ call.fn \in {"erase", "erasechip"}
    <3>1. ASSUME NEW p \in Range \ (PagesOf(addr', len') \cup spared) PROVE mem'[p] = Erased
      <4>1. p \in Page
        BY PagesOfIs DEF Range
      <4>. QED BY <2>5, <2>6, <2>8, <4>1 DEF Loops
    <3>2. call.addr <= addr'
      <4>1. call.addr \in Nat
        BY <2>8, CallIs DEF Flow
      <4>. QED BY <2>2, <2>3, <2>8, <4>1 DEF Loops
    <3>. QED BY <2>1, <2>4, <2>8, <3>1, <3>2 DEF Loops
  <2>. QED BY <2>1, <2>7, <2>8 DEF Erasing
<1>5. CASE EraseFails
  <2>1. \/ pc' = "idle"
        \/ pc' = "direct" /\ call.fn = "erasechip" /\ addr' = call.addr /\ len' = call.len
    BY <1>5, FailsFlow DEF EraseFails, Erasing
  <2>2. UNCHANGED call /\ (pc # "idle" => call \in Calls /\ ~Misaligned(call)) /\ pc # "idle"
    BY <1>5 DEF EraseFails, Fails, Flow, Erasing
  <2>. QED BY <1>0, <2>1, <2>2, DirectStarts
<1>6. CASE Write
  <2>1. Programming /\ UNCHANGED <<cache, pc, call, spared>>
    BY <1>6 DEF Write, history
  <2>2. CASE pc = "flushwrite"
    BY <1>0, <2>1, <2>2
  <2>3. CASE pc # "flushwrite"
    <3>1. /\ pc = "direct" /\ call.fn = "write" /\ len \in Nat \ {0} /\ PageSize <= len
          /\ Divides(PageSize, addr + PageSize) /\ Divides(PageSize, len - PageSize)
          /\ Program.page \in Range /\ Program.data = Data(Program.page)
          /\ PagesOf(addr, len) = {Program.page} \cup PagesOf(addr + PageSize, len - PageSize)
          /\ Program.page \notin PagesOf(addr + PageSize, len - PageSize)
          /\ Program.page \in Page /\ Reaches
      BY <2>1, <2>3, ProgramIs
    <3>2. addr' = addr + PageSize /\ len' = len - PageSize
          /\ mem' = [mem EXCEPT ![Program.page] = @ \cap Program.data]
      BY <1>6, <2>3, <3>1 DEF Write
    <3>. DEFINE g == Program.page
    <3>3. (g \notin spared => mem[g] = Erased) /\ Data(g) \in Cell
      <4>1. g \in PagesOf(addr, len)
        BY <3>1
      <4>2. \A p \in Range : Data(p) \in Cell
        BY <3>1, CallIs DEF Flow, Range, Data
      <4>. QED BY <3>1, <4>1, <4>2 DEF Loops
    <3>4. g \notin spared => mem'[g] = Data(g)
      BY <3>1, <3>2, <3>3 DEF TypeOK, Cell, Erased
    <3>5. \A p \in Page \ {g} : mem'[p] = mem[p]
      BY <3>2 DEF TypeOK
    <3>6. ASSUME NEW p \in Range \ spared
          PROVE  mem'[p] = IF p \in PagesOf(addr', len') THEN Erased ELSE Data(p)
      <4>1. p \in Page
        BY PagesOfIs DEF Range
      <4>2. mem[p] = IF p \in PagesOf(addr, len) THEN Erased ELSE Data(p)
        BY <3>1 DEF Loops
      <4>3. PagesOf(addr', len') = PagesOf(addr, len) \ {g}
        BY <3>1, <3>2
      <4>. HIDE DEF g
      <4>. QED BY <3>4, <3>5, <4>1, <4>2, <4>3
    <3>7. call.addr <= addr' /\ addr' + len' = call.addr + call.len
      <4>1. call.addr \in Nat /\ call.len \in Nat /\ addr \in Nat
        BY <3>1, CallIs DEF Flow, TypeOK
      <4>2. call.addr <= addr /\ addr + len = call.addr + call.len
        BY <3>1 DEF Loops
      <4>3. addr' = addr + PageSize /\ len' = len - PageSize /\ len \in Nat
        BY <3>1, <3>2
      <4>. QED BY <4>1, <4>2, <4>3, Sizes
    <3>. QED BY <2>1, <3>1, <3>2, <3>6, <3>7 DEF Loops, Divides
  <2>. QED BY <2>2, <2>3
<1>7. CASE WriteFails
  <2>1. \/ pc' = "idle"
        \/ pc' = "direct" /\ call.fn = "erasechip" /\ addr' = call.addr /\ len' = call.len
    BY <1>7, FailsFlow DEF WriteFails, Programming
  <2>2. UNCHANGED call /\ (pc # "idle" => call \in Calls /\ ~Misaligned(call)) /\ pc # "idle"
    BY <1>7 DEF WriteFails, Fails, Flow, Programming
  <2>. QED BY <1>0, <2>1, <2>2, DirectStarts
<1>8. CASE PickRun
  <2>1. pc = "flusherase" /\ UNCHANGED <<mem, win, dirty, wiped, pc, call, spared>> /\ len = 0
    BY <1>8 DEF PickRun, cache, history
  <2>2. PICK first \in step .. BlkCnt - 1, last \in step .. BlkCnt - 1 :
          /\ first .. last \subseteq wiped
          /\ \A b \in step .. first - 1 : b \notin wiped
          /\ first <= last
          /\ addr' = win + first * EraseSize
          /\ len' = (last - first + 1) * EraseSize
          /\ step' = last + 1
    BY <1>8 DEF PickRun
  <2>3. /\ step \in Nat /\ first \in Nat /\ last \in Nat /\ first \in wiped
        /\ first <= last /\ last <= BlkCnt - 1 /\ BlkCnt \in Nat /\ step <= first
    <3>1. step \in Nat /\ BlkCnt \in Nat
      BY Counts DEF TypeOK
    <3>. QED BY <2>2, <3>1
  <2>4. win \in Nat /\ Divides(CacheSize, win) /\ win < TotalSize
    BY <2>3, MarksIs
  <2>5. PagesOf(addr', len') = UNION {BlockPages(b) : b \in first .. last}
    <3>1. PagesOf(addr', len') = UNION {BlockIn(win, b) : b \in first .. last}
      BY <2>2, <2>3, <2>4, RunPages
    <3>. QED BY <3>1, BlockPagesIs
  <2>6. addr' % SecSize = 0 /\ len' % SecSize = 0 /\ addr' + len' <= TotalSize
    <3>. DEFINE next == last + 1
                n == last - first + 1
    <3>1. next \in Int /\ n \in Int /\ n = next - first /\ next <= BlkCnt
      BY <2>3
    <3>2. addr' = win + Off(first) /\ len' = Off(n)
      BY <2>2 DEF Off
    <3>. HIDE DEF next, n
    <3>3. Off(n) = Off(next) - Off(first)
      BY <2>3, <3>1, OffSum
    <3>4. /\ Off(first) \in Int /\ Divides(EraseSize, Off(first))
          /\ Off(n) \in Int /\ Divides(EraseSize, Off(n))
          /\ Off(next) \in Int /\ Off(next) <= Off(BlkCnt)
      BY <2>3, <3>1, OffOrder
    <3>5. Divides(SecSize, Off(first)) /\ Divides(SecSize, Off(n)) /\ Divides(SecSize, win)
      BY <2>4, <3>4, Sizes, MultipleTrans
    <3>6. Divides(SecSize, win + Off(first))
      <4>1. win \in Int /\ SecSize \in Nat \ {0} /\ Off(first) \in Int
        BY <2>4, <3>4, Sizes
      <4>. QED BY ONLY <3>5, <4>1, DividesSum
    <3>7. win + CacheSize <= TotalSize
      BY <2>4, WindowIs
    <3>8. win + Off(first) + Off(n) <= TotalSize
      BY <2>4, <3>3, <3>4, <3>7, OffEnds, Sizes
    <3>. QED BY <3>2, <3>5, <3>6, <3>8 DEF Divides
  <2>7. PagesOf(addr', len') \subseteq WipedPages'
    BY <2>1, <2>2, <2>5 DEF WipedPages
  <2>8. ASSUME NEW b \in wiped, b < step',
               NEW p \in BlockPages(b) \ (PagesOf(addr', len') \cup spared)
        PROVE  mem[p] = Erased
    <3>1. b \in Nat
      BY Counts DEF TypeOK
    <3>2. b < step
      BY <2>2, <2>3, <2>5, <2>8, <3>1
    <3>3. PagesOf(addr, len) = {}
      BY <2>1, NoPages DEF TypeOK
    <3>. QED BY <2>1, <2>8, <3>2, <3>3 DEF Loops
  <2>9. step' <= BlkCnt
    BY <2>2, <2>3
  <2>. QED BY <2>1, <2>6, <2>7, <2>8, <2>9 DEF Loops
<1>9. CASE ErasesFlushed
  <2>1. UNCHANGED call /\ call \in Calls /\ ~Misaligned(call)
    BY <1>9 DEF ErasesFlushed, Flow
  <2>2. \/ pc' = "flushwrite"
        \/ pc' = "direct" /\ call.fn = "erase" /\ addr' = call.addr /\ len' = call.len
    BY <1>9 DEF ErasesFlushed, AfterFlush, Enter, Bypasses
  <2>. QED BY <1>0, <2>1, <2>2, DirectStarts
<1>10. CASE WritesFlushed
  <2>1. UNCHANGED <<mem, call, spared>> /\ call \in Calls /\ ~Misaligned(call)
    BY <1>10 DEF WritesFlushed, Flow, history
  <2>2. pc' = "serve" \/ (pc' = "direct" /\ addr' = call.addr /\ len' = call.len)
    BY <1>10 DEF WritesFlushed, AfterFlush, Enter
  <2>3. ASSUME call.fn = "write", NEW p \in Range \ spared PROVE mem[p] = Erased
    <3>1. p \in Sure
      BY <1>10, <2>3 DEF Sure, Flushing, WritesFlushed
    <3>2. mem[p] = view[p]
      BY <1>10, <3>1, WritesDone DEF WritesFlushed
    <3>3. view[p] = Erased
      BY <1>10, <2>3 DEF Asked, WritesFlushed
    <3>. QED BY <3>2, <3>3
  <2>. QED BY <1>0, <2>1, <2>2, <2>3, DirectStarts
<1>11. CASE ServeWrite
  BY <1>0, <1>11 DEF ServeWrite, Done
<1>12. CASE ServeErase
  BY <1>0, <1>12 DEF ServeErase, Done
<1>13. CASE ServeRead
  BY <1>0, <1>13 DEF ServeRead, Done
<1>14. CASE ServeSync
  BY <1>0, <1>14 DEF ServeSync, Done
<1>15. CASE DirectRead
  BY <1>0, <1>15 DEF DirectRead, Done
<1>16. CASE ReadFails
  <2>1. pc # "idle" /\ call.fn = "read" /\ Fails
    BY <1>16 DEF ReadFails
  <2>2. pc' = "idle"
    BY <2>1, FailsFlow
  <2>. QED BY <1>0, <2>2
<1>17. CASE DirectDone
  BY <1>0, <1>17 DEF DirectDone, Done
<1>18. CASE EraseIgnored
  <2>1. Erasing /\ UNCHANGED <<mem, cache, pc, call, step>> /\ spared' = Page
    BY <1>18 DEF EraseIgnored
  <2>2. /\ addr \in Nat /\ len \in Nat \ {0} /\ EraseUnit \in Nat \ {0}
        /\ Divides(SecSize, addr + EraseUnit) /\ Divides(SecSize, len - EraseUnit)
        /\ PagesOf(addr, len) = ErasedPages \cup PagesOf(addr + EraseUnit, len - EraseUnit)
    BY <2>1, EraseIs
  <2>3. addr' = addr + EraseUnit /\ len' = len - EraseUnit
    BY <1>18 DEF EraseIgnored
  <2>4. addr' % SecSize = 0 /\ len' % SecSize = 0 /\ addr' + len' = addr + len /\ addr <= addr'
    BY <2>2, <2>3 DEF Divides
  <2>5. (\A b : BlockPages(b) \subseteq spared') /\ Range \subseteq spared'
    BY <2>1, PagesOfIs DEF BlockPages, Range
  <2>6. CASE pc = "flusherase"
    <3>1. PagesOf(addr', len') \subseteq WipedPages
      BY <2>2, <2>3, <2>6 DEF Loops
    <3>. QED BY <2>1, <2>4, <2>5, <2>6, <3>1 DEF Loops, cache
  <2>7. CASE pc = "direct" /\ call.fn \in {"erase", "erasechip"}
    <3>1. call.addr <= addr'
      <4>1. call.addr \in Nat
        BY <2>7, CallIs DEF Flow
      <4>. QED BY <2>2, <2>3, <2>7, <4>1 DEF Loops
    <3>. QED BY <2>1, <2>4, <2>5, <2>7, <3>1 DEF Loops
  <2>. QED BY <2>1, <2>6, <2>7 DEF Erasing
<1>. QED BY <1>1, <1>2, <1>3, <1>4, <1>5, <1>6, <1>7, <1>8, <1>9, <1>10, <1>11, <1>12,
            <1>13, <1>14, <1>15, <1>16, <1>17, <1>18 DEF Next

-----------------------------------------------------------------------------
(* Flash and cache hold what the calls left.                               *)

\* A step that takes no page out of the cache and changes on the flash only pages that
\* are marked as wiped or that nothing is known of.
LEMMA KeptMem ==
  ASSUME TypeOK, Kept, UNCHANGED <<win, buf, dirty, wiped, lastWrite, view>>,
         Sure' \subseteq Sure, pc' # "flushwrite",
         \A p \in Sure' : p \in WipedPages \/ mem'[p] = mem[p]
  PROVE  Kept'
<1>1. /\ DirtyPages' = DirtyPages /\ WipedPages' = WipedPages
  BY SameMarks
<1>2. \A p \in Sure' : Cached(p)' = Cached(p)
  BY <1>1 DEF Cached
<1>3. \A p \in Sure' : Cached(p)' = view'[p]
  BY <1>2 DEF Kept
<1>4. \A p \in Sure' \cap DirtyPages' : p \in WipedPages' \/ Cached(p)' \subseteq mem'[p]
  BY <1>1, <1>2 DEF Kept
<1>. QED BY <1>3, <1>4 DEF Kept

\* The marks a write or an erase makes are its pages.
LEMMA Marking ==
  ASSUME TypeOK, Flow, pc = "serve", call.fn \in {"write", "erase"}, win' = Window
  PROVE  /\ dirty' = dirty => DirtyPages' = DirtyPages
         /\ wiped' = wiped => WipedPages' = WipedPages
         /\ dirty' = dirty \cup {p - (Window \div PageSize) : p \in Range} =>
              DirtyPages' = DirtyPages \cup Range
         /\ \A p \in DirtyPages :
              win' = win /\ p - (Window \div PageSize) = p - (win \div PageSize)
         /\ \A p \in Range : Slot(Window, p - (Window \div PageSize)) = p
<1>1. win = Window \/ (dirty = {} /\ wiped = {})
  BY ServeIs DEF TypeOK
<1>2. dirty' = dirty => DirtyPages' = DirtyPages
  BY <1>1 DEF DirtyPages, PageAt
<1>3. wiped' = wiped => WipedPages' = WipedPages
  BY <1>1 DEF WipedPages, BlockPages
<1>4. \A p \in DirtyPages : win' = win /\ p - (Window \div PageSize) = p - (win \div PageSize)
  BY <1>1, NoMarks
<1>5. ASSUME NEW p \in Range PROVE Slot(Window, p - (Window \div PageSize)) = p
  <2>. DEFINE f == Window \div PageSize
  <2>1. f \in Nat /\ p \in Page
    BY ServeIs
  <2>2. f \in Int /\ p \in Int
    BY <2>1, PageIs
  <2>3. Slot(Window, p - f) = f + (p - f)
    BY DEF Slot
  <2>. HIDE DEF f
  <2>4. f + (p - f) = p
    BY <2>2
  <2>. QED BY <2>3, <2>4 DEF f
<1>6. ASSUME dirty' = dirty \cup {p - (Window \div PageSize) : p \in Range}
      PROVE  DirtyPages' = DirtyPages \cup Range
  <2>1. DirtyPages' = {Slot(Window, i) : i \in dirty'}
    BY DEF DirtyPages, PageAt, Slot
  <2>2. {Slot(Window, i) : i \in dirty} = DirtyPages
    BY <1>1 DEF DirtyPages, PageAt, Slot
  <2>3. {Slot(Window, p - (Window \div PageSize)) : p \in Range} = Range
    BY <1>5
  <2>. QED BY <1>6, <2>1, <2>2, <2>3
<1>. QED BY <1>2, <1>3, <1>4, <1>5, <1>6

\* The blocks an erase marks are its pages.
LEMMA MarkingErase ==
  ASSUME TypeOK, Flow, ServeErase
  PROVE  WipedPages' = WipedPages \cup Range
<1>1. pc = "serve" /\ call.fn = "erase" /\ win' = Window
  BY DEF ServeErase
<1>2. /\ call.addr \in Nat /\ call.len \in Nat /\ call.addr + call.len <= TotalSize
      /\ Divides(EraseSize, call.addr) /\ Divides(EraseSize, call.len)
  BY <1>1, CallIs DEF Flow
<1>3. /\ Window \in Nat /\ Divides(CacheSize, Window)
      /\ Window <= call.addr /\ call.addr < Window + CacheSize
  BY <1>2, Sizes, AlignBounds DEF Window
<1>4. call.addr + call.len <= Window + CacheSize
  <2>1. (call.addr % CacheSize) + call.len <= CacheSize
    <3>1. (call.addr % CacheSize) \in Int
      BY <1>2, Sizes
    <3>. QED BY <1>1, <1>2, <3>1, Sizes DEF Flow, Straddles
  <2>2. Window = call.addr - (call.addr % CacheSize) /\ call.addr % CacheSize \in Int
    BY <1>2, Sizes DEF Window, AlignDown
  <2>. QED BY <1>2, <2>1, <2>2, Sizes
<1>. DEFINE marked == {b \in 0 .. BlkCnt - 1 :
                         \E p \in Range : AlignDown(p * PageSize, EraseSize) = Window + b * EraseSize}
<1>5. UNION {BlockIn(Window, b) : b \in marked} = Range
  <2>1. marked = {b \in 0 .. BlkCnt - 1 :
                    \E p \in PagesOf(call.addr, call.len) :
                       AlignDown(At(p), EraseSize) = Window + Off(b)}
    BY DEF Range, At, Off
  <2>2. UNION {BlockIn(Window, b) : b \in {b \in 0 .. BlkCnt - 1 :
                    \E p \in PagesOf(call.addr, call.len) :
                       AlignDown(At(p), EraseSize) = Window + Off(b)}} = PagesOf(call.addr, call.len)
    BY <1>2, <1>3, <1>4, MarkedPages
  <2>. QED BY <2>1, <2>2 DEF Range
<1>6. wiped' = wiped \cup marked
  BY DEF ServeErase
<1>7. WipedPages' = UNION {BlockIn(Window, b) : b \in wiped \cup marked}
  BY <1>1, <1>6 DEF WipedPages, BlockPages, BlockIn, Off
<1>8. UNION {BlockIn(Window, b) : b \in wiped} = WipedPages
  <2>1. win = Window \/ wiped = {}
    BY <1>1, ServeIs DEF TypeOK
  <2>. QED BY <2>1, BlockPagesIs DEF WipedPages
<1>. HIDE DEF marked
<1>. QED BY <1>5, <1>7, <1>8

\* What nor_erase and nor_write change that a call has asked for is not known of.
LEMMA AskedUnknown ==
  ASSUME Asked, pc # "idle", call.fn \in {"write", "erase", "erasechip"}, NEW p \in Range
  PROVE  p \notin known
BY DEF Asked

\* What nor_erase and nor_write have left to do is part of the call.
LEMMA LeftInCall ==
  ASSUME TypeOK, Flow, Loops, pc = "direct", call.fn \in {"write", "erase", "erasechip"}
  PROVE  /\ PagesOf(addr, len) \subseteq Range
         /\ call.fn \in {"erase", "erasechip"} =>
              \A p \in Range \ (PagesOf(addr, len) \cup spared) : mem[p] = Erased
         /\ len = 0 => PagesOf(addr, len) = {}
<1>1. call.addr \in Nat /\ call.len \in Nat /\ addr \in Nat /\ len \in Nat
  BY CallIs DEF Flow, TypeOK
<1>2. call.addr <= addr /\ addr + len = call.addr + call.len
  BY DEF Loops
<1>3. \A p \in Page : At(p) \in Int
  BY PageAddr
<1>4. PagesOf(addr, len) \subseteq Range
  BY <1>1, <1>2, <1>3, PagesOfIs DEF Range
<1>5. call.fn \in {"erase", "erasechip"} =>
        \A p \in Range \ (PagesOf(addr, len) \cup spared) : mem[p] = Erased
  BY DEF Loops
<1>6. len = 0 => PagesOf(addr, len) = {}
  BY <1>1, NoPages
<1>. QED BY <1>4, <1>5, <1>6

\* A call that fails leaves nothing more to be sure of.
LEMMA FailsSure ==
  ASSUME Fails
  PROVE  Sure' = known \ spared /\ Sure' \subseteq Sure /\ pc' # "flushwrite"
         /\ UNCHANGED <<view, call>>
BY DEF Fails, Enter, Sure, Flushing, history

\* The pages a unit of nor_erase erases are marked as wiped or not known of.
LEMMA EraseUnknown ==
  ASSUME TypeOK, Flow, Asked, Loops, Erasing, NEW p \in ErasedPages
  PROVE  p \in WipedPages \/ p \notin known
<1>1. p \in PagesOf(addr, len)
  BY EraseIs
<1>2. CASE pc = "flusherase"
  BY <1>1, <1>2 DEF Loops
<1>3. CASE pc = "direct" /\ call.fn \in {"erase", "erasechip"}
  BY <1>1, <1>3, LeftInCall, AskedUnknown
<1>. QED BY <1>2, <1>3 DEF Erasing

LEMMA SureIs == TypeOK /\ Flow => Sure \subseteq Page
BY CallIs DEF Sure, TypeOK, Flow, Flushing, Range

LEMMA KeptStep == Inv /\ [Next]_vars => Kept'
<1>. SUFFICES ASSUME TypeOK, Flow, Asked, Loops, Kept, Marks, [Next]_vars PROVE Kept'
  BY DEF Inv
<1>. USE SameCall, SameMarks
<1>0. ASSUME UNCHANGED <<mem, win, buf, dirty, wiped, lastWrite, view>>,
             Sure' \subseteq Sure, pc' # "flushwrite"
      PROVE  Kept'
  BY <1>0, KeptMem
<1>1. CASE UNCHANGED vars
  <2>1. UNCHANGED <<mem, win, buf, dirty, wiped, lastWrite, view, known, spared, pc, step, call>>
    BY <1>1 DEF vars, cache, job, history
  <2>2. /\ Sure' = Sure /\ DirtyPages' = DirtyPages /\ WipedPages' = WipedPages
        /\ \A p : Cached(p)' = Cached(p)
        /\ \A i \in dirty : Walked(i)' = Walked(i) /\ PageAt(i)' = PageAt(i)
    BY <2>1 DEF Sure, Cached, Walked, Walk
  <2>. QED BY <2>1, <2>2 DEF Kept
<1>2. ASSUME NEW c \in Calls, Refuse(c) PROVE Kept'
  BY <1>0, <1>2 DEF Refuse, cache, history, Sure, Flushing
<1>3. ASSUME NEW c \in Calls, Begin(c) PROVE Kept'
  <2>1. UNCHANGED <<mem, win, buf, dirty, wiped, lastWrite, view>> /\ pc = "idle"
        /\ known' \subseteq known /\ pc' # "flushwrite"
    BY <1>3 DEF Begin, cache, AfterFlush, Enter
  <2>2. call'.fn = "write" => Range' \subseteq known /\ spared' = spared
    BY <1>3 DEF Begin, Allowed, Range
  <2>4. known' \ spared' \subseteq known \ spared
    BY <1>3 DEF Begin
  <2>3. Sure' \subseteq Sure
    BY <2>1, <2>2, <2>4 DEF Sure
  <2>. QED BY <1>0, <2>1, <2>3
<1>4. CASE Erase
  <2>1. Erasing /\ UNCHANGED <<win, buf, dirty, wiped, lastWrite, view, known, spared, pc, call>>
    BY <1>4 DEF Erase, cache, history
  <2>2. Sure' = Sure /\ pc' # "flushwrite"
    BY <2>1 DEF Sure, Erasing
  <2>3. ErasedPages \subseteq PagesOf(addr, len)
    BY <2>1, EraseIs
  <2>4. ASSUME NEW p \in Sure PROVE p \in WipedPages \/ mem'[p] = mem[p]
    <3>1. p \in Page
      BY SureIs
    <3>2. p \notin ErasedPages => mem'[p] = mem[p]
      BY <1>4, <3>1 DEF Erase
    <3>3. CASE p \in ErasedPages
      <4>1. CASE pc = "flusherase"
        BY <2>3, <3>3, <4>1 DEF Loops
      <4>2. CASE pc # "flusherase"
        BY <2>1, <3>3, <4>2, EraseUnknown DEF Sure, Flushing, Erasing
      <4>. QED BY <4>1, <4>2
    <3>. QED BY <3>2, <3>3
  <2>. QED BY <2>1, <2>2, <2>4, KeptMem
<1>5. CASE EraseFails
  <2>1. Erasing /\ Fails /\ UNCHANGED <<win, buf, dirty, wiped, lastWrite>>
    BY <1>5 DEF EraseFails, cache
  <2>2. Sure' = known \ spared /\ Sure' \subseteq Sure /\ pc' # "flushwrite"
        /\ UNCHANGED <<view, call>>
    BY <2>1, FailsSure
  <2>3. \A p \in Page : p \notin ErasedPages => mem'[p] = mem[p]
    BY <1>5 DEF EraseFails
  <2>4. ASSUME NEW p \in known \ spared PROVE p \in WipedPages \/ mem'[p] = mem[p]
    <3>1. p \in Page
      BY <2>2, SureIs
    <3>. QED BY <2>1, <2>3, <3>1, EraseUnknown
  <2>. QED BY <2>1, <2>2, <2>4, KeptMem
<1>6. CASE Write
  <2>1. Programming
        /\ UNCHANGED <<win, buf, dirty, wiped, lastWrite, view, known, spared, pc, call>>
    BY <1>6 DEF Write, cache, history
  <2>2. Sure' = Sure
    BY <2>1 DEF Sure
  <2>. DEFINE g == Program.page
  <2>3. g \in Page /\ mem' = [mem EXCEPT ![g] = @ \cap Program.data]
    BY <1>6, <2>1, ProgramIs DEF Write
  <2>4. \A p \in Page \ {g} : mem'[p] = mem[p]
    BY <2>3 DEF TypeOK
  <2>5. mem'[g] = mem[g] \cap Program.data
    BY <2>3 DEF TypeOK
  <2>6. CASE pc # "flushwrite"
    <3>1. pc = "direct" /\ call.fn = "write" /\ g \in Range
      BY <2>1, <2>6, ProgramIs
    <3>2. g \notin known /\ Sure = known \ spared
      BY <3>1, AskedUnknown DEF Sure, Flushing
    <3>3. \A p \in Sure : mem'[p] = mem[p]
      BY <2>4, <3>2, SureIs
    <3>. QED BY <2>1, <2>2, <2>6, <3>3, KeptMem
  <2>7. CASE pc = "flushwrite"
    <3>. DEFINE j == Walk(NextStep)
    <3>1. j \in dirty /\ g = PageAt(j) /\ Program.data = buf[j] /\ Pending # {}
      BY <2>1, <2>7, ProgramIs
    <3>2. g \in DirtyPages /\ g - (win \div PageSize) = j /\ Cached(g) = buf[j]
      BY <3>1, MarksIs DEF Cached
    <3>3. WipedPages = {}
      BY <2>7, NoMarks DEF Flow
    <3>4. g \in Sure => mem'[g] = buf[j]
      <4>1. g \in Sure => buf[j] \subseteq mem[g]
        BY <3>2, <3>3 DEF Kept
      <4>. QED BY <2>5, <3>1, <4>1
    <3>5. DirtyPages' = DirtyPages /\ WipedPages' = {} /\ \A i : PageAt(i)' = PageAt(i)
      BY <2>1, <3>3
    <3>6. ASSUME NEW p \in Sure PROVE Cached(p)' = Cached(p)
      <4>1. p \in Page
        BY SureIs
      <4>2. CASE p \in DirtyPages
        BY <2>1, <3>5, <4>2 DEF Cached
      <4>3. CASE p \notin DirtyPages
        BY <2>4, <3>2, <3>3, <3>5, <4>1, <4>3 DEF Cached
      <4>. QED BY <4>2, <4>3
    <3>7. \A p \in Sure' : Cached(p)' = view'[p]
      BY <2>1, <2>2, <3>6 DEF Kept
    <3>8. ASSUME NEW p \in Sure \cap DirtyPages PROVE Cached(p)' \subseteq mem'[p]
      <4>1. CASE p = g
        BY <3>2, <3>4, <3>6, <4>1
      <4>2. CASE p # g
        <5>1. p \in Page /\ Cached(p) \subseteq mem[p]
          BY <3>3, SureIs DEF Kept
        <5>. QED BY <2>4, <3>6, <4>2, <5>1
      <4>. QED BY <4>1, <4>2
    <3>9. ASSUME NEW i \in dirty, PageAt(i) \in Sure, Walked(i)'
          PROVE  mem'[PageAt(i)] = buf[i]
      <4>1. CASE i = j
        BY <3>1, <3>4, <3>9, <4>1
      <4>2. CASE i # j
        <5>1. \A k \in step .. PageCnt - 1 : Walk(k) \in dirty => NextStep <= k
          BY <3>1, NextStepIs
        <5>2. step' = NextStep + 1 /\ NextStep \in Nat /\ UNCHANGED lastWrite
          BY <1>6, <2>7, <3>1, NextStepIs DEF Write, cache
        <5>3. \A k \in NextStep + 1 .. PageCnt - 1 : Walk(k) # i
          BY <3>9, <5>2 DEF Walked, Walk
        <5>4. ASSUME NEW k \in step .. PageCnt - 1, Walk(k) = i PROVE FALSE
          <6>1. k \in Int /\ NextStep <= k /\ PageCnt \in Nat
            BY <5>1, <5>4, Counts DEF TypeOK
          <6>2. k # NextStep
            BY <4>2, <5>4
          <6>. QED BY <5>2, <5>3, <5>4, <6>1, <6>2
        <5>5. mem[PageAt(i)] = buf[i]
          BY <2>7, <3>9, <5>4 DEF Kept, Walked
        <5>6. PageAt(i) # g /\ PageAt(i) \in Page
          BY <3>1, <4>2, MarksIs
        <5>. QED BY <2>4, <5>5, <5>6
      <4>. QED BY <4>1, <4>2
    <3>. QED BY <2>1, <2>2, <3>5, <3>7, <3>8, <3>9 DEF Kept
  <2>. QED BY <2>6, <2>7
<1>7. CASE WriteFails
  <2>1. Programming /\ Fails /\ UNCHANGED <<win, buf, dirty, wiped, lastWrite>>
    BY <1>7 DEF WriteFails, cache
  <2>2. Sure' = known \ spared /\ Sure' \subseteq Sure /\ pc' # "flushwrite"
        /\ UNCHANGED <<view, call>>
    BY <2>1, FailsSure
  <2>. DEFINE g == Program.page
  <2>3. PICK c \in SUBSET mem[g] :
          mem[g] \cap Program.data \subseteq c /\ mem' = [mem EXCEPT ![g] = c]
    BY <1>7, <2>1, ProgramIs DEF WriteFails
  <2>4. g \in Page /\ (\A p \in Page \ {g} : mem'[p] = mem[p]) /\ mem'[g] = c
    BY <2>1, <2>3, ProgramIs DEF TypeOK
  <2>5. CASE pc # "flushwrite"
    <3>1. pc = "direct" /\ call.fn = "write" /\ g \in Range
      BY <2>1, <2>5, ProgramIs
    <3>2. g \notin known
      BY <3>1, AskedUnknown
    <3>3. \A p \in known \ spared : mem'[p] = mem[p]
      BY <2>2, <2>4, <3>2, SureIs
    <3>. QED BY <2>1, <2>2, <3>3, KeptMem
  <2>6. CASE pc = "flushwrite"
    <3>. DEFINE j == Walk(NextStep)
    <3>1. j \in dirty /\ g = PageAt(j) /\ Program.data = buf[j]
      BY <2>1, <2>6, ProgramIs
    <3>2. g \in DirtyPages /\ g - (win \div PageSize) = j /\ Cached(g) = buf[j]
      BY <3>1, MarksIs DEF Cached
    <3>3. WipedPages = {} /\ DirtyPages' = DirtyPages /\ WipedPages' = {}
      BY <2>1, <2>6, NoMarks DEF Flow
    <3>4. ASSUME NEW p \in known \ spared PROVE Cached(p)' = Cached(p) /\ p \in Page
      <4>1. p \in Page
        BY <2>2, SureIs
      <4>2. CASE p \in DirtyPages
        BY <2>1, <3>3, <4>1, <4>2 DEF Cached
      <4>3. CASE p \notin DirtyPages
        BY <2>4, <3>2, <3>3, <4>1, <4>3 DEF Cached
      <4>. QED BY <4>2, <4>3
    <3>5. \A p \in Sure' : Cached(p)' = view'[p]
      BY <2>2, <3>4 DEF Kept
    <3>6. ASSUME NEW p \in (known \ spared) \cap DirtyPages PROVE Cached(p)' \subseteq mem'[p]
      <4>1. Cached(p) \subseteq mem[p]
        BY <2>2, <3>3 DEF Kept
      <4>2. CASE p = g
        BY <2>3, <2>4, <3>1, <3>2, <3>4, <4>1, <4>2
      <4>3. CASE p # g
        BY <2>4, <3>4, <4>1, <4>3
      <4>. QED BY <4>2, <4>3
    <3>. QED BY <2>2, <3>3, <3>5, <3>6 DEF Kept
  <2>. QED BY <2>5, <2>6
<1>8. CASE PickRun
  BY <1>0, <1>8 DEF PickRun, cache, history, Sure
<1>9. CASE ErasesFlushed
  <2>1. UNCHANGED <<mem, win, buf, dirty, lastWrite, view, known, spared, call>> /\ wiped' = {}
        /\ step' = 0 /\ pc = "flusherase"
    BY <1>9 DEF ErasesFlushed, history
  <2>2. \A p \in WipedPages \ spared : mem[p] = Erased
    BY <1>9, ErasesDone DEF ErasesFlushed
  <2>3. Sure' \subseteq Sure
    BY <2>1 DEF Sure, Flushing
  <2>0. \A p \in Sure : p \notin spared
    BY DEF Sure
  <2>4. DirtyPages' = DirtyPages /\ WipedPages' = {} /\ \A p \in Sure : Cached(p)' = Cached(p)
    <3>1. DirtyPages' = DirtyPages /\ WipedPages' = {}
      BY <2>1 DEF DirtyPages, PageAt, WipedPages
    <3>. QED BY <2>0, <2>1, <2>2, <3>1 DEF Cached
  <2>5. \A p \in Sure' : Cached(p)' = view'[p]
    BY <2>1, <2>3, <2>4 DEF Kept
  <2>6. ASSUME NEW p \in Sure \cap DirtyPages PROVE Cached(p)' \subseteq mem'[p]
    <3>1. CASE p \in WipedPages
      <4>1. p \in Page /\ Cached(p) \in Cell
        BY SureIs, MarksIs
      <4>. QED BY <2>0, <2>1, <2>2, <2>4, <3>1, <4>1 DEF Cell, Erased
    <3>2. CASE p \notin WipedPages
      BY <2>1, <2>4, <3>2 DEF Kept
    <3>. QED BY <3>1, <3>2
  <2>7. \A i \in dirty : ~Walked(i)'
    <3>1. \A i \in dirty : \E k \in 0 .. PageCnt - 1 : Walk(k) = i
      BY WalkIs DEF TypeOK
    <3>. QED BY <2>1, <3>1 DEF Walked, Walk
  <2>. QED BY <2>1, <2>3, <2>4, <2>5, <2>6, <2>7 DEF Kept
<1>10. CASE WritesFlushed
  <2>1. UNCHANGED <<mem, wiped, view, known, spared, call>> /\ dirty' = {} /\ pc = "flushwrite"
        /\ Pending = {} /\ wiped = {}
    BY <1>10 DEF WritesFlushed, history, Flow
  <2>2. Sure' \subseteq Sure /\ pc' # "flushwrite"
    BY <1>10, <2>1 DEF WritesFlushed, AfterFlush, Enter, Sure, Flushing
  <2>3. \A p \in Sure : mem[p] = view[p]
    BY <2>1, WritesDone
  <2>4. DirtyPages' = {} /\ WipedPages' = {}
    BY <2>1 DEF DirtyPages, WipedPages
  <2>5. \A p : Cached(p)' = mem[p]
    BY <2>1, <2>4 DEF Cached
  <2>. QED BY <2>1, <2>2, <2>3, <2>4, <2>5 DEF Kept
<1>11. CASE ServeWrite
  <2>1. /\ pc = "serve" /\ call.fn = "write" /\ win' = Window /\ UNCHANGED <<mem, wiped, call>>
        /\ pc' = "idle"
    BY <1>11 DEF ServeWrite, Done
  <2>2. /\ view' = [p \in Page |-> IF p \in Range THEN Data(p) ELSE view[p]]
        /\ known' = known \cup Range /\ spared' = spared
    BY <1>11 DEF ServeWrite, Written
  <2>3. Sure' = Sure
    BY <2>1, <2>2 DEF Sure, Flushing
  <2>4. DirtyPages' = DirtyPages \cup Range /\ WipedPages' = WipedPages
    <3>1. dirty' = dirty \cup {p - (Window \div PageSize) : p \in Range}
      BY <1>11 DEF ServeWrite
    <3>. QED BY <2>1, <3>1, Marking
  <2>5. \A i \in 0 .. PageCnt - 1 :
          buf'[i] = IF i \in {p - (Window \div PageSize) : p \in Range}
                    THEN Data(Slot(Window, i)) ELSE buf[i]
    BY <1>11 DEF ServeWrite, Slot
  <2>6. ASSUME NEW p \in Range PROVE buf'[p - (Window \div PageSize)] = Data(p)
    <3>1. Slot(Window, p - (Window \div PageSize)) = p
      BY <2>1, Marking
    <3>2. p - (Window \div PageSize) \in 0 .. PageCnt - 1
      BY <2>1, ServeIs
    <3>. QED BY <2>5, <3>1, <3>2
  <2>7. ASSUME NEW p \in DirtyPages \ Range
        PROVE  buf'[p - (Window \div PageSize)] = buf[p - (win \div PageSize)]
    <3>. DEFINE i == p - (Window \div PageSize)
    <3>1. i = p - (win \div PageSize) /\ win' = win
      BY <2>1, Marking
    <3>2. i \in dirty /\ PageAt(i) = p
      BY <3>1, MarksIs
    <3>3. i \in 0 .. PageCnt - 1
      BY <3>2 DEF TypeOK
    <3>4. Slot(Window, i) = p
      BY <2>1, <3>1, <3>2 DEF PageAt, Slot
    <3>5. ASSUME NEW q \in Range, i = q - (Window \div PageSize) PROVE FALSE
      <4>1. Slot(Window, i) = q
        BY <2>1, <3>5, Marking
      <4>. QED BY <2>7, <3>4, <4>1
    <3>. HIDE DEF i
    <3>6. buf'[i] = buf[i]
      BY <2>5, <3>3, <3>5
    <3>. QED BY <3>1, <3>6 DEF i
  <2>8. ASSUME NEW p \in Range PROVE Cached(p)' = Data(p)
    BY <2>1, <2>4, <2>6 DEF Cached
  <2>9. ASSUME NEW p, p \notin Range PROVE Cached(p)' = Cached(p)
    BY <2>1, <2>4, <2>7, <2>9 DEF Cached
  <2>10. ASSUME NEW p \in Sure PROVE Cached(p)' = view'[p]
    <3>1. p \in Page /\ Cached(p) = view[p]
      BY SureIs DEF Kept
    <3>. QED BY <2>2, <2>8, <2>9, <3>1
  <2>11. ASSUME NEW p \in Sure \cap DirtyPages', p \notin WipedPages
         PROVE  Cached(p)' \subseteq mem[p]
    <3>1. CASE p \in Range
      <4>1. p \in Page /\ Cached(p) = Erased
        BY <2>1, <3>1, SureIs DEF Kept, Asked
      <4>2. Erased \subseteq mem[p]
        BY <2>11, <4>1 DEF Kept, Cached
      <4>3. Data(p) \in Cell
        BY <2>1, <3>1, CallIs DEF Flow, Range, Data
      <4>. QED BY <2>8, <3>1, <4>2, <4>3 DEF Cell, Erased
    <3>2. CASE p \notin Range
      BY <2>4, <2>9, <2>11, <3>2 DEF Kept
    <3>. QED BY <3>1, <3>2
  <2>. QED BY <2>1, <2>3, <2>4, <2>10, <2>11 DEF Kept
<1>12. CASE ServeErase
  <2>1. /\ pc = "serve" /\ call.fn = "erase" /\ win' = Window
        /\ UNCHANGED <<mem, buf, dirty, call>> /\ pc' = "idle"
    BY <1>12 DEF ServeErase, Done
  <2>2. /\ view' = [p \in Page |-> IF p \in Range THEN Erased ELSE view[p]]
        /\ known' = known \cup Range /\ spared' = spared
    BY <1>12 DEF ServeErase, Cleared
  <2>3. Sure' = (known \cup Range) \ spared /\ Sure = known \ spared
    BY <2>1, <2>2 DEF Sure, Flushing
  <2>4. DirtyPages' = DirtyPages /\ WipedPages' = WipedPages \cup Range
    BY <1>12, <2>1, Marking, MarkingErase
  <2>5. Range \cap DirtyPages = {}
    BY <2>1 DEF Asked, Marks
  <2>6. \A p \in DirtyPages : p - (win' \div PageSize) = p - (win \div PageSize)
    BY <2>1, Marking
  <2>7. \A p \in Range : Cached(p)' = Erased
    BY <2>4, <2>5 DEF Cached
  <2>8. ASSUME NEW p, p \notin Range PROVE Cached(p)' = Cached(p)
    BY <2>1, <2>4, <2>6, <2>8 DEF Cached
  <2>9. ASSUME NEW p \in (known \cup Range) \ spared PROVE Cached(p)' = view'[p]
    <3>1. p \in Page
      BY <2>1, CallIs DEF TypeOK, Flow, Range
    <3>2. p \notin Range => Cached(p) = view[p]
      BY <2>3, <2>9 DEF Kept
    <3>. QED BY <2>2, <2>7, <2>8, <3>1, <3>2
  <2>10. ASSUME NEW p \in ((known \cup Range) \ spared) \cap DirtyPages, p \notin WipedPages
         PROVE  Cached(p)' \subseteq mem[p]
    BY <2>3, <2>5, <2>8, <2>10 DEF Kept
  <2>. QED BY <2>1, <2>3, <2>4, <2>9, <2>10 DEF Kept
<1>13. CASE ServeRead
  BY <1>0, <1>13 DEF ServeRead, Done, cache, history, Sure, Flushing
<1>14. CASE ServeSync
  BY <1>0, <1>14 DEF ServeSync, Done, cache, Sure, Flushing
<1>15. CASE DirectRead
  BY <1>0, <1>15 DEF DirectRead, Done, cache, history, Sure, Flushing
<1>16. CASE ReadFails
  <2>1. pc # "idle" /\ call.fn = "read" /\ Fails /\ UNCHANGED <<mem, cache>>
    BY <1>16 DEF ReadFails
  <2>2. pc' = "idle"
    BY <2>1, FailsFlow
  <2>. QED BY <1>0, <2>1, <2>2 DEF Fails, cache, history, Sure, Flushing
<1>17. CASE DirectDone
  <2>1. /\ pc = "direct" /\ pc' = "idle" /\ len = 0
        /\ UNCHANGED <<mem, win, buf, dirty, wiped, lastWrite, call>>
    BY <1>17 DEF DirectDone, Done, cache
  <2>4. call.fn \in {"write", "erase", "erasechip"} /\ call \in Calls /\ ~Misaligned(call)
    BY <1>17, <2>1, CallIs DEF DirectDone, Flow
  <2>0. spared' = spared
    BY <1>17, <2>4 DEF DirectDone, Written, Cleared
  <2>2. Sure' = known' \ spared /\ Sure = known \ spared
    BY <2>0, <2>1 DEF Sure, Flushing
  <2>3. DirtyPages' = DirtyPages /\ WipedPages' = WipedPages /\ \A p : Cached(p)' = Cached(p)
    BY <2>1 DEF Cached
  <2>5. PagesOf(addr, len) = {} /\ Range \subseteq Page
    BY <2>1, <2>4, LeftInCall, CallIs DEF Range
  <2>6. CASE call.fn = "write"
    <3>1. /\ view' = [p \in Page |-> IF p \in Range THEN Data(p) ELSE view[p]]
          /\ known' = known \cup Range
      BY <1>17, <2>6 DEF DirectDone, Written
    <3>2. DirtyPages = {} /\ WipedPages = {}
      BY <2>1, <2>6, NoMarks DEF Flow
    <3>3. \A p \in Range \ spared : mem[p] = Data(p)
      BY <2>1, <2>5, <2>6 DEF Loops
    <3>4. ASSUME NEW p \in (known \cup Range) \ spared PROVE Cached(p) = view'[p]
      <4>1. p \in Page
        BY <2>5 DEF TypeOK
      <4>2. p \notin Range => Cached(p) = view[p]
        BY <2>2, <3>4 DEF Kept
      <4>. QED BY <3>1, <3>2, <3>3, <4>1, <4>2 DEF Cached
    <3>. QED BY <2>1, <2>2, <2>3, <3>1, <3>2, <3>4 DEF Kept
  <2>7. CASE call.fn = "erase"
    <3>1. /\ view' = [p \in Page |-> IF p \in Range THEN Erased ELSE view[p]]
          /\ known' = known \cup Range
      BY <1>17, <2>7 DEF DirectDone, Cleared
    <3>2. Range \cap DirtyPages = {} /\ WipedPages = {}
      BY <2>1, <2>7, NoMarks DEF Flow, Asked, Marks
    <3>3. \A p \in Range \ spared : mem[p] = Erased
      BY <2>1, <2>5, <2>7, LeftInCall
    <3>4. ASSUME NEW p \in (known \cup Range) \ spared PROVE Cached(p) = view'[p]
      <4>1. p \in Page
        BY <2>5 DEF TypeOK
      <4>2. p \notin Range => Cached(p) = view[p]
        BY <2>2, <3>4 DEF Kept
      <4>. QED BY <3>1, <3>2, <3>3, <4>1, <4>2 DEF Cached
    <3>5. ASSUME NEW p \in ((known \cup Range) \ spared) \cap DirtyPages
          PROVE  Cached(p) \subseteq mem[p]
      BY <2>2, <3>2, <3>5 DEF Kept
    <3>. QED BY <2>1, <2>2, <2>3, <3>1, <3>4, <3>5 DEF Kept
  <2>8. CASE call.fn = "erasechip"
    <3>1. view' = [p \in Page |-> Erased] /\ known' = Page \ DirtyPages
      BY <1>17, <2>8 DEF DirectDone
    <3>2. Range = Page
      <4>1. call.addr = 0 /\ call.len = TotalSize
        BY <2>4, <2>8, CallIs
      <4>2. \A p \in Page : 0 <= At(p) /\ At(p) < 0 + TotalSize
        <5>1. \A p \in Page : p \in Int
          BY PageAddr
        <5>. QED BY <5>1, PageIs, Sizes
      <4>. QED BY <4>1, <4>2, PagesOfIs DEF Range
    <3>3. \A p \in Page \ spared : mem[p] = Erased
      BY <2>1, <2>5, <2>8, <3>2, LeftInCall
    <3>4. \A p \in Page \ (DirtyPages \cup spared) : Cached(p) = Erased
      BY <3>3 DEF Cached
    <3>. QED BY <2>1, <2>2, <2>3, <3>1, <3>4 DEF Kept
  <2>. QED BY <2>4, <2>6, <2>7, <2>8
<1>18. CASE EraseIgnored
  <2>1. UNCHANGED <<mem, win, buf, dirty, wiped, lastWrite, view, known>> /\ spared' = Page
        /\ Erasing /\ pc' = pc /\ call' = call
    BY <1>18 DEF EraseIgnored, cache
  <2>2. Sure' = {}
    <3>1. known \subseteq Page
      BY DEF TypeOK
    <3>2. Range' \subseteq Page
      BY <2>1, PagesOfIs DEF Range
    <3>. QED BY <2>1, <3>1, <3>2 DEF Sure
  <2>. QED BY <1>0, <2>1, <2>2 DEF Erasing
<1>. QED BY <1>1, <1>2, <1>3, <1>4, <1>5, <1>6, <1>7, <1>8, <1>9, <1>10, <1>11, <1>12,
            <1>13, <1>14, <1>15, <1>16, <1>17, <1>18 DEF Next

-----------------------------------------------------------------------------
(* What the marks say of the calls since the last sync.                    *)

LEMMA MarksStep == TypeOK /\ Flow /\ Loops /\ Marks /\ [Next]_vars => Marks'
<1>. SUFFICES ASSUME TypeOK, Flow, Loops, Marks, [Next]_vars PROVE Marks'
  OBVIOUS
<1>. USE SameMarks
<1>0. ASSUME UNCHANGED <<win, dirty, wiped, lastWrite, fresh, cleared, meta>> PROVE Marks'
  BY <1>0 DEF Marks, PageAt
<1>1. CASE UNCHANGED vars
  BY <1>0, <1>1 DEF vars, cache, history
<1>2. ASSUME NEW c \in Calls, Refuse(c) PROVE Marks'
  BY <1>0, <1>2 DEF Refuse, cache, history
<1>3. ASSUME NEW c \in Calls, Begin(c) PROVE Marks'
  BY <1>0, <1>3 DEF Begin, cache
<1>4. CASE Erase
  BY <1>0, <1>4 DEF Erase, cache, history
<1>5. CASE EraseFails
  BY <1>0, <1>5 DEF EraseFails, Fails, cache, history
<1>6. CASE Write
  BY <1>0, <1>6 DEF Write, cache, history
<1>7. CASE WriteFails
  BY <1>0, <1>7 DEF WriteFails, Fails, cache, history
<1>8. CASE PickRun
  BY <1>0, <1>8 DEF PickRun, cache, history
<1>9. CASE ErasesFlushed
  <2>1. UNCHANGED <<win, dirty, lastWrite, fresh, cleared, meta>> /\ wiped' = {}
    BY <1>9 DEF ErasesFlushed, history
  <2>2. WipedPages' = {} /\ DirtyPages' = DirtyPages
    BY <2>1 DEF WipedPages
  <2>. QED BY <2>1, <2>2 DEF Marks, PageAt
<1>10. CASE WritesFlushed
  <2>1. UNCHANGED <<wiped, fresh, cleared, meta>> /\ dirty' = {} /\ wiped = {}
    BY <1>10 DEF WritesFlushed, history, Flow
  <2>2. WipedPages' = {} /\ DirtyPages' = {}
    BY <2>1 DEF WipedPages, DirtyPages
  <2>. QED BY <2>1, <2>2 DEF Marks
<1>11. CASE ServeWrite
  <2>1. /\ pc = "serve" /\ call.fn = "write" /\ win' = Window /\ UNCHANGED <<wiped, cleared>>
        /\ dirty' = dirty \cup {p - (Window \div PageSize) : p \in Range}
        /\ lastWrite' = IF call.len > 0 THEN LastPage - (Window \div PageSize) ELSE lastWrite
        /\ fresh' = fresh \cup Range
        /\ meta' = IF call.len > 0 THEN LastPage ELSE meta
    BY <1>11 DEF ServeWrite, Written
  <2>2. DirtyPages' = DirtyPages \cup Range /\ WipedPages' = WipedPages
    BY <2>1, Marking
  <2>3. ASSUME dirty' # {} PROVE meta' = PageAt(lastWrite)'
    <3>1. CASE call.len > 0
      <4>1. LastPage \in Range
        BY <2>1, <3>1, ServeIs
      <4>2. Slot(Window, LastPage - (Window \div PageSize)) = LastPage
        BY <2>1, <4>1, Marking
      <4>. QED BY <2>1, <3>1, <4>2 DEF PageAt, Slot
    <3>2. CASE ~(call.len > 0)
      <4>1. call.len = 0
        BY <2>1, <3>2, CallIs DEF Flow
      <4>2. dirty # {}
        BY <2>1, <2>3, <4>1, ServeIs
      <4>3. win = Window
        BY <2>1, <4>2, ServeIs DEF TypeOK
      <4>. QED BY <2>1, <3>2, <4>2, <4>3 DEF Marks, PageAt
    <3>. QED BY <3>1, <3>2
  <2>. QED BY <2>1, <2>2, <2>3 DEF Marks
<1>12. CASE ServeErase
  <2>1. /\ pc = "serve" /\ call.fn = "erase" /\ win' = Window
        /\ UNCHANGED <<dirty, lastWrite, fresh, meta>> /\ cleared' = cleared \cup Range
    BY <1>12 DEF ServeErase, Cleared
  <2>2. DirtyPages' = DirtyPages /\ WipedPages' = WipedPages \cup Range
    BY <1>12, <2>1, Marking, MarkingErase
  <2>3. dirty # {} => win = Window
    BY <2>1, ServeIs DEF TypeOK
  <2>. QED BY <2>1, <2>2, <2>3 DEF Marks, PageAt
<1>13. CASE ServeRead
  BY <1>0, <1>13 DEF ServeRead, cache, history
<1>14. CASE ServeSync
  <2>1. dirty' = {} /\ wiped' = {}
    BY <1>14 DEF ServeSync, Flow, cache
  <2>2. WipedPages' = {} /\ DirtyPages' = {}
    BY <2>1 DEF WipedPages, DirtyPages
  <2>. QED BY <2>1, <2>2 DEF Marks
<1>15. CASE DirectRead
  BY <1>0, <1>15 DEF DirectRead, cache, history
<1>16. CASE ReadFails
  BY <1>0, <1>16 DEF ReadFails, Fails, cache, history
<1>17. CASE DirectDone
  <2>1. UNCHANGED <<win, dirty, wiped, lastWrite>> /\ pc = "direct"
    BY <1>17 DEF DirectDone, cache
  <2>2. DirtyPages' = DirtyPages /\ WipedPages' = WipedPages
        /\ PageAt(lastWrite)' = PageAt(lastWrite)
    BY <2>1 DEF PageAt
  <2>3. call.fn \in {"write", "erase", "erasechip"}
    BY <1>17, <2>1, CallIs DEF DirectDone, Flow
  <2>4. CASE call.fn = "write"
    <3>1. dirty = {} /\ fresh \subseteq fresh' /\ UNCHANGED cleared
      BY <1>17, <2>1, <2>4 DEF DirectDone, Written, Flow
    <3>. QED BY <2>1, <2>2, <3>1 DEF Marks
  <2>5. CASE call.fn = "erase"
    <3>1. cleared \subseteq cleared' /\ UNCHANGED <<fresh, meta>>
      BY <1>17, <2>5 DEF DirectDone, Cleared
    <3>. QED BY <2>1, <2>2, <3>1 DEF Marks
  <2>6. CASE call.fn = "erasechip"
    <3>1. fresh' = DirtyPages /\ cleared' = WipedPages /\ UNCHANGED meta
      BY <1>17, <2>6 DEF DirectDone
    <3>. QED BY <2>1, <2>2, <3>1 DEF Marks
  <2>. QED BY <2>3, <2>4, <2>5, <2>6
<1>18. CASE EraseIgnored
  BY <1>0, <1>18 DEF EraseIgnored, cache
<1>. QED BY <1>1, <1>2, <1>3, <1>4, <1>5, <1>6, <1>7, <1>8, <1>9, <1>10, <1>11, <1>12,
            <1>13, <1>14, <1>15, <1>16, <1>17, <1>18 DEF Next

-----------------------------------------------------------------------------
(* The theorems.                                                           *)

LEMMA InvStep == Inv /\ [Next]_vars => Inv'
BY TypeStep, FlowStep, AskedStep, LoopsStep, KeptStep, MarksStep DEF Inv

LEMMA InvCorrect == Spec => []Inv
BY InvInit, InvStep, PTL DEF Spec

\* Every variable keeps its type, whatever calls are made and fail, and marks exist only
\* with a window of the flash (cache.c:74-107 gives the bitmaps no bit outside it).
THEOREM TypeCorrect == Spec => []TypeOK
<1>1. Inv => TypeOK
  BY DEF Inv
<1>. QED BY <1>1, InvCorrect, PTL

\* Flash and cache together always hold what the callers' successful calls left, also
\* half way through a flush, after one that failed, and across windows (cache.c:210-290),
\* but for a chip erase that met a locked chip and erased nothing (core.c:728), which
\* ChipEraseErases shows.
THEOREM StoredIsKeptCorrect == Spec => []StoredIsKept
<1>1. Inv => StoredIsKept
  BY DEF Inv, Kept, Sure, Trusted, StoredIsKept
<1>. QED BY <1>1, InvCorrect, PTL

\* What was synced is on the flash whenever the power goes (Kconfig:58-64), with the
\* same exception.
THEOREM SyncedOnFlashCorrect == Spec => []SyncedOnFlash
<1>1. Inv => SyncedOnFlash
  BY DEF Inv, Kept, Sure, Marks, Cached, Trusted, SyncedOnFlash
<1>. QED BY <1>1, InvCorrect, PTL

\* What a read delivers is what flash and cache hold.
LEMMA GotIs ==
  ASSUME TypeOK, Flow, pc # "idle", NEW pages, NEW p \in Range
  PROVE  Got(pages)[p - (call.addr \div PageSize)] = pages[p]
<1>. DEFINE f == call.addr \div PageSize
<1>1. p - f \in 0 .. (call.len \div PageSize) - 1 /\ p \in Page
  BY CallIs DEF Flow, Range
<1>2. f \in Nat /\ p \in Nat
  <2>1. /\ call.addr \in Nat /\ call.len \in Nat /\ call.addr + call.len <= TotalSize
        /\ Divides(PageSize, call.addr) /\ Divides(PageSize, call.len)
    BY CallIs DEF Flow
  <2>. QED BY <1>1, <2>1, PageSpan, PageIs
<1>. HIDE DEF f
<1>3. f + (p - f) = p
  BY <1>2
<1>. QED BY <1>1, <1>3 DEF Got, f

\* A read that succeeds returns what the calls before it left there, whatever part of it
\* the cache, a block marked as erased or the flash gives (cache.c:373-449), with the same
\* exception.
THEOREM ReadAnswerCorrect == Spec => []ReadAnswer
<1>1. Init => ReadAnswer
  BY DEF Init, ReadAnswer
<1>2. Inv /\ ReadAnswer /\ [Next]_vars => ReadAnswer'
  <2>. SUFFICES ASSUME TypeOK, Flow, Kept, ReadAnswer, [Next]_vars PROVE ReadAnswer'
    BY DEF Inv
  <2>. USE SameCall
  <2>0. pc' # "idle" \/ call'.fn # "read" \/ result' # "ok" => ReadAnswer'
    BY DEF ReadAnswer
  <2>1. CASE UNCHANGED vars
    BY <2>1 DEF vars, answer, history, ReadAnswer, Trusted
  <2>2. ASSUME NEW c \in Calls, Refuse(c) PROVE ReadAnswer'
    BY <2>0, <2>2 DEF Refuse
  <2>3. ASSUME NEW c \in Calls, Begin(c) PROVE ReadAnswer'
    BY <2>0, <2>3 DEF Begin, AfterFlush, Enter
  <2>4. CASE Erase
    BY <2>0, <2>4 DEF Erase, Erasing
  <2>5. CASE EraseFails
    BY <2>0, <2>5 DEF EraseFails, Fails, Enter
  <2>6. CASE Write
    BY <2>0, <2>6 DEF Write, Programming
  <2>7. CASE WriteFails
    BY <2>0, <2>7 DEF WriteFails, Fails, Enter
  <2>8. CASE PickRun
    BY <2>0, <2>8 DEF PickRun
  <2>9. CASE ErasesFlushed
    BY <2>0, <2>9 DEF ErasesFlushed, AfterFlush, Enter
  <2>10. CASE WritesFlushed
    BY <2>0, <2>10 DEF WritesFlushed, AfterFlush, Enter
  <2>11. CASE ServeWrite
    BY <2>0, <2>11 DEF ServeWrite, Done
  <2>12. CASE ServeErase
    BY <2>0, <2>12 DEF ServeErase, Done
  <2>13. CASE ServeRead
    <3>1. pc = "serve" /\ rbuf' = Got([p \in Page |-> Cached(p)]) /\ UNCHANGED <<call, view, known, spared>>
      BY <2>13 DEF ServeRead, Done, history
    <3>2. ASSUME NEW p \in Range \cap Trusted PROVE rbuf'[p - (call.addr \div PageSize)] = view[p]
      <4>1. p \in Page /\ Cached(p) = view[p]
        BY DEF Kept, Sure, Trusted, TypeOK
      <4>2. rbuf'[p - (call.addr \div PageSize)] = [q \in Page |-> Cached(q)][p]
        BY <3>1, GotIs
      <4>. QED BY <4>1, <4>2
    <3>. QED BY <3>1, <3>2 DEF ReadAnswer, Trusted
  <2>14. CASE ServeSync
    BY <2>0, <2>14 DEF ServeSync, Done
  <2>15. CASE DirectRead
    <3>1. CASE call.len = 0
      BY <2>0, <2>15, <3>1 DEF DirectRead
    <3>2. CASE call.len # 0
      <4>1. pc = "direct" /\ call.fn = "read" /\ rbuf' = Got(mem) 
            /\ UNCHANGED <<call, view, known, spared>>
        BY <2>15, <3>2 DEF DirectRead, Done, history
      <4>2. ASSUME NEW p \in Range \cap Trusted
            PROVE  rbuf'[p - (call.addr \div PageSize)] = view[p]
        <5>1. Cached(p) = view[p] /\ Cached(p) = mem[p]
          BY <4>1 DEF Kept, Sure, Trusted, Flow, Cached
        <5>2. rbuf'[p - (call.addr \div PageSize)] = mem[p]
          BY <4>1, GotIs
        <5>. QED BY <5>1, <5>2
      <4>. QED BY <4>1, <4>2 DEF ReadAnswer, Trusted
    <3>. QED BY <3>1, <3>2
  <2>16. CASE ReadFails
    BY <2>0, <2>16 DEF ReadFails, Fails, Enter
  <2>17. CASE DirectDone
    BY <2>0, <2>17 DEF DirectDone, Done
  <2>18. CASE EraseIgnored
    BY <2>0, <2>18 DEF EraseIgnored, Erasing
  <2>. QED BY <2>1, <2>2, <2>3, <2>4, <2>5, <2>6, <2>7, <2>8, <2>9, <2>10, <2>11, <2>12,
              <2>13, <2>14, <2>15, <2>16, <2>17, <2>18 DEF Next
<1>. QED BY <1>1, <1>2, InvCorrect, PTL DEF Spec

\* When the flash starts to take the page written last, it has every other page written
\* since the last sync (cache.c:353-358), but for pages a chip erase has left as they were.
THEOREM MetaLastCorrect == Spec => MetaLast
<1>1. Inv /\ [Next]_vars =>
        (mem'[meta] # mem[meta] /\ Programming =>
           \A p \in (fresh \cap Trusted) \ {meta} : mem[p] = view[p])
  <2>. SUFFICES ASSUME TypeOK, Flow, Loops, Kept, Marks, [Next]_vars,
                       mem'[meta] # mem[meta], Programming,
                       NEW p \in (fresh \cap Trusted) \ {meta}
                PROVE  mem[p] = view[p]
    BY DEF Inv
  <2>0. pc # "idle" /\ p \in Sure /\ p \in Page /\ Cached(p) = view[p] /\ meta \in Page
    BY DEF Programming, Sure, Trusted, Kept, TypeOK
  <2>1. CASE pc # "flushwrite"
    <3>1. dirty = {} /\ wiped = {}
      BY <2>1 DEF Programming, Flow
    <3>. QED BY <2>0, <3>1, NoMarks DEF Cached
  <2>2. CASE pc = "flushwrite"
    <3>1. WipedPages = {}
      BY <2>2, NoMarks DEF Flow
    <3>2. CASE p \notin DirtyPages
      BY <2>0, <3>1, <3>2 DEF Cached
    <3>3. CASE p \in DirtyPages
      <4>. DEFINE i == p - (win \div PageSize)
      <4>1. i \in dirty /\ PageAt(i) = p
        BY <3>3, MarksIs
      <4>2. Pending # {} /\ Program.page = PageAt(Walk(NextStep)) /\ Walk(NextStep) \in dirty
            /\ Program.page \in Page /\ Reaches
        BY <2>2, ProgramIs
      <4>3. Program.page = meta
        <5>1. \/ mem' = [mem EXCEPT ![Program.page] = mem'[Program.page]]
              \/ mem' = mem
          BY <2>2, <4>2 DEF Next, vars, Write, WriteFails, Refuse, Begin, Erase, EraseIgnored,
             EraseFails,
             Erasing, PickRun, ErasesFlushed, WritesFlushed, ServeWrite, ServeErase, ServeRead,
             ServeSync, DirectRead, ReadFails, DirectDone, TypeOK
        <5>. QED BY <2>0, <5>1 DEF TypeOK
      <4>4. meta = PageAt(lastWrite)
        BY <4>1 DEF Marks
      <4>5. Walk(NextStep) = lastWrite
        <5>1. win \in Nat /\ Divides(CacheSize, win) /\ win < TotalSize
          BY <4>1, MarksIs
        <5>2. win \div PageSize \in Nat
          BY <5>1, WindowIs
        <5>3. lastWrite \in Int /\ Walk(NextStep) \in Int
          <6>1. lastWrite \in 0 .. PageCnt - 1 /\ Walk(NextStep) \in 0 .. PageCnt - 1
            BY <4>2 DEF TypeOK
          <6>. QED BY <6>1
        <5>4. (win \div PageSize) + Walk(NextStep) = (win \div PageSize) + lastWrite
          BY <4>2, <4>3, <4>4 DEF PageAt
        <5>. QED BY <5>2, <5>3, <5>4
      <4>6. NextStep = PageCnt - 1
        <5>1. NextStep \in 0 .. PageCnt - 1 /\ PageCnt - 1 \in 0 .. PageCnt - 1
          BY <4>2, NextStepIs, Counts DEF TypeOK
        <5>. QED BY <4>5, <5>1, WalkIs DEF TypeOK
      <4>7. Walked(i)
        <5>. SUFFICES ASSUME NEW k \in step .. PageCnt - 1, Walk(k) = i PROVE FALSE
          BY DEF Walked
        <5>1. NextStep <= k
          BY <4>1, <4>2, NextStepIs
        <5>2. k = PageCnt - 1
          BY <4>6, <5>1, Counts DEF TypeOK
        <5>3. i = lastWrite
          BY <4>5, <4>6, <5>2
        <5>. QED BY <4>1, <4>4, <5>3
      <4>8. mem[p] = Cached(p)
        BY <2>0, <2>2, <3>3, <4>7, WalkDone
      <4>. QED BY <2>0, <4>8
    <3>. QED BY <3>2, <3>3
  <2>. QED BY <2>1, <2>2
<1>. QED BY <1>1, InvCorrect, PTL DEF Spec, MetaLast
-----------------------------------------------------------------------------
(* Every call winds down.                                                  *)

\* The steps for n blocks, and for k of them.
RunLess(n, k) ==
  /\ RunSteps(n) \in Nat /\ RunSteps(k) \in Nat
  /\ k < n => RunSteps(n) >= RunSteps(k) + CacheSize + 1

LEMMA RunsLess == ASSUME NEW n \in Nat, NEW k \in 0 .. n PROVE RunLess(n, k)
<1>. DEFINE w == CacheSize + 1
            d == n - k
<1>1. w \in Nat /\ k \in Nat /\ d \in Nat /\ n = k + d
  BY Sizes
<1>. HIDE DEF w, d
<1>2. n * w = k * w + d * w /\ k * w \in Nat /\ d * w \in Nat
  BY <1>1
<1>3. d > 0 => d * w >= w
  <2>1. d > 0 => d * w = (d - 1) * w + w /\ (d - 1) * w \in Nat
    BY <1>1
  <2>. QED BY <1>1, <2>1
<1>4. RunSteps(n) = n * w /\ RunSteps(k) = k * w
  BY DEF RunSteps, w
<1>5. k < n => RunSteps(n) >= RunSteps(k) + w
  BY <1>1, <1>2, <1>3, <1>4
<1>6. RunSteps(k) + w = RunSteps(k) + CacheSize + 1
  BY <1>2, <1>4, Sizes DEF w
<1>. QED BY <1>1, <1>2, <1>4, <1>5, <1>6 DEF RunLess

\* StepsLeft by the place, for this state and, primed, for the next.
StepsAt ==
  /\ pc = "idle" => StepsLeft = 0
  /\ pc = "serve" => StepsLeft = 1
  /\ pc = "direct" => StepsLeft = 1 + len
  /\ pc = "flushwrite" => StepsLeft = 2 + TotalSize + (PageCnt - step)
  /\ pc = "flusherase" =>
       StepsLeft = 3 + TotalSize + PageCnt + RunSteps(BlkCnt - step) + len

LEMMA StepsAre == StepsAt
BY DEF StepsAt, StepsLeft

LEMMA StepsNext == StepsAt'
BY StepsAre, PTL

\* What is left of the blocks is no negative number of steps.
RunsNat == pc = "flusherase" => BlkCnt - step \in Nat /\ RunSteps(BlkCnt - step) \in Nat

LEMMA RunsAreNat == TypeOK /\ Loops => RunsNat
<1>. SUFFICES ASSUME TypeOK, Loops, pc = "flusherase"
              PROVE  BlkCnt - step \in Nat /\ RunSteps(BlkCnt - step) \in Nat
  BY DEF RunsNat
<1>1. BlkCnt - step \in Nat
  BY Counts DEF TypeOK, Loops
<1>2. RunLess(BlkCnt - step, 0)
  BY <1>1, RunsLess
<1>. QED BY <1>1, <1>2 DEF RunLess

\* A step of a call leaves fewer steps.
LEMMA WindStep ==
  ASSUME Inv, Inv', [Next]_vars, vars' # vars, pc # "idle"
  PROVE  StepsLeft' \in 0 .. StepsLeft - 1
<1>1. /\ step \in 0 .. PageCnt /\ step' \in 0 .. PageCnt
      /\ addr \in Nat /\ len \in 0 .. TotalSize /\ len' \in 0 .. TotalSize
  BY DEF Inv, TypeOK
<1>2. PageCnt \in Nat /\ BlkCnt \in Nat /\ TotalSize \in Nat /\ CacheSize \in Nat
  BY Counts, Sizes
<1>3. StepsAt /\ StepsAt'
  BY StepsAre, StepsNext
<1>4. RunsNat
  BY RunsAreNat DEF Inv
<1>5. CASE Erase
  <2>1. EraseUnit \in Nat \ {0} /\ EraseUnit <= len
    BY <1>5, EraseIs DEF Inv, Erase
  <2>2. /\ pc \in {"flusherase", "direct"} /\ pc' = pc /\ step' = step
        /\ len' = len - EraseUnit
    BY <1>5 DEF Erase, Erasing
  <2>. QED BY ONLY <1>1, <1>2, <1>3, <1>4, <2>1, <2>2 DEF StepsAt, RunsNat
<1>12. CASE EraseIgnored
  <2>1. EraseUnit \in Nat \ {0} /\ EraseUnit <= len
    BY <1>12, EraseIs DEF Inv, EraseIgnored
  <2>2. /\ pc \in {"flusherase", "direct"} /\ pc' = pc /\ step' = step
        /\ len' = len - EraseUnit
    BY <1>12 DEF EraseIgnored, Erasing
  <2>. QED BY ONLY <1>1, <1>2, <1>3, <1>4, <2>1, <2>2 DEF StepsAt, RunsNat
<1>6. CASE Fails
  <2>1. pc \in {"serve", "direct"} \cup Flushing
    BY DEF Inv, TypeOK, Flushing
  <2>2. pc' = "idle" \/ (pc \in Flushing /\ pc' = "direct")
    BY <1>6, <2>1 DEF Fails, Enter, Inv, Flow
  <2>. QED BY ONLY <1>1, <1>2, <1>3, <1>4, <2>1, <2>2 DEF StepsAt, RunsNat, Flushing
<1>7. CASE Write
  <2>1. CASE pc = "flushwrite"
    <3>1. NextStep \in step .. PageCnt - 1 /\ step' = NextStep + 1 /\ pc' = pc
      BY <1>7, <2>1, NextStepIs DEF Write, Programming, Inv
    <3>. QED BY ONLY <1>1, <1>2, <1>3, <2>1, <3>1 DEF StepsAt
  <2>2. CASE pc = "direct"
    <3>1. len' = len - PageSize /\ pc' = pc
      BY <1>7, <2>2 DEF Write
    <3>. QED BY ONLY <1>1, <1>2, <1>3, <2>2, <3>1, Sizes DEF StepsAt
  <2>. QED BY <1>7, <2>1, <2>2 DEF Write, Programming
<1>8. CASE PickRun
  <2>1. PICK first \in step .. BlkCnt - 1, last \in step .. BlkCnt - 1 :
          /\ first <= last /\ len' = (last - first + 1) * EraseSize /\ step' = last + 1
    BY <1>8 DEF PickRun
  <2>2. pc = "flusherase" /\ pc' = pc /\ len = 0
    BY <1>8 DEF PickRun
  <2>3. len' <= CacheSize
    <3>. DEFINE n == last - first + 1
    <3>1. n \in Int /\ n <= BlkCnt /\ len' = EraseSize * n
      BY <1>1, <1>2, <2>1, Sizes
    <3>. HIDE DEF n
    <3>2. EraseSize * n <= EraseSize * BlkCnt
      BY <1>2, <3>1, Sizes, TimesOrder
    <3>. QED BY <3>1, <3>2, Counts
  <2>4. BlkCnt - step' \in 0 .. BlkCnt - step /\ BlkCnt - step' < BlkCnt - step
        /\ BlkCnt - step \in Nat
    BY <1>1, <1>2, <2>1
  <2>5. RunLess(BlkCnt - step, BlkCnt - step')
    BY ONLY <2>4, RunsLess
  <2>6. /\ RunSteps(BlkCnt - step) \in Nat /\ RunSteps(BlkCnt - step') \in Nat
        /\ RunSteps(BlkCnt - step) >= RunSteps(BlkCnt - step') + CacheSize + 1
    BY <2>4, <2>5 DEF RunLess
  <2>. QED BY ONLY <1>1, <1>2, <1>3, <2>2, <2>3, <2>6 DEF StepsAt
<1>9. CASE ErasesFlushed
  <2>1. pc = "flusherase" /\ step' = 0 /\ pc' \in {"flushwrite", "direct", "serve"}
    BY <1>9 DEF ErasesFlushed, AfterFlush, Enter
  <2>. QED BY ONLY <1>1, <1>2, <1>3, <1>4, <2>1 DEF StepsAt, RunsNat
<1>10. CASE WritesFlushed
  <2>1. pc = "flushwrite" /\ pc' \in {"direct", "serve"}
    BY <1>10 DEF WritesFlushed, AfterFlush, Enter
  <2>. QED BY ONLY <1>1, <1>2, <1>3, <2>1 DEF StepsAt
<1>11. CASE ServeWrite \/ ServeErase \/ ServeRead \/ ServeSync \/ DirectRead \/ DirectDone
  <2>1. pc \in {"serve", "direct"} /\ pc' = "idle"
    BY <1>11 DEF ServeWrite, ServeErase, ServeRead, ServeSync, DirectRead, DirectDone, Done
  <2>. QED BY ONLY <1>1, <1>2, <1>3, <2>1 DEF StepsAt
<1>. QED BY <1>5, <1>6, <1>7, <1>8, <1>9, <1>10, <1>11, <1>12
         DEF Next, Refuse, Begin, EraseFails, WriteFails, ReadFails

\* No call of the cache goes round for ever: every page programmed, unit erased, run
\* picked or flush ended brings it nearer its end, whatever fails, for every geometry.
THEOREM CallsWindDownCorrect == Spec => CallsWindDown
<1>1. Inv /\ Inv' /\ [Next]_vars
      => [pc # "idle" => StepsLeft' \in 0 .. StepsLeft - 1]_vars
  BY WindStep
<1>. QED BY <1>1, InvCorrect, PTL DEF Spec, CallsWindDown
=============================================================================
