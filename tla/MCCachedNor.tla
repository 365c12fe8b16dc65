---------------------------- MODULE MCCachedNor ----------------------------
(***************************************************************************)
(* An instance of CachedNor for TLC: three windows, the first and the last *)
(* locked by sectors and the one between as a block, of four erase blocks  *)
(* of two pages; one bit per page.                                         *)
(***************************************************************************)
EXTENDS CachedNor, Sequences

Do(fn, a, n) == [fn |-> fn, addr |-> a, len |-> n, data |-> <<>>]
Store(a, d) == [Do("write", a, PageSize * Len(d)) EXCEPT
                  !.data = [i \in 0 .. Len(d) - 1 |-> d[i + 1]]]

\* Pages of one block and of two, in every window and over a window's end; erases with
\* a gap, of two blocks at once, of a whole window, over a window's end and of
\* everything; reads over cached, erased and other pages; no bytes, also at the end of
\* the flash; a misaligned address.
CacheCalls ==
  {Store(0, <<{}>>), Store(2, <<{}, Bits>>), Store(14, <<{}, {}>>),
   Store(36, <<{}>>), Store(TotalSize, <<>>), Do("erase", 2, 4),
   Do("erase", 0, 4), Do("erase", 8, 8), Do("erase", 32, 16), Do("erase", 24, 12),
   Do("erase", 0, TotalSize), Do("erasechip", 0, TotalSize),
   Do("read", 0, 16), Do("read", 14, 6), Do("read", 16, 0), Do("sync", 0, 0)}

CacheFlags == {"4K", "32K", "64K"}

\* Erased but for pages the calls above erase.
Used == [p \in Page |-> IF p \in {1, 13, 17, 21} THEN {} ELSE Bits]
CacheArrays == {Used}
=============================================================================
