------------------------------ MODULE MCSpiNor ------------------------------
(***************************************************************************)
(* Instances of SpiNor for TLC. The sizes keep the ratios that matter: two *)
(* pages in the smallest erase unit, two of each unit in the next larger   *)
(* one, two of the largest in the chip.                                    *)
(***************************************************************************)
EXTENDS SpiNor

Plain(fn) == [fn |-> fn, addr |-> 0, len |-> 0, data |-> <<>>]
Range(fn, a, n) == [fn |-> fn, addr |-> a, len |-> n, data |-> <<>>]
Program(a, d, n) == [fn |-> "program", addr |-> a, len |-> n, data |-> [i \in 0 .. n - 1 |-> d[i + 1]]]

Zero == {}
One == Bits
Mixed == [a \in Addr |-> IF a % 3 = 0 THEN One ELSE Zero]
Clean == [a \in Addr |-> One]

MixedArrays == {Mixed, Clean}
CleanArrays == {Clean}

\* Programs and reads that cross a page, end on a page, or do nothing; erases of one
\* unit, of units of several sizes, of the whole chip; refused erases.
GdCalls ==
  {Plain("init"), Plain("deinit"), Range("read", 1, 4), Range("read", 2, 0),
   Program(1, <<Zero, One, Zero, Zero>>, 4), Program(2, <<One, Zero>>, 2),
   Range("erase", 4, 28), Range("erase", 0, 32), Range("erase", 28, 8),
   Range("erase", 8, 0)}

WinbondCalls ==
  {Plain("init"), Plain("deinit"), Range("read", 3, 3), Program(3, <<Zero, Zero, One>>, 3),
   Range("erase", 8, 12), Range("erase", 4, 6), Range("erase", 2, 4)}

\* An erase whose end exceeds the word.
WrappingCalls == {Plain("init"), Range("erase", 28, 36)}

\* A program call after an initialisation that failed.
LockedCalls == {Plain("init"), Program(2, <<Zero, Zero>>, 2)}

AllFlags == {"4K", "32K", "64K"}
=============================================================================
