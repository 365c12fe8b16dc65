----------------------------- MODULE MCFlashApp -----------------------------
(***************************************************************************)
(* An instance of FlashApp for TLC: a chip of two erase units of two pages *)
(* each, one bit per cell, a checksum buffer shorter than the longest      *)
(* range summed.                                                           *)
(***************************************************************************)
EXTENDS FlashApp

One == Bits
Zero == {}
Value == [c \in Cell |-> IF c = One THEN 1 ELSE 0]

Do(f, a, n) == [func |-> f, dst |-> a, length |-> n, checksum |-> 0, data |-> <<>>]
Write(a, d, n) == [Do(1, a, n) EXCEPT !.data = [i \in 0 .. n - 1 |-> d[i + 1]]]
Check(a, n, s) == [Do(6, a, n) EXCEPT !.checksum = s]

\* A blank range, a range over a page's end, ranges summed in one and in two turns,
\* erases of one unit and of less, and each of the other functions.
AppCommands ==
  {Do(0, 0, 0), Do(7, 0, 0), Do(5, 0, 0), Do(4, 0, 0),
   Write(1, <<One, Zero>>, 2), Write(4, <<One, One>>, 2),
   Do(2, 1, 3), Do(3, 0, 4), Do(3, 4, 2), Check(0, 3, 2), Check(0, 2, 2)}

AppCalls ==
  {InitCall, DeinitCall, EraseChipCall} \cup
  {ReadCall(d.dst + k, n) : d \in {e \in Commands : e.func \in {2, 6}},
                            k \in 0 .. CkLen, n \in 0 .. RwLen} \cup
  {EraseCall(d.dst, d.length) : d \in {e \in Commands : e.func = 3}} \cup
  {ProgramCall(d.dst, d.data, d.length) : d \in {e \in Commands : e.func = 1}}

AppFlags == {"4K", "32K", "64K"}
Mixed == [a \in Addr |-> IF a \in {1, 6} THEN Zero ELSE One]
AppArrays == {Mixed}
=============================================================================
