----------------------------- MODULE MCMmHeap ------------------------------
(***************************************************************************)
(* An instance of MmHeap for TLC, in words of four bytes: the granule and  *)
(* the nodes of the build, a heap of 56 words whose flag bit is at 32      *)
(* words, as the real one of 57808 bytes has it at 32768.                  *)
(***************************************************************************)
EXTENDS MmHeap

\* Nothing, the largest request of one granule, the smallest of two, half of a class and
\* half of the heap.
HeapRequests == {0, 3, 4, 15, 27}
=============================================================================
