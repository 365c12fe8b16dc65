----------------------------- MODULE MCSpiXfer ------------------------------
(* Instances of SpiXfer for TLC: FIFOs of three bytes, transfers longer and *)
(* shorter than the fill level, with one or both directions.                *)
EXTENDS SpiXfer

MCXfers ==
  {[tx |-> 0, rx |-> 0], [tx |-> 1, rx |-> 2], [tx |-> 5, rx |-> 0], [tx |-> 0, rx |-> 2],
   [tx |-> 2, rx |-> 5]}

OneXfer == {[tx |-> 1, rx |-> 0]}
=============================================================================
