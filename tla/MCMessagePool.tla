---------------------------- MODULE MCMessagePool ---------------------------
(* Instances of MessagePool for TLC: commands, cells and threads are model *)
(* values.  Cells are interchangeable.                                     *)
EXTENDS MessagePool, TLC

Symmetry == Permutations(Cell)
=============================================================================
