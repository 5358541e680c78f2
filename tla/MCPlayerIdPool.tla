--------------------------- MODULE MCPlayerIdPool ---------------------------
(* Instances of PlayerIdPool for TLC.  Threads are interchangeable, and so *)
(* are heap blocks.                                                        *)
EXTENDS PlayerIdPool, TLC

Symmetry == Permutations(Caller) \cup Permutations(Para)
=============================================================================
