------------------------------ MODULE MCPlayer ------------------------------
(* Instances of Player for TLC.  Each configuration lets the environment   *)
(* do some of what Chance lists, so that its question has a clean answer.  *)
EXTENDS Player
=============================================================================
