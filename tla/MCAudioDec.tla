----------------------------- MODULE MCAudioDec -----------------------------
(* A ring of three commands, so that it overflows. *)
EXTENDS AudioDec
=============================================================================
