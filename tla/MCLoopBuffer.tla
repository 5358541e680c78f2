---------------------------- MODULE MCLoopBuffer ----------------------------
(* A ring of few bytes, so that it is gone round several times in a title. *)
EXTENDS LoopBuffer

(* A live stream, and a file behind http.  A local file can do less: each  *)
(* of its seeks is one that the http source may make too.                  *)
mcSource == {[streamed |-> TRUE,  slow |-> TRUE, sized |-> FALSE],
             [streamed |-> FALSE, slow |-> TRUE, sized |-> TRUE]}
mcReadSize == {1, 4}
=============================================================================
