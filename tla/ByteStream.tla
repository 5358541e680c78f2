----------------------------- MODULE ByteStream -----------------------------
(***************************************************************************)
(* What a buffered stream promises the code that reads it: a cursor over   *)
(* the bytes of the source.  A read delivers the bytes that follow the     *)
(* cursor, all of them, in order and once; the cursor goes elsewhere only  *)
(* while the user is seeking.  A seek by time starts a new title: its      *)
(* bytes are counted from 0 again and are not those of the one before.     *)
(* LoopBuffer, the loop buffer of aviolpbuf.c, implements this.            *)
(***************************************************************************)
EXTENDS Naturals

VARIABLES
  title,  \* how many seeks by time there have been
  at,     \* the cursor
  want,   \* what the user is doing: "idle", "read" or "seek"
  out     \* the bytes delivered by the last read, with their place

Init == title = 0 /\ at = 0 /\ want = "idle" /\ out = << >>

Call ==
  /\ want = "idle"
  /\ want' \in {"read", "seek"}
  /\ out' = << >>
  /\ UNCHANGED <<title, at>>

(* The user is done with the bytes it was given. *)
Forget ==
  /\ want = "idle"
  /\ out' = << >>
  /\ UNCHANGED <<title, at, want>>

(* More bytes reach the user, the last of them perhaps. *)
Deliver ==
  /\ want = "read"
  /\ at' \in Nat /\ at' > at
  /\ out' = [i \in 0 .. at' - at - 1 |-> <<title, at + i>>]
  /\ want' \in {"read", "idle"}
  /\ title' = title

Move ==
  /\ want = "seek"
  /\ at' \in Nat
  /\ title' \in {title, title + 1}
  /\ want' \in {"seek", "idle"}
  /\ out' = out

Return ==
  /\ want' = "idle"
  /\ UNCHANGED <<title, at, out>>

Next == Call \/ Forget \/ Deliver \/ Move \/ Return

Spec == Init /\ [][Next]_<<title, at, want, out>>
=============================================================================
