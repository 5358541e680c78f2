---------------------------- MODULE CommandQueue ----------------------------
(***************************************************************************)
(* What the command queue of a player promises its users: a bounded FIFO   *)
(* of commands.  A put on a full queue gives up the oldest command; a      *)
(* search command may overwrite the command at the head when that one is   *)
(* a search too, because only the last position asked for matters.         *)
(* MessagePool, the ring of message.c, implements this specification.      *)
(***************************************************************************)
EXTENDS Naturals, Sequences

CONSTANTS Command,        \* the commands an application can send
          SearchCommand,  \* those of them that are a CMD_SEARCH
          MESSAGE_MAX     \* capacity of the queue

VARIABLE queue

Init == queue = << >>

(* Append c, giving up the oldest command when there is no room. *)
Put(c) ==
  \/ Len(queue) < MESSAGE_MAX /\ queue' = Append(queue, c)
  \/ Len(queue) = MESSAGE_MAX /\ queue' = Append(Tail(queue), c)

(* Replace a search at the head by a later one. *)
Amend(c) ==
  /\ queue # << >>
  /\ Head(queue) \in SearchCommand
  /\ queue' = << c >> \o Tail(queue)

Take ==
  /\ queue # << >>
  /\ queue' = Tail(queue)

Next ==
  \/ \E c \in Command : Put(c)
  \/ \E c \in SearchCommand : Amend(c)
  \/ Take

Spec == Init /\ [][Next]_queue
=============================================================================
