---------------------------- MODULE MessagePool -----------------------------
(***************************************************************************)
(* The command ring of a player (amplayer/player/message.c).               *)
(*                                                                         *)
(* Application threads allocate a command and send it; the player thread,  *)
(* its mate thread and player_stop (clear_all_message) take commands out.  *)
(* Every function holds msg_mutex for the whole of its work, so each is    *)
(* one action, except send_message_update, which scans the ring, gives the *)
(* lock up and then calls send_message.  Commands live in heap cells: who  *)
(* may free which cell, and when, is part of the protocol.                 *)
(*                                                                         *)
(* A definition introduced by "Slip:" is a plausible bug, not the code: it *)
(* stands next to the definition it spoils and nothing refers to it.       *)
(***************************************************************************)
EXTENDS Naturals, Sequences

CONSTANTS MESSAGE_MAX,    \* slots of the ring (8 in include/message.h)
          Cell,           \* heap cells message_alloc can hand out
          NoCell,         \* the NULL pointer
          Command,        \* contents of a command
          SearchCommand,  \* those whose ctrl_cmd is CMD_SEARCH
          ProxyCommand,   \* those the mate thread takes for the player
          Sender,         \* application threads
          Reader,         \* the player thread and player_stop
          Mate            \* the mate thread

ASSUME MessagePoolAssumption ==
  /\ MESSAGE_MAX \in Nat \ {0}
  /\ NoCell \notin Cell
  /\ SearchCommand \subseteq Command
  /\ ProxyCommand \subseteq Command \ SearchCommand
  /\ Command # {}
  /\ Mate \notin Reader

VARIABLES
  message_list,       \* the slots
  message_in_index,   \* slot the next command goes to
  message_out_index,  \* slot of the oldest command
  message_num,        \* commands in the ring
  heap,               \* cells allocated and not freed
  content,            \* what is stored in each cell
  sender,             \* where each sender stands: "idle", "scan" or "send"
  sending,            \* the cell a sender has allocated and not given away
  held                \* the cell a reader has taken and not freed

ring == <<message_list, message_in_index, message_out_index, message_num>>
vars == <<ring, heap, content, sender, sending, held>>

Slot == 0 .. MESSAGE_MAX - 1
Consumer == Reader \cup {Mate}

(* The slot n places after slot i, going round. *)
After(i, n) == (i + n) % MESSAGE_MAX

(* The slot of the k-th oldest command, 0 being the oldest. *)
At(k) == After(message_out_index, k)

Init ==
  /\ message_list = [i \in Slot |-> NoCell]
  /\ message_in_index = 0
  /\ message_out_index = 0
  /\ message_num = 0
  /\ heap = {}
  /\ content \in [Cell -> {CHOOSE c \in Command : TRUE}]
  /\ sender = [s \in Sender |-> "idle"]
  /\ sending = [s \in Sender |-> NoCell]
  /\ held = [r \in Consumer |-> NoCell]

(***************************************************************************)
(* message_alloc and the copy player_send_message makes; then              *)
(* send_message_by_pid chooses send_message_update for a search.           *)
(***************************************************************************)
Alloc(s, cell, c) ==
  /\ sender[s] = "idle"
  /\ cell \notin heap
  /\ heap' = heap \cup {cell}
  /\ content' = [content EXCEPT ![cell] = c]
  /\ sending' = [sending EXCEPT ![s] = cell]
  /\ sender' = [sender EXCEPT ![s] = IF c \in SearchCommand THEN "scan" ELSE "send"]
  /\ UNCHANGED <<ring, held>>

(* Slip: whatever waits at the head is taken for a search. *)
ScanFindsAny == message_num > 0

(* The loop of send_message_update never moves its index, so whatever the  *)
(* length of the ring it looks at the oldest command only.                 *)
ScanFinds ==
  /\ message_num > 0
  /\ content[message_list[message_out_index]] \in SearchCommand

(* Slip: the cell in the ring is freed instead of the new one. *)
UpdateFreesOld(s) ==
  /\ sender[s] = "scan"
  /\ ScanFinds
  /\ content' = [content EXCEPT ![message_list[message_out_index]] = content[sending[s]]]
  /\ heap' = heap \ {message_list[message_out_index]}
  /\ sending' = [sending EXCEPT ![s] = NoCell]
  /\ sender' = [sender EXCEPT ![s] = "idle"]
  /\ UNCHANGED <<ring, held>>

(* send_message_update, a search is found: overwrite it, free the new one. *)
Update(s) ==
  /\ sender[s] = "scan"
  /\ ScanFinds
  /\ content' = [content EXCEPT ![message_list[message_out_index]] = content[sending[s]]]
  /\ heap' = heap \ {sending[s]}
  /\ sending' = [sending EXCEPT ![s] = NoCell]
  /\ sender' = [sender EXCEPT ![s] = "idle"]
  /\ UNCHANGED <<ring, held>>

(* send_message_update, none is found: unlock, and go on to send_message.  *)
ScanFails(s) ==
  /\ sender[s] = "scan"
  /\ ~ScanFinds
  /\ sender' = [sender EXCEPT ![s] = "send"]
  /\ UNCHANGED <<ring, heap, content, sending, held>>

(* What both branches of send_message do last. *)
Deposit(s) ==
  /\ message_list' = [message_list EXCEPT ![message_in_index] = sending[s]]
  /\ message_in_index' = After(message_in_index, 1)
  /\ sending' = [sending EXCEPT ![s] = NoCell]
  /\ sender' = [sender EXCEPT ![s] = "idle"]
  /\ UNCHANGED <<content, held>>

(* Slip: one command more than there are slots. *)
SendRoomOneMore(s) ==
  /\ sender[s] = "send"
  /\ message_num <= MESSAGE_MAX
  /\ message_num' = message_num + 1
  /\ UNCHANGED <<message_out_index, heap>>
  /\ Deposit(s)

(* send_message with room in the ring. *)
SendRoom(s) ==
  /\ sender[s] = "send"
  /\ message_num < MESSAGE_MAX
  /\ message_num' = message_num + 1
  /\ UNCHANGED <<message_out_index, heap>>
  /\ Deposit(s)

(* Slip: the oldest command is freed and still counted as the oldest. *)
SendFullKeepsOut(s) ==
  /\ sender[s] = "send"
  /\ message_num >= MESSAGE_MAX
  /\ heap' = heap \ {message_list[message_in_index]}
  /\ UNCHANGED <<message_num, message_out_index>>
  /\ Deposit(s)

(* Slip: the oldest command is given up and not freed. *)
SendFullLeaks(s) ==
  /\ sender[s] = "send"
  /\ message_num >= MESSAGE_MAX
  /\ message_out_index' = After(message_out_index, 1)
  /\ UNCHANGED <<message_num, heap>>
  /\ Deposit(s)

(* send_message on a full ring: the cell in the slot about to be used is   *)
(* freed and message_out_index moves past it.                              *)
SendFull(s) ==
  /\ sender[s] = "send"
  /\ message_num >= MESSAGE_MAX
  /\ heap' = heap \ {message_list[message_in_index]}
  /\ message_out_index' = After(message_out_index, 1)
  /\ UNCHANGED message_num
  /\ Deposit(s)

(* What get_message and get_message_locked do; the slot is not cleared. *)
TakeOldest(r) ==
  /\ message_num > 0
  /\ held[r] = NoCell
  /\ held' = [held EXCEPT ![r] = message_list[message_out_index]]
  /\ message_out_index' = After(message_out_index, 1)
  /\ message_num' = message_num - 1
  /\ UNCHANGED <<message_list, message_in_index, heap, content, sender, sending>>

(* get_message by the player thread, or inside clear_all_message. *)
Get(r) == r \in Reader /\ TakeOldest(r)

(* player_mate_thread_cmd_proxy: under one hold of the lock, peek at the   *)
(* oldest command and take it when it is of a kind the mate handles.       *)
Proxy ==
  /\ message_num > 0
  /\ content[message_list[message_out_index]] \in ProxyCommand
  /\ TakeOldest(Mate)

(* message_free after the command has been handled. *)
Release(r) ==
  /\ held[r] # NoCell
  /\ heap' = heap \ {held[r]}
  /\ held' = [held EXCEPT ![r] = NoCell]
  /\ UNCHANGED <<ring, content, sender, sending>>

Next ==
  \/ \E s \in Sender, cell \in Cell, c \in Command : Alloc(s, cell, c)
  \/ \E s \in Sender : Update(s) \/ ScanFails(s) \/ SendRoom(s) \/ SendFull(s)
  \/ \E r \in Reader : Get(r)
  \/ Proxy
  \/ \E r \in Consumer : Release(r)

Spec == Init /\ [][Next]_vars
-----------------------------------------------------------------------------
(* The cells in the ring, oldest first, and the commands stored in them. *)
WaitingCells == [k \in 1 .. message_num |-> message_list[At(k - 1)]]
Waiting == [k \in 1 .. message_num |-> content[WaitingCells[k]]]
Queued == {WaitingCells[k] : k \in 1 .. message_num}

(* Shape of the state: every variable of the ring, the heap and the        *)
(* threads stays in its range; a sender holds a cell just while it sends.  *)
TypeOK ==
  /\ message_list \in [Slot -> Cell \cup {NoCell}]
  /\ message_in_index \in Slot
  /\ message_out_index \in Slot
  /\ message_num \in 0 .. MESSAGE_MAX
  /\ heap \subseteq Cell
  /\ content \in [Cell -> Command]
  /\ sender \in [Sender -> {"idle", "scan", "send"}]
  /\ sending \in [Sender -> Cell \cup {NoCell}]
  /\ \A s \in Sender : sender[s] = "idle" <=> sending[s] = NoCell
  /\ held \in [Consumer -> Cell \cup {NoCell}]

(* The three counters of message_pool_t, which are kept separately, agree: *)
(* the slot to write is the one just after the newest command.  On a full  *)
(* ring it is therefore the slot of the oldest, which is what lets         *)
(* send_message free message_list[message_in_index].                       *)
IndexesAgree == message_in_index = At(message_num)

(* A command waits in one slot, and is allocated while it waits. *)
QueuedOnce ==
  /\ Queued \subseteq heap
  /\ \A j, k \in 1 .. message_num : WaitingCells[j] = WaitingCells[k] => j = k

(* What a sender is sending is allocated, not yet waiting, and its own. *)
SendersOwn ==
  \A s \in Sender : sending[s] # NoCell =>
    /\ sending[s] \in heap \ Queued
    /\ \A t \in Sender : sending[t] = sending[s] => t = s
    /\ \A r \in Consumer : held[r] # sending[s]

(* What a reader handles is allocated, no longer waiting, and its own. *)
ReadersOwn ==
  \A r \in Consumer : held[r] # NoCell =>
    /\ held[r] \in heap \ Queued
    /\ \A q \in Consumer : held[q] = held[r] => q = r

(* Every command is owned once: a cell is in the ring in one slot, or with *)
(* the one sender that allocated it, or with the one reader that took it,  *)
(* and it is allocated for as long as that lasts.  So nothing is freed     *)
(* twice and no thread reads a freed command after a get.                  *)
OwnedOnce == QueuedOnce /\ SendersOwn /\ ReadersOwn

(* Nothing leaks: a cell that is allocated is in the ring, being sent or   *)
(* being handled, also when the ring overflows or an update replaces one.  *)
NothingLeaks ==
  heap \subseteq Queued \cup {sending[s] : s \in Sender} \cup {held[r] : r \in Consumer}

(* The inductive invariant: all of the above. *)
MessagePoolInv == TypeOK /\ IndexesAgree /\ OwnedOnce /\ NothingLeaks

Abstract == INSTANCE CommandQueue WITH queue <- Waiting

(* The ring implements the bounded FIFO of CommandQueue: commands come out *)
(* in the order they were sent, and only the oldest is ever given up.      *)
IsCommandQueue == Abstract!Spec
=============================================================================
