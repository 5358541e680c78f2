------------------------- MODULE MessagePoolRefines -------------------------
(***************************************************************************)
(* The ring of message.c implements the bounded FIFO of CommandQueue, for  *)
(* every size of the ring and every set of threads, cells and commands.    *)
(* The lemmas of MessagePoolProof say what a step does to the sequence of  *)
(* waiting cells; here the cells are read through content, and each step   *)
(* is matched with a put, an amend, a take or a stutter of CommandQueue.   *)
(***************************************************************************)
EXTENDS MessagePoolProof

(* A sender that scans for a search has a search to send. *)
Scanning == \A s \in Sender : sender[s] = "scan" => content[sending[s]] \in SearchCommand

LEMMA ScanningInit == Init => Scanning
  BY DEF Init, Scanning

LEMMA ScanningNext == MessagePoolInv /\ Scanning /\ [Next]_vars => Scanning'
  <1> SUFFICES ASSUME MessagePoolInv, Scanning, [Next]_vars,
                      NEW t \in Sender, sender'[t] = "scan"
               PROVE  content'[sending'[t]] \in SearchCommand
    BY DEF Scanning
  <1> USE DEF MessagePoolInv
  <1>1. ASSUME NEW s \in Sender, NEW cell \in Cell, NEW c \in Command, Alloc(s, cell, c)
        PROVE  content'[sending'[t]] \in SearchCommand
    <2>1. CASE t = s
      <3>1. c \in SearchCommand
        BY <1>1, <2>1 DEF Alloc, TypeOK
      <3>2. QED BY <1>1, <2>1, <3>1 DEF Alloc, TypeOK
    <2>2. CASE t # s
      <3>1. sender[t] = "scan" /\ sending'[t] = sending[t]
        BY <1>1, <2>2 DEF Alloc, TypeOK
      <3>2. sending[t] \in heap /\ sending[t] # cell
        BY <1>1, <3>1, SendingIsACell DEF Alloc
      <3>3. QED BY <1>1, <3>1, <3>2 DEF Alloc, TypeOK, Scanning
    <2>3. QED BY <2>1, <2>2
  <1>2. ASSUME NEW s \in Sender, Update(s) PROVE content'[sending'[t]] \in SearchCommand
    <2>1. t # s /\ sender[t] = "scan" /\ sending'[t] = sending[t] /\ sender[s] = "scan"
      BY <1>2 DEF Update, TypeOK
    <2>2. sending[t] \in Cell /\ content[sending[t]] \in SearchCommand
          /\ content[sending[s]] \in SearchCommand
      BY <2>1, SendingIsACell DEF Scanning
    <2>3. QED BY <1>2, <2>1, <2>2 DEF Update, TypeOK
  <1>3. ASSUME NEW s \in Sender, ScanFails(s) \/ SendRoom(s) \/ SendFull(s)
        PROVE  content'[sending'[t]] \in SearchCommand
    BY <1>3 DEF ScanFails, SendRoom, SendFull, Deposit, TypeOK, Scanning
  <1>4. ASSUME NEW r \in Consumer, TakeOldest(r) \/ Release(r)
        PROVE  content'[sending'[t]] \in SearchCommand
    BY <1>4 DEF TakeOldest, Release, Scanning
  <1>5. CASE UNCHANGED vars
    BY <1>5 DEF vars, Scanning
  <1>6. QED BY <1>1, <1>2, <1>3, <1>4, <1>5 DEF Next, Get, Proxy, Consumer
-----------------------------------------------------------------------------
(* Reading the cells: what waits is a sequence of commands. *)
WaitingShape ==
  /\ Waiting \in Seq(Command)
  /\ Len(Waiting) = message_num /\ message_num \in Nat
  /\ \A k \in 1 .. message_num : /\ WaitingCells[k] \in Cell
                                 /\ WaitingCells[k] \in Queued
                                 /\ Waiting[k] = content[WaitingCells[k]]
  /\ \A j, k \in 1 .. message_num : WaitingCells[j] = WaitingCells[k] => j = k
  /\ WaitingCells \in Seq(Cell \cup {NoCell}) /\ Len(WaitingCells) = message_num

LEMMA WaitingIs == MessagePoolInv => WaitingShape
  <1> SUFFICES ASSUME MessagePoolInv PROVE WaitingShape
    OBVIOUS
  <1>1. message_num \in Nat /\ heap \subseteq Cell /\ content \in [Cell -> Command]
    BY MessagePoolAssumption DEF MessagePoolInv, TypeOK
  <1>2. /\ \A k \in 1 .. message_num : WaitingCells[k] \in Queued
        /\ Queued \subseteq heap
        /\ \A j, k \in 1 .. message_num : WaitingCells[j] = WaitingCells[k] => j = k
    BY DEF MessagePoolInv, OwnedOnce, QueuedOnce, Queued
  <1>3. \A k \in 1 .. message_num : WaitingCells[k] \in Cell /\ content[WaitingCells[k]] \in Command
    BY <1>1, <1>2
  <1>4. Waiting \in Seq(Command) /\ Len(Waiting) = message_num
    BY <1>1, <1>3 DEF Waiting
  <1>5. \A k \in 1 .. message_num : Waiting[k] = content[WaitingCells[k]]
    BY DEF Waiting
  <1>6. QED BY <1>1, <1>2, <1>3, <1>4, <1>5, CellsAreASequence DEF MessagePoolInv, WaitingShape

(* A step that leaves the ring and what is stored in it leaves the queue. *)
LEMMA QueueStays ==
  ASSUME MessagePoolInv, UNCHANGED ring,
         \A cell \in Queued : content'[cell] = content[cell]
  PROVE  Waiting' = Waiting
  <1>1. WaitingCells' = WaitingCells /\ message_num' = message_num
    BY RingUnchanged DEF ring
  <1>2. \A k \in 1 .. message_num : WaitingCells[k] \in Queued
    BY WaitingIs DEF WaitingShape
  <1>3. QED BY <1>1, <1>2 DEF Waiting

LEMMA RoomPuts ==
  ASSUME MessagePoolInv, MessagePoolInv', NEW s \in Sender, SendRoom(s)
  PROVE  \E c \in Command : Abstract!Put(c)
  <1> DEFINE e == sending[s]
             old == Waiting
             new == Waiting'
             cells == WaitingCells
  <1>1. e \in Cell /\ content[e] \in Command
    BY SendingIsACell DEF SendRoom, MessagePoolInv, TypeOK
  <1>2. WaitingCells' = Append(cells, e) /\ message_num' = message_num + 1 /\ content' = content
        /\ message_num < MESSAGE_MAX
    BY RoomRing DEF MessagePoolInv, SendRoom, Deposit
  <1>3. /\ old \in Seq(Command) /\ Len(old) = message_num /\ message_num \in Nat
        /\ \A k \in 1 .. message_num : old[k] = content[cells[k]]
        /\ cells \in Seq(Cell \cup {NoCell}) /\ Len(cells) = message_num
    BY WaitingIs DEF WaitingShape
  <1>4. /\ new \in Seq(Command) /\ Len(new) = message_num + 1
        /\ \A k \in 1 .. message_num + 1 : new[k] = content[WaitingCells'[k]]
    <2>1. /\ Waiting' \in Seq(Command)
          /\ Len(Waiting') = message_num'
          /\ \A k \in 1 .. message_num' : Waiting'[k] = content'[WaitingCells'[k]]
      <3>1. WaitingShape'
        BY WaitingIs, PTL
      <3>2. QED BY <3>1 DEF WaitingShape
    <2>2. QED BY <1>2, <2>1
  <1>5. \A k \in 1 .. message_num + 1 :
          Append(cells, e)[k] = IF k = message_num + 1 THEN e ELSE cells[k]
    BY <1>3, AppendIs
  <1>6. new = Append(old, content[e])
    <2> HIDE DEF old, new, cells, e
    <2>1. /\ Append(old, content[e]) \in Seq(Command)
          /\ Len(Append(old, content[e])) = message_num + 1
      BY <1>1, <1>3
    <2>2. \A k \in 1 .. message_num + 1 :
            Append(old, content[e])[k] = IF k = message_num + 1 THEN content[e] ELSE old[k]
      BY <1>3, AppendIs
    <2>3. \A k \in 1 .. message_num + 1 : new[k] = Append(old, content[e])[k]
      BY <1>2, <1>3, <1>4, <1>5, <2>2
    <2>4. QED BY <1>4, <2>1, <2>3, SeqEqual
  <1>7. Abstract!Put(content[e])
    BY <1>2, <1>3, <1>6 DEF Abstract!Put
  <1>8. QED BY <1>1, <1>7

LEMMA FullPuts ==
  ASSUME MessagePoolInv, MessagePoolInv', NEW s \in Sender, SendFull(s)
  PROVE  \E c \in Command : Abstract!Put(c)
  <1> DEFINE e == sending[s]
             old == Waiting
             new == Waiting'
             cells == WaitingCells
             rest == Tail(old)
  <1>1. e \in Cell /\ content[e] \in Command
    BY SendingIsACell DEF SendFull, MessagePoolInv, TypeOK
  <1>2. WaitingCells' = Append(Tail(cells), e) /\ message_num' = message_num /\ content' = content
        /\ message_num = MESSAGE_MAX
    BY FullRing DEF MessagePoolInv, SendFull, Deposit
  <1>3. /\ old \in Seq(Command) /\ Len(old) = message_num /\ message_num \in Nat \ {0}
        /\ \A k \in 1 .. message_num : old[k] = content[cells[k]]
        /\ cells \in Seq(Cell \cup {NoCell}) /\ Len(cells) = message_num
    BY <1>2, WaitingIs, MessagePoolAssumption DEF WaitingShape
  <1>4. /\ new \in Seq(Command) /\ Len(new) = message_num
        /\ \A k \in 1 .. message_num : new[k] = content[WaitingCells'[k]]
    <2>1. WaitingShape'
      BY WaitingIs, PTL
    <2>2. QED BY <1>2, <2>1 DEF WaitingShape
  <1>5. /\ rest \in Seq(Command) /\ Len(rest) = message_num - 1
        /\ \A k \in 1 .. message_num - 1 : rest[k] = old[k + 1]
    <2>1. old # << >>
      BY <1>3
    <2>2. QED BY <1>3, <2>1, TailIs
  <1>6. \A k \in 1 .. message_num :
          WaitingCells'[k] = IF k = message_num THEN e ELSE cells[k + 1]
    <2> DEFINE left == Tail(cells)
    <2>1. cells # << >>
      BY <1>3
    <2>2. /\ left \in Seq(Cell \cup {NoCell}) /\ Len(left) = message_num - 1
          /\ \A k \in 1 .. message_num - 1 : left[k] = cells[k + 1]
      BY <1>3, <2>1, TailIs
    <2>3. WaitingCells' = Append(left, e)
      BY <1>2
    <2> HIDE DEF left, cells, e
    <2>4. message_num \in Nat /\ message_num = Len(left) + 1
      BY <1>3, <2>2
    <2>5. \A k \in 1 .. message_num : Append(left, e)[k] = IF k = message_num THEN e ELSE left[k]
      BY <2>2, <2>4, AppendIs
    <2>6. QED BY <1>3, <2>2, <2>3, <2>5
  <1>7. new = Append(rest, content[e])
    <2> HIDE DEF old, new, cells, e, rest
    <2>1. /\ Append(rest, content[e]) \in Seq(Command)
          /\ Len(Append(rest, content[e])) = message_num
      BY <1>1, <1>3, <1>5
    <2>2. message_num \in Nat /\ message_num = Len(rest) + 1
      BY <1>3, <1>5
    <2>3. \A k \in 1 .. message_num :
            Append(rest, content[e])[k] = IF k = message_num THEN content[e] ELSE rest[k]
      BY <1>5, <2>2, AppendIs
    <2>4. ASSUME NEW k \in 1 .. message_num PROVE new[k] = Append(rest, content[e])[k]
      <3>1. CASE k = message_num
        BY <1>4, <1>6, <2>3, <3>1
      <3>2. CASE k # message_num
        <4>1. k \in 1 .. message_num - 1 /\ k + 1 \in 1 .. message_num
          BY <1>3, <3>2
        <4>2. QED BY <1>3, <1>4, <1>5, <1>6, <2>3, <3>2, <4>1
      <3>3. QED BY <3>1, <3>2
    <2>5. QED BY <1>4, <2>1, <2>4, SeqEqual
  <1>8. Abstract!Put(content[e])
    BY <1>2, <1>3, <1>7 DEF Abstract!Put
  <1>9. QED BY <1>1, <1>8

LEMMA TakeTakes ==
  ASSUME MessagePoolInv, MessagePoolInv', NEW r \in Consumer, TakeOldest(r)
  PROVE  Abstract!Take
  <1> DEFINE old == Waiting
             new == Waiting'
             cells == WaitingCells
             rest == Tail(old)
  <1>1. /\ WaitingCells' = Tail(cells) /\ cells # << >> /\ content' = content
        /\ message_num' = message_num - 1
    BY TakeRing DEF MessagePoolInv, TakeOldest
  <1>2. /\ old \in Seq(Command) /\ Len(old) = message_num /\ message_num \in Nat \ {0}
        /\ \A k \in 1 .. message_num : old[k] = content[cells[k]]
        /\ cells \in Seq(Cell \cup {NoCell}) /\ Len(cells) = message_num
    BY <1>1, WaitingIs DEF WaitingShape
  <1>3. /\ new \in Seq(Command) /\ Len(new) = message_num - 1
        /\ \A k \in 1 .. message_num - 1 : new[k] = content[WaitingCells'[k]]
    <2>1. WaitingShape'
      BY WaitingIs, PTL
    <2>2. QED BY <1>1, <2>1 DEF WaitingShape
  <1>4. /\ rest \in Seq(Command) /\ Len(rest) = message_num - 1 /\ old # << >>
        /\ \A k \in 1 .. message_num - 1 : rest[k] = old[k + 1]
    <2>1. old # << >>
      BY <1>2
    <2>2. QED BY <1>2, <2>1, TailIs
  <1>5. \A k \in 1 .. message_num - 1 : WaitingCells'[k] = cells[k + 1]
    BY <1>1, <1>2, TailIs
  <1>6. new = rest
    <2> HIDE DEF old, new, cells, rest
    <2>1. ASSUME NEW k \in 1 .. message_num - 1 PROVE new[k] = rest[k]
      <3>1. k + 1 \in 1 .. message_num
        BY <1>2
      <3>2. QED BY <1>2, <1>3, <1>4, <1>5, <3>1
    <2>2. QED BY <1>3, <1>4, <2>1, SeqEqual
  <1>7. QED BY <1>4, <1>6 DEF Abstract!Take

LEMMA UpdateAmends ==
  ASSUME MessagePoolInv, MessagePoolInv', Scanning, NEW s \in Sender, Update(s)
  PROVE  \E c \in SearchCommand : Abstract!Amend(c)
  <1> DEFINE c == content[sending[s]]
             old == Waiting
             new == Waiting'
             cells == WaitingCells
             rest == Tail(old)
  <1>1. c \in SearchCommand /\ c \in Command
    BY SendingIsACell, MessagePoolAssumption DEF Update, Scanning
  <1>2. /\ old \in Seq(Command) /\ Len(old) = message_num /\ message_num \in Nat \ {0}
        /\ \A k \in 1 .. message_num : cells[k] \in Cell /\ old[k] = content[cells[k]]
        /\ \A j, k \in 1 .. message_num : cells[j] = cells[k] => j = k
    BY WaitingIs DEF WaitingShape, Update, ScanFinds
  <1>3. /\ message_list[message_out_index] = cells[1]
        /\ old[1] \in SearchCommand
    <2>1. message_out_index \in Slot
      BY DEF MessagePoolInv, TypeOK
    <2>2. 1 \in 1 .. message_num /\ 1 - 1 = 0
      BY <1>2
    <2>3. cells[1] = message_list[After(message_out_index, 0)]
      BY <2>2 DEF WaitingCells, At
    <2>4. message_list[message_out_index] = cells[1]
      BY <2>1, <2>3, AfterTurn
    <2>5. QED BY <1>2, <2>2, <2>4 DEF Update, ScanFinds
  <1>4. /\ content' = [content EXCEPT ![cells[1]] = c]
        /\ WaitingCells' = cells /\ message_num' = message_num
        /\ content \in [Cell -> Command]
    BY <1>3, RingUnchanged DEF Update, ring, MessagePoolInv, TypeOK
  <1>5. /\ new \in Seq(Command) /\ Len(new) = message_num
        /\ \A k \in 1 .. message_num : new[k] = content'[cells[k]]
    <2>1. WaitingShape'
      BY WaitingIs, PTL
    <2>2. QED BY <1>4, <2>1 DEF WaitingShape
  <1>6. /\ rest \in Seq(Command) /\ Len(rest) = message_num - 1 /\ old # << >>
        /\ \A k \in 1 .. message_num - 1 : rest[k] = old[k + 1]
        /\ Head(old) = old[1]
    <2>1. old # << >>
      BY <1>2
    <2>2. QED BY <1>2, <2>1, TailIs
  <1>7. new = << c >> \o rest
    <2> HIDE DEF old, new, cells, rest, c
    <2>1. << c >> \in Seq(Command) /\ Len(<< c >>) = 1 /\ << c >>[1] = c
      BY <1>1
    <2>2. /\ << c >> \o rest \in Seq(Command)
          /\ Len(<< c >> \o rest) = message_num
          /\ \A k \in 1 .. message_num : (<< c >> \o rest)[k] = IF k = 1 THEN c ELSE rest[k - 1]
      <3> DEFINE one == << c >>
      <3>1. one \in Seq(Command) /\ Len(one) = 1 /\ one[1] = c
        BY <2>1
      <3> HIDE DEF one
      <3>2. /\ one \o rest \in Seq(Command)
            /\ Len(one \o rest) = Len(one) + Len(rest)
            /\ \A k \in 1 .. Len(one) + Len(rest) :
                 (one \o rest)[k] = IF k <= Len(one) THEN one[k] ELSE rest[k - Len(one)]
        <4>1. one \in Seq(Command) /\ rest \in Seq(Command)
          BY <1>6, <3>1
        <4>2. QED BY ONLY <4>1, ConcatProperties, Zenon
      <3>3. Len(one) + Len(rest) = message_num
        BY <1>2, <1>6, <3>1
      <3>4. \A k \in 1 .. message_num : (one \o rest)[k] = IF k = 1 THEN c ELSE rest[k - 1]
        BY <1>2, <3>1, <3>2, <3>3
      <3>5. QED BY <3>2, <3>3, <3>4 DEF one
    <2>3. ASSUME NEW k \in 1 .. message_num PROVE new[k] = (<< c >> \o rest)[k]
      <3>1. CASE k = 1
        BY <1>2, <1>4, <1>5, <2>2, <3>1
      <3>2. CASE k # 1
        <4>1. k - 1 \in 1 .. message_num - 1 /\ k - 1 + 1 = k /\ 1 \in 1 .. message_num
          BY <1>2, <3>2
        <4>2. cells[k] # cells[1] /\ cells[k] \in Cell
          BY <1>2, <3>2, <4>1
        <4>3. new[k] = old[k]
          BY <1>2, <1>4, <1>5, <4>2
        <4>4. QED BY <1>6, <2>2, <3>2, <4>1, <4>3
      <3>3. QED BY <3>1, <3>2
    <2>4. QED BY <1>5, <2>2, <2>3, SeqEqual
  <1>8. Abstract!Amend(c)
    BY <1>3, <1>6, <1>7 DEF Abstract!Amend
  <1>9. QED BY <1>1, <1>8
-----------------------------------------------------------------------------
LEMMA InitRefines == Init => Abstract!Init
  <1> SUFFICES ASSUME Init PROVE Waiting = << >>
    BY DEF Abstract!Init
  <1>1. message_num = 0
    BY DEF Init
  <1>2. QED BY <1>1 DEF Waiting

LEMMA NextRefines ==
  MessagePoolInv /\ MessagePoolInv' /\ Scanning /\ [Next]_vars => [Abstract!Next]_Waiting
  <1> SUFFICES ASSUME MessagePoolInv, MessagePoolInv', Scanning, [Next]_vars
               PROVE  Abstract!Next \/ Waiting' = Waiting
    OBVIOUS
  <1>1. ASSUME NEW s \in Sender, NEW cell \in Cell, NEW c \in Command, Alloc(s, cell, c)
        PROVE  Waiting' = Waiting
    <2>1. cell \notin Queued /\ UNCHANGED ring
      BY <1>1 DEF Alloc, MessagePoolInv, OwnedOnce, QueuedOnce
    <2>2. \A d \in Queued : content'[d] = content[d]
      BY <1>1, <2>1 DEF Alloc, MessagePoolInv, TypeOK, OwnedOnce, QueuedOnce
    <2>3. QED BY <2>1, <2>2, QueueStays
  <1>2. ASSUME NEW s \in Sender, Update(s) PROVE Abstract!Next
    BY <1>2, UpdateAmends DEF Abstract!Next
  <1>3. ASSUME NEW s \in Sender, ScanFails(s) PROVE Waiting' = Waiting
    BY <1>3, QueueStays DEF ScanFails
  <1>4. ASSUME NEW s \in Sender, SendRoom(s) PROVE Abstract!Next
    BY <1>4, RoomPuts DEF Abstract!Next
  <1>5. ASSUME NEW s \in Sender, SendFull(s) PROVE Abstract!Next
    BY <1>5, FullPuts DEF Abstract!Next
  <1>6. ASSUME NEW r \in Consumer, TakeOldest(r) PROVE Abstract!Next
    BY <1>6, TakeTakes DEF Abstract!Next
  <1>7. ASSUME NEW r \in Consumer, Release(r) PROVE Waiting' = Waiting
    BY <1>7, QueueStays DEF Release
  <1>8. CASE UNCHANGED vars
    <2>1. UNCHANGED ring /\ \A d \in Queued : content'[d] = content[d]
      BY <1>8 DEF vars
    <2>2. QED BY <2>1, QueueStays
  <1>9. QED BY <1>1, <1>2, <1>3, <1>4, <1>5, <1>6, <1>7, <1>8 DEF Next, Get, Proxy, Consumer

(* The ring is the queue: commands come out in the order in which they     *)
(* were put in, an overflow gives up the oldest and nothing else, and only *)
(* a search at the head is ever overwritten.                               *)
THEOREM PoolIsCommandQueue == Spec => IsCommandQueue
  <1>1. Spec => []Scanning
    BY ScanningInit, ScanningNext, PoolInvariant, PTL DEF Spec
  <1>2. QED BY <1>1, InitRefines, NextRefines, PoolInvariant, PTL DEF Spec, IsCommandQueue, Abstract!Spec
=============================================================================
