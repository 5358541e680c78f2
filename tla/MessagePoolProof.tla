--------------------------- MODULE MessagePoolProof -------------------------
(***************************************************************************)
(* Proofs about MessagePool for every size of the ring and every set of    *)
(* threads, cells and commands.  The arithmetic of the ring is settled     *)
(* first, then what each operation does to the sequence of waiting cells,  *)
(* and only then the invariant and the refinement.                         *)
(***************************************************************************)
EXTENDS MessagePool, SequenceTheorems, TLAPS

(* The remainder, unfolded once and for all. *)
LEMMA AfterIn ==
  ASSUME NEW i \in Slot, NEW n \in 0 .. MESSAGE_MAX
  PROVE  /\ After(i, n) = IF i + n < MESSAGE_MAX THEN i + n ELSE i + n - MESSAGE_MAX
         /\ After(i, n) \in Slot
  BY MessagePoolAssumption, SMTT(30) DEF After, Slot

(* Different places in the ring are different slots. *)
LEMMA AfterInjective ==
  ASSUME NEW i \in Slot, NEW j \in 0 .. MESSAGE_MAX - 1, NEW k \in 0 .. MESSAGE_MAX - 1
  PROVE  After(i, j) = After(i, k) => j = k
  <1>1. j \in 0 .. MESSAGE_MAX /\ k \in 0 .. MESSAGE_MAX
    BY MessagePoolAssumption
  <1>2. /\ After(i, j) = IF i + j < MESSAGE_MAX THEN i + j ELSE i + j - MESSAGE_MAX
        /\ After(i, k) = IF i + k < MESSAGE_MAX THEN i + k ELSE i + k - MESSAGE_MAX
    BY <1>1, AfterIn
  <1>3. QED BY <1>2, MessagePoolAssumption, SMT DEF Slot

(* Moving the start by one slot shifts every place by one. *)
LEMMA AfterShift ==
  ASSUME NEW i \in Slot, NEW k \in 0 .. MESSAGE_MAX - 1
  PROVE  After(After(i, 1), k) = After(i, k + 1)
  <1>1. 1 \in 0 .. MESSAGE_MAX /\ k \in 0 .. MESSAGE_MAX /\ k + 1 \in 0 .. MESSAGE_MAX
    BY MessagePoolAssumption
  <1>2. After(i, 1) = IF i + 1 < MESSAGE_MAX THEN i + 1 ELSE i + 1 - MESSAGE_MAX
    BY <1>1, AfterIn
  <1>3. After(i, k + 1) = IF i + (k + 1) < MESSAGE_MAX THEN i + (k + 1) ELSE i + (k + 1) - MESSAGE_MAX
    BY <1>1, AfterIn
  <1>4. After(After(i, 1), k) = IF After(i, 1) + k < MESSAGE_MAX
                                THEN After(i, 1) + k ELSE After(i, 1) + k - MESSAGE_MAX
    BY <1>1, AfterIn
  <1>5. QED BY <1>2, <1>3, <1>4, MessagePoolAssumption, SMT DEF Slot

(* The place a whole turn away is the same slot. *)
LEMMA AfterTurn ==
  ASSUME NEW i \in Slot
  PROVE  After(i, MESSAGE_MAX) = i /\ After(i, 0) = i
  <1>1. MESSAGE_MAX \in 0 .. MESSAGE_MAX /\ 0 \in 0 .. MESSAGE_MAX
    BY MessagePoolAssumption
  <1>2. QED BY <1>1, AfterIn, MessagePoolAssumption, SMT DEF Slot

(* A step shifts the step after it: the two forms in_index takes. *)
LEMMA AfterNext ==
  ASSUME NEW i \in Slot, NEW k \in 0 .. MESSAGE_MAX - 1
  PROVE  After(After(i, k), 1) = After(i, k + 1)
  <1>1. 1 \in 0 .. MESSAGE_MAX /\ k \in 0 .. MESSAGE_MAX /\ k + 1 \in 0 .. MESSAGE_MAX
    BY MessagePoolAssumption
  <1>2. After(i, k) \in Slot
        /\ After(i, k) = IF i + k < MESSAGE_MAX THEN i + k ELSE i + k - MESSAGE_MAX
    BY <1>1, AfterIn
  <1>3. After(i, k + 1) = IF i + (k + 1) < MESSAGE_MAX THEN i + (k + 1) ELSE i + (k + 1) - MESSAGE_MAX
    BY <1>1, AfterIn
  <1>4. After(After(i, k), 1) = IF After(i, k) + 1 < MESSAGE_MAX
                                THEN After(i, k) + 1 ELSE After(i, k) + 1 - MESSAGE_MAX
    BY <1>1, <1>2, AfterIn
  <1>5. QED BY <1>2, <1>3, <1>4, MessagePoolAssumption, SMT DEF Slot
-----------------------------------------------------------------------------
(* A tail, written as a function. *)
LEMMA TailIs ==
  ASSUME NEW S, NEW q \in Seq(S), q # << >>
  PROVE  /\ Tail(q) = [k \in 1 .. Len(q) - 1 |-> q[k + 1]]
         /\ Tail(q) \in Seq(S)
         /\ Len(Tail(q)) = Len(q) - 1
  <1>1. /\ Tail(q) \in Seq(S)
        /\ Len(Tail(q)) = Len(q) - 1
        /\ \A k \in 1 .. Len(Tail(q)) : Tail(q)[k] = q[k + 1]
    BY HeadTailProperties
  <1>2. Tail(q) \in [1 .. Len(q) - 1 -> S]
    BY <1>1, LenProperties
  <1>3. QED BY <1>1, <1>2

(* An appended element, written as a function. *)
LEMMA AppendIs ==
  ASSUME NEW S, NEW q \in Seq(S), NEW e, NEW n \in Nat, n = Len(q) + 1
  PROVE  /\ Append(q, e) \in [1 .. n -> S \cup {e}]
         /\ \A k \in 1 .. n : Append(q, e)[k] = IF k = n THEN e ELSE q[k]
  <1>1. /\ Append(q, e) \in Seq(S \cup {e})
        /\ Len(Append(q, e)) = n
        /\ \A k \in 1 .. Len(q) : Append(q, e)[k] = q[k]
        /\ Append(q, e)[n] = e
    OBVIOUS
  <1>2. Append(q, e) \in [1 .. n -> S \cup {e}]
    BY <1>1, LenProperties
  <1>3. ASSUME NEW k \in 1 .. n
        PROVE  Append(q, e)[k] = IF k = n THEN e ELSE q[k]
    BY <1>1, LenProperties
  <1>4. QED BY <1>2, <1>3

(* The waiting cells are a sequence of cells. *)
LEMMA CellsAreASequence ==
  ASSUME TypeOK
  PROVE  /\ WaitingCells \in Seq(Cell \cup {NoCell})
         /\ Len(WaitingCells) = message_num
         /\ \A k \in 1 .. message_num : WaitingCells[k] = message_list[At(k - 1)]
  <1>1. \A k \in 1 .. message_num : At(k - 1) \in Slot
    BY AfterIn, MessagePoolAssumption DEF TypeOK, At
  <1>2. QED BY <1>1, MessagePoolAssumption DEF TypeOK, WaitingCells

(* send_message with room: the new cell queues up behind all the others. *)
LEMMA RoomRing ==
  ASSUME TypeOK, IndexesAgree, NEW s \in Sender, SendRoom(s)
  PROVE  /\ WaitingCells' = Append(WaitingCells, sending[s])
         /\ IndexesAgree'
         /\ message_num' = message_num + 1
         /\ message_num' \in 0 .. MESSAGE_MAX
         /\ message_in_index' \in Slot
  <1>1. /\ message_out_index \in Slot /\ message_num \in 0 .. MESSAGE_MAX - 1
        /\ message_out_index' = message_out_index /\ message_num' = message_num + 1
        /\ message_list' = [message_list EXCEPT ![message_in_index] = sending[s]]
        /\ message_in_index' = After(message_in_index, 1)
        /\ message_list \in [Slot -> Cell \cup {NoCell}]
        /\ message_in_index \in Slot
    BY MessagePoolAssumption DEF TypeOK, SendRoom, Deposit
  <1>2. message_in_index = After(message_out_index, message_num)
    BY DEF IndexesAgree, At
  <1>3. ASSUME NEW k \in 1 .. message_num
        PROVE  WaitingCells'[k] = WaitingCells[k]
    <2>1. k - 1 \in 0 .. MESSAGE_MAX - 1 /\ k - 1 \in 0 .. MESSAGE_MAX /\ k - 1 # message_num
          /\ k \in 1 .. message_num'
      BY <1>1, MessagePoolAssumption
    <2>2. After(message_out_index, k - 1) # message_in_index
      BY <1>1, <1>2, <2>1, AfterInjective
    <2>3. After(message_out_index, k - 1) \in Slot
      BY <1>1, <2>1, AfterIn
    <2>4. WaitingCells'[k] = message_list'[After(message_out_index, k - 1)]
      BY <1>1, <2>1 DEF WaitingCells, At
    <2>5. WaitingCells[k] = message_list[After(message_out_index, k - 1)]
      BY DEF WaitingCells, At
    <2>6. QED BY <1>1, <2>2, <2>3, <2>4, <2>5
  <1>4. WaitingCells'[message_num + 1] = sending[s]
    <2>1. message_num + 1 \in 1 .. message_num' /\ message_num + 1 - 1 = message_num
      BY <1>1, MessagePoolAssumption
    <2>2. WaitingCells'[message_num + 1] = message_list'[After(message_out_index, message_num)]
      BY <1>1, <2>1 DEF WaitingCells, At
    <2>3. QED BY <1>1, <1>2, <2>2
  <1>5. IndexesAgree'
    BY <1>1, <1>2, AfterNext DEF IndexesAgree, At
  <1>6. message_in_index' \in Slot
    BY <1>1, AfterIn, MessagePoolAssumption
  <1>7. WaitingCells' = Append(WaitingCells, sending[s])
    <2>1. WaitingCells \in Seq(Cell \cup {NoCell}) /\ Len(WaitingCells) = message_num
      BY CellsAreASequence
    <2>2. Append(WaitingCells, sending[s]) =
            [k \in 1 .. message_num + 1 |-> IF k = message_num + 1 THEN sending[s] ELSE WaitingCells[k]]
      BY <2>1, <1>1, MessagePoolAssumption
    <2>3. WaitingCells' = [k \in 1 .. message_num + 1 |-> WaitingCells'[k]]
      BY <1>1 DEF WaitingCells
    <2>4. ASSUME NEW k \in 1 .. message_num + 1
          PROVE  WaitingCells'[k] = IF k = message_num + 1 THEN sending[s] ELSE WaitingCells[k]
      BY <1>1, <1>3, <1>4, MessagePoolAssumption
    <2>5. QED BY <2>2, <2>3, <2>4
  <1>8. QED BY <1>1, <1>5, <1>6, <1>7, MessagePoolAssumption

(* send_message on a full ring: the oldest cell goes, the new one queues   *)
(* up behind the others; the cell freed is the oldest one.                 *)
LEMMA FullRing ==
  ASSUME TypeOK, IndexesAgree, NEW s \in Sender, SendFull(s)
  PROVE  /\ WaitingCells' = Append(Tail(WaitingCells), sending[s])
         /\ message_num = MESSAGE_MAX
         /\ message_list[message_in_index] = WaitingCells[1]
         /\ IndexesAgree'
         /\ message_in_index' \in Slot
         /\ message_out_index' \in Slot
  <1>1. /\ message_out_index \in Slot /\ message_in_index \in Slot
        /\ message_num = MESSAGE_MAX /\ message_num' = MESSAGE_MAX
        /\ message_out_index' = After(message_out_index, 1)
        /\ message_in_index' = After(message_in_index, 1)
        /\ message_list' = [message_list EXCEPT ![message_in_index] = sending[s]]
        /\ message_list \in [Slot -> Cell \cup {NoCell}]
    BY MessagePoolAssumption DEF TypeOK, SendFull, Deposit
  <1>2. message_in_index = message_out_index
    BY <1>1, AfterTurn DEF IndexesAgree, At
  <1>3. message_out_index' \in Slot /\ message_in_index' \in Slot
    BY <1>1, AfterIn, MessagePoolAssumption
  <1>4. IndexesAgree'
    BY <1>1, <1>2, <1>3, AfterTurn DEF IndexesAgree, At
  <1>5. WaitingCells[1] = message_list[message_in_index]
    <2>1. 1 \in 1 .. message_num /\ 1 - 1 = 0
      BY <1>1, MessagePoolAssumption
    <2>2. WaitingCells[1] = message_list[After(message_out_index, 0)]
      BY <2>1 DEF WaitingCells, At
    <2>3. QED BY <1>1, <1>2, <2>2, AfterTurn
  <1>6. ASSUME NEW k \in 1 .. MESSAGE_MAX
        PROVE  WaitingCells'[k] = IF k = MESSAGE_MAX THEN sending[s] ELSE WaitingCells[k + 1]
    <2>1. k - 1 \in 0 .. MESSAGE_MAX - 1 /\ k \in 0 .. MESSAGE_MAX /\ k - 1 + 1 = k
      BY MessagePoolAssumption
    <2>2. WaitingCells'[k] = message_list'[After(After(message_out_index, 1), k - 1)]
      BY <1>1 DEF WaitingCells, At
    <2>3. WaitingCells'[k] = message_list'[After(message_out_index, k)]
      BY <1>1, <2>1, <2>2, AfterShift
    <2>4. After(message_out_index, k) \in Slot
      BY <1>1, <2>1, AfterIn
    <2>5. CASE k = MESSAGE_MAX
      BY <1>1, <1>2, <2>3, <2>5, AfterTurn
    <2>6. CASE k # MESSAGE_MAX
      <3>1. k \in 0 .. MESSAGE_MAX - 1 /\ 0 \in 0 .. MESSAGE_MAX - 1 /\ k # 0
            /\ k + 1 \in 1 .. message_num /\ k + 1 - 1 = k
        BY <1>1, <2>6, MessagePoolAssumption
      <3>2. After(message_out_index, k) # After(message_out_index, 0)
        BY <1>1, <3>1, AfterInjective
      <3>3. After(message_out_index, k) # message_in_index
        BY <1>1, <1>2, <3>2, AfterTurn
      <3>4. WaitingCells[k + 1] = message_list[After(message_out_index, k)]
        BY <3>1 DEF WaitingCells, At
      <3>5. QED BY <1>1, <2>3, <2>4, <2>6, <3>3, <3>4
    <2>7. QED BY <2>5, <2>6
  <1>7. WaitingCells' = Append(Tail(WaitingCells), sending[s])
    <2>1. WaitingCells \in Seq(Cell \cup {NoCell}) /\ Len(WaitingCells) = MESSAGE_MAX
      BY <1>1, CellsAreASequence
    <2> DEFINE rest == Tail(WaitingCells)
    <2>2. /\ rest \in Seq(Cell \cup {NoCell})
          /\ Len(rest) = MESSAGE_MAX - 1
          /\ \A k \in 1 .. MESSAGE_MAX - 1 : rest[k] = WaitingCells[k + 1]
      <3>1. WaitingCells # << >>
        BY <2>1, MessagePoolAssumption
      <3>2. QED BY <2>1, <3>1, TailIs
    <2> HIDE DEF rest
    <2>3. MESSAGE_MAX \in Nat /\ MESSAGE_MAX = Len(rest) + 1
      BY <2>2, MessagePoolAssumption
    <2>4. /\ Append(rest, sending[s]) \in [1 .. MESSAGE_MAX -> (Cell \cup {NoCell}) \cup {sending[s]}]
          /\ \A k \in 1 .. MESSAGE_MAX :
               Append(rest, sending[s])[k] = IF k = MESSAGE_MAX THEN sending[s] ELSE rest[k]
      BY <2>2, <2>3, AppendIs
    <2>5. WaitingCells' = [k \in 1 .. MESSAGE_MAX |-> WaitingCells'[k]]
      BY <1>1 DEF WaitingCells
    <2>6. ASSUME NEW k \in 1 .. MESSAGE_MAX
          PROVE  WaitingCells'[k] = IF k = MESSAGE_MAX THEN sending[s] ELSE rest[k]
      BY <1>6, <2>2, MessagePoolAssumption
    <2>7. WaitingCells' = Append(rest, sending[s])
      BY <2>4, <2>5, <2>6
    <2>8. QED BY <2>7 DEF rest
  <1>8. QED BY <1>1, <1>3, <1>4, <1>5, <1>7

(* get_message: the oldest cell comes out, the others keep their order. *)
LEMMA TakeRing ==
  ASSUME TypeOK, IndexesAgree, NEW r \in Consumer, TakeOldest(r)
  PROVE  /\ WaitingCells' = Tail(WaitingCells)
         /\ WaitingCells # << >>
         /\ held' = [held EXCEPT ![r] = WaitingCells[1]]
         /\ message_num' = message_num - 1
         /\ message_num' \in 0 .. MESSAGE_MAX
         /\ IndexesAgree'
         /\ message_out_index' \in Slot
  <1>1. /\ message_out_index \in Slot /\ message_in_index \in Slot
        /\ message_num \in 1 .. MESSAGE_MAX /\ message_num' = message_num - 1
        /\ message_out_index' = After(message_out_index, 1)
        /\ message_in_index' = message_in_index
        /\ message_list' = message_list
        /\ held' = [held EXCEPT ![r] = message_list[message_out_index]]
    BY MessagePoolAssumption DEF TypeOK, TakeOldest
  <1>2. message_out_index' \in Slot
    BY <1>1, AfterIn, MessagePoolAssumption
  <1>3. IndexesAgree'
    <2>1. message_num - 1 \in 0 .. MESSAGE_MAX - 1 /\ message_num - 1 + 1 = message_num
      BY <1>1, MessagePoolAssumption
    <2>2. After(After(message_out_index, 1), message_num - 1) = After(message_out_index, message_num)
      BY <1>1, <2>1, AfterShift
    <2>3. QED BY <1>1, <2>2 DEF IndexesAgree, At
  <1>4. WaitingCells[1] = message_list[message_out_index]
    <2>1. 1 \in 1 .. message_num /\ 1 - 1 = 0
      BY <1>1
    <2>2. WaitingCells[1] = message_list[After(message_out_index, 0)]
      BY <2>1 DEF WaitingCells, At
    <2>3. QED BY <1>1, <2>2, AfterTurn
  <1>5. ASSUME NEW k \in 1 .. message_num - 1
        PROVE  WaitingCells'[k] = WaitingCells[k + 1]
    <2>1. k - 1 \in 0 .. MESSAGE_MAX - 1 /\ k - 1 + 1 = k
          /\ k + 1 \in 1 .. message_num /\ k + 1 - 1 = k /\ k \in 1 .. message_num'
      BY <1>1, MessagePoolAssumption
    <2>2. WaitingCells'[k] = message_list[After(After(message_out_index, 1), k - 1)]
      BY <1>1, <2>1 DEF WaitingCells, At
    <2>3. WaitingCells'[k] = message_list[After(message_out_index, k)]
      BY <1>1, <2>1, <2>2, AfterShift
    <2>4. WaitingCells[k + 1] = message_list[After(message_out_index, k)]
      BY <2>1 DEF WaitingCells, At
    <2>5. QED BY <2>3, <2>4
  <1>6. WaitingCells' = Tail(WaitingCells) /\ WaitingCells # << >>
    <2>1. WaitingCells \in Seq(Cell \cup {NoCell}) /\ Len(WaitingCells) = message_num
      BY CellsAreASequence
    <2>2. Tail(WaitingCells) = [k \in 1 .. message_num - 1 |-> WaitingCells[k + 1]]
          /\ WaitingCells # << >>
      <3>1. WaitingCells # << >>
        BY <1>1, <2>1
      <3>2. QED BY <2>1, <3>1, TailIs
    <2>3. WaitingCells' = [k \in 1 .. message_num - 1 |-> WaitingCells'[k]]
      BY <1>1 DEF WaitingCells
    <2>4. QED BY <1>5, <2>2, <2>3
  <1>7. QED BY <1>1, <1>2, <1>3, <1>4, <1>6, MessagePoolAssumption
-----------------------------------------------------------------------------
(* What each operation does to the set of waiting cells. *)
LEMMA RoomQueued ==
  ASSUME TypeOK, IndexesAgree, QueuedOnce, NEW s \in Sender, SendRoom(s),
         sending[s] \notin Queued
  PROVE  /\ Queued' = Queued \cup {sending[s]}
         /\ \A j, k \in 1 .. message_num' : WaitingCells'[j] = WaitingCells'[k] => j = k
  <1> DEFINE cells == WaitingCells
             n == message_num
             e == sending[s]
  <1>1. /\ cells \in Seq(Cell \cup {NoCell}) /\ Len(cells) = n /\ n \in Nat
        /\ Queued = {cells[k] : k \in 1 .. n}
        /\ \A j, k \in 1 .. n : cells[j] = cells[k] => j = k
    BY CellsAreASequence DEF TypeOK, QueuedOnce, Queued
  <1>2. /\ WaitingCells' = Append(cells, e) /\ message_num' = n + 1
        /\ Queued' = {WaitingCells'[k] : k \in 1 .. message_num'}
    BY RoomRing DEF Queued
  <1>3. e \notin Queued
    OBVIOUS
  <1> HIDE DEF cells, n, e
  <1>4. \A k \in 1 .. n + 1 : Append(cells, e)[k] = IF k = n + 1 THEN e ELSE cells[k]
    BY <1>1, AppendIs
  <1>5. Queued' = Queued \cup {e}
    BY <1>1, <1>2, <1>4
  <1>6. ASSUME NEW j \in 1 .. n + 1, NEW k \in 1 .. n + 1, WaitingCells'[j] = WaitingCells'[k]
        PROVE  j = k
    BY <1>1, <1>2, <1>3, <1>4, <1>6
  <1>7. QED BY <1>2, <1>5, <1>6 DEF e

LEMMA FullQueued ==
  ASSUME TypeOK, IndexesAgree, QueuedOnce, NEW s \in Sender, SendFull(s),
         sending[s] \notin Queued
  PROVE  /\ message_list[message_in_index] \in Queued
         /\ Queued' = (Queued \ {message_list[message_in_index]}) \cup {sending[s]}
         /\ \A j, k \in 1 .. message_num' : WaitingCells'[j] = WaitingCells'[k] => j = k
  <1> DEFINE cells == WaitingCells
             n == message_num
             e == sending[s]
             rest == Tail(cells)
  <1>1. /\ cells \in Seq(Cell \cup {NoCell}) /\ Len(cells) = n /\ n \in Nat \ {0}
        /\ Queued = {cells[k] : k \in 1 .. n}
        /\ \A j, k \in 1 .. n : cells[j] = cells[k] => j = k
    BY CellsAreASequence, FullRing, MessagePoolAssumption DEF TypeOK, QueuedOnce, Queued
  <1>2. /\ WaitingCells' = Append(rest, e) /\ message_num' = n
        /\ Queued' = {WaitingCells'[k] : k \in 1 .. message_num'}
        /\ message_list[message_in_index] = cells[1]
    BY FullRing DEF Queued, SendFull
  <1>3. e \notin Queued
    OBVIOUS
  <1>4. /\ rest \in Seq(Cell \cup {NoCell}) /\ Len(rest) = n - 1
        /\ \A k \in 1 .. n - 1 : rest[k] = cells[k + 1]
    <2>1. cells # << >>
      BY <1>1
    <2>2. QED BY <1>1, <2>1, TailIs
  <1> HIDE DEF cells, n, e, rest
  <1>5. \A k \in 1 .. n : Append(rest, e)[k] = IF k = n THEN e ELSE rest[k]
    <2>1. n \in Nat /\ n = Len(rest) + 1
      BY <1>1, <1>4
    <2>2. QED BY <1>4, <2>1, AppendIs
  <1>6. \A k \in 1 .. n : WaitingCells'[k] = IF k = n THEN e ELSE cells[k + 1]
    BY <1>1, <1>2, <1>4, <1>5
  <1>7. Queued' = (Queued \ {cells[1]}) \cup {e}
    <2>1. ASSUME NEW x \in Queued' PROVE x \in (Queued \ {cells[1]}) \cup {e}
      <3>1. PICK k \in 1 .. n : x = WaitingCells'[k]
        BY <1>2
      <3>2. CASE k = n
        BY <1>6, <3>1, <3>2
      <3>3. CASE k # n
        <4>1. k + 1 \in 1 .. n /\ 1 \in 1 .. n /\ k + 1 # 1
          BY <1>1, <3>3
        <4>2. QED BY <1>1, <1>6, <3>1, <3>3, <4>1
      <3>4. QED BY <3>2, <3>3
    <2>2. ASSUME NEW x \in Queued \ {cells[1]} PROVE x \in Queued'
      <3>1. PICK k \in 1 .. n : x = cells[k]
        BY <1>1
      <3>2. k # 1 /\ k - 1 \in 1 .. n /\ k - 1 # n /\ k - 1 + 1 = k
        BY <1>1, <3>1
      <3>3. x = WaitingCells'[k - 1]
        BY <1>6, <3>1, <3>2
      <3>4. QED BY <1>2, <3>2, <3>3
    <2>3. e \in Queued'
      <3>1. n \in 1 .. n
        BY <1>1
      <3>2. QED BY <1>2, <1>6, <3>1
    <2>4. QED BY <2>1, <2>2, <2>3
  <1>8. ASSUME NEW j \in 1 .. n, NEW k \in 1 .. n, WaitingCells'[j] = WaitingCells'[k]
        PROVE  j = k
    BY <1>1, <1>3, <1>6, <1>8
  <1>9. cells[1] \in Queued
    BY <1>1
  <1>10. QED BY <1>2, <1>7, <1>8, <1>9 DEF e

LEMMA TakeQueued ==
  ASSUME TypeOK, IndexesAgree, QueuedOnce, NEW r \in Consumer, TakeOldest(r)
  PROVE  /\ WaitingCells[1] \in Queued
         /\ Queued' = Queued \ {WaitingCells[1]}
         /\ \A j, k \in 1 .. message_num' : WaitingCells'[j] = WaitingCells'[k] => j = k
  <1> DEFINE cells == WaitingCells
             n == message_num
  <1>1. /\ cells \in Seq(Cell \cup {NoCell}) /\ Len(cells) = n /\ n \in Nat \ {0}
        /\ Queued = {cells[k] : k \in 1 .. n}
        /\ \A j, k \in 1 .. n : cells[j] = cells[k] => j = k
    BY CellsAreASequence DEF TypeOK, QueuedOnce, Queued, TakeOldest
  <1>2. /\ WaitingCells' = Tail(cells) /\ message_num' = n - 1 /\ cells # << >>
        /\ Queued' = {WaitingCells'[k] : k \in 1 .. message_num'}
    BY TakeRing DEF Queued
  <1> HIDE DEF cells, n
  <1>3. \A k \in 1 .. n - 1 : WaitingCells'[k] = cells[k + 1]
    BY <1>1, <1>2, TailIs
  <1>4. Queued' = Queued \ {cells[1]}
    <2>1. ASSUME NEW x \in Queued' PROVE x \in Queued \ {cells[1]}
      <3>1. PICK k \in 1 .. n - 1 : x = WaitingCells'[k]
        BY <1>2
      <3>2. k + 1 \in 1 .. n /\ 1 \in 1 .. n /\ k + 1 # 1
        BY <1>1
      <3>3. QED BY <1>1, <1>3, <3>1, <3>2
    <2>2. ASSUME NEW x \in Queued \ {cells[1]} PROVE x \in Queued'
      <3>1. PICK k \in 1 .. n : x = cells[k]
        BY <1>1
      <3>2. k # 1 /\ k - 1 \in 1 .. n - 1 /\ k - 1 + 1 = k
        BY <1>1, <3>1
      <3>3. QED BY <1>2, <1>3, <3>1, <3>2, ZenonT(40)
    <2>3. QED BY <2>1, <2>2
  <1>5. ASSUME NEW j \in 1 .. n - 1, NEW k \in 1 .. n - 1, WaitingCells'[j] = WaitingCells'[k]
        PROVE  j = k
    BY <1>1, <1>3, <1>5
  <1>6. cells[1] \in Queued
    BY <1>1
  <1>7. QED BY <1>2, <1>4, <1>5, <1>6 DEF cells
-----------------------------------------------------------------------------
(* A step that leaves the ring alone leaves the waiting cells alone. *)
LEMMA RingUnchanged ==
  ASSUME UNCHANGED ring
  PROVE  /\ WaitingCells' = WaitingCells
         /\ Queued' = Queued
         /\ IndexesAgree' = IndexesAgree
  BY DEF ring, WaitingCells, Queued, IndexesAgree, At

LEMMA InitInv == Init => MessagePoolInv
  <1> SUFFICES ASSUME Init PROVE MessagePoolInv
    OBVIOUS
  <1>1. TypeOK
    BY MessagePoolAssumption DEF Init, TypeOK, Slot
  <1>2. IndexesAgree
    <2>1. 0 \in Slot
      BY MessagePoolAssumption DEF Slot
    <2>2. QED BY <2>1, AfterTurn DEF Init, IndexesAgree, At
  <1>3. Queued = {}
    BY DEF Init, Queued
  <1>4. OwnedOnce
    BY <1>3, MessagePoolAssumption DEF Init, OwnedOnce, QueuedOnce, SendersOwn, ReadersOwn
  <1>5. NothingLeaks
    BY DEF Init, NothingLeaks
  <1>6. QED BY <1>1, <1>2, <1>4, <1>5 DEF MessagePoolInv

(* The command of a thread that owns one is a real cell. *)
LEMMA SendingIsACell ==
  ASSUME MessagePoolInv, NEW s \in Sender, sender[s] # "idle"
  PROVE  /\ sending[s] \in Cell /\ sending[s] # NoCell
         /\ sending[s] \in heap /\ sending[s] \notin Queued
  BY DEF MessagePoolInv, TypeOK, OwnedOnce, SendersOwn

LEMMA AllocInv ==
  ASSUME MessagePoolInv, NEW s \in Sender, NEW cell \in Cell, NEW c \in Command, Alloc(s, cell, c)
  PROVE  MessagePoolInv'
  <1> USE DEF MessagePoolInv
  <1>1. /\ UNCHANGED ring /\ WaitingCells' = WaitingCells /\ Queued' = Queued /\ IndexesAgree'
        /\ message_num' = message_num
    BY RingUnchanged DEF Alloc, ring
  <1>2. cell # NoCell /\ cell \notin heap /\ sending[s] = NoCell
    BY MessagePoolAssumption DEF Alloc, TypeOK
  <1>3. TypeOK'
    BY <1>1, <1>2 DEF Alloc, TypeOK, ring
  <1>4. QueuedOnce'
    BY <1>1 DEF Alloc, OwnedOnce, QueuedOnce
  <1>5. SendersOwn'
    <2>1. \A t \in Sender : sending[t] # NoCell => sending[t] # cell
      BY <1>2 DEF OwnedOnce, SendersOwn
    <2>2. \A r \in Consumer : held[r] # cell
      BY <1>2 DEF OwnedOnce, ReadersOwn
    <2>3. cell \notin Queued
      BY <1>2 DEF OwnedOnce, QueuedOnce
    <2>4. QED BY <1>1, <1>2, <2>1, <2>2, <2>3 DEF Alloc, TypeOK, OwnedOnce, SendersOwn
  <1>6. ReadersOwn'
    BY <1>1 DEF Alloc, OwnedOnce, ReadersOwn
  <1>7. NothingLeaks'
    <2>1. ASSUME NEW x \in heap'
          PROVE  x \in (Queued \cup {sending[t] : t \in Sender} \cup {held[r] : r \in Consumer})'
      <3>1. CASE x = cell
        <4>1. x = sending'[s]
          BY <3>1 DEF Alloc, TypeOK
        <4>2. QED BY <4>1
      <3>2. CASE x # cell /\ \E t \in Sender : x = sending[t]
        <4>1. PICK t \in Sender : x = sending[t]
          BY <3>2
        <4>2. x # NoCell
          BY <3>2, MessagePoolAssumption DEF Alloc, TypeOK
        <4>3. x = sending'[t]
          BY <1>2, <4>1, <4>2 DEF Alloc, TypeOK
        <4>4. QED BY <4>3
      <3>3. CASE x \in Queued \/ \E r \in Consumer : x = held[r]
        BY <1>1, <3>3 DEF Alloc
      <3>4. x = cell \/ x \in heap
        BY DEF Alloc
      <3>5. QED BY <3>1, <3>2, <3>3, <3>4 DEF NothingLeaks
    <2>2. QED BY <2>1 DEF NothingLeaks
  <1>8. QED BY <1>1, <1>3, <1>4, <1>5, <1>6, <1>7 DEF OwnedOnce

LEMMA UpdateInv ==
  ASSUME MessagePoolInv, NEW s \in Sender, Update(s)
  PROVE  MessagePoolInv'
  <1> USE DEF MessagePoolInv
  <1>1. /\ UNCHANGED ring /\ WaitingCells' = WaitingCells /\ Queued' = Queued /\ IndexesAgree'
        /\ message_num' = message_num
    BY RingUnchanged DEF Update, ring
  <1>2. /\ sending[s] \in Cell /\ sending[s] # NoCell
        /\ sending[s] \in heap /\ sending[s] \notin Queued
    BY SendingIsACell DEF Update
  <1>3. TypeOK'
    <2>1. content[sending[s]] \in Command
      BY <1>2 DEF TypeOK
    <2>2. content' \in [Cell -> Command]
      BY <2>1 DEF Update, TypeOK
    <2>3. QED BY <1>1, <2>2 DEF Update, TypeOK, ring
  <1>4. QueuedOnce'
    BY <1>1, <1>2 DEF Update, OwnedOnce, QueuedOnce
  <1>5. SendersOwn'
    BY <1>1, <1>2 DEF Update, TypeOK, OwnedOnce, SendersOwn
  <1>6. ReadersOwn'
    BY <1>1, <1>2 DEF Update, OwnedOnce, SendersOwn, ReadersOwn
  <1>7. NothingLeaks'
    <2>1. ASSUME NEW x \in heap'
          PROVE  x \in (Queued \cup {sending[t] : t \in Sender} \cup {held[r] : r \in Consumer})'
      <3>1. x \in heap /\ x # sending[s]
        BY DEF Update
      <3>2. CASE \E t \in Sender : x = sending[t]
        <4>1. PICK t \in Sender : x = sending[t]
          BY <3>2
        <4>2. x = sending'[t]
          BY <3>1, <4>1 DEF Update, TypeOK
        <4>3. QED BY <4>2
      <3>3. CASE x \in Queued \/ \E r \in Consumer : x = held[r]
        BY <1>1, <3>3 DEF Update
      <3>4. QED BY <3>1, <3>2, <3>3 DEF NothingLeaks
    <2>2. QED BY <2>1 DEF NothingLeaks
  <1>8. QED BY <1>1, <1>3, <1>4, <1>5, <1>6, <1>7 DEF OwnedOnce

LEMMA ScanFailsInv ==
  ASSUME MessagePoolInv, NEW s \in Sender, ScanFails(s)
  PROVE  MessagePoolInv'
  <1> USE DEF MessagePoolInv
  <1>1. /\ UNCHANGED ring /\ WaitingCells' = WaitingCells /\ Queued' = Queued /\ IndexesAgree'
        /\ message_num' = message_num
    BY RingUnchanged DEF ScanFails, ring
  <1>2. TypeOK'
    BY <1>1 DEF ScanFails, TypeOK, ring
  <1>3. OwnedOnce'
    BY <1>1 DEF ScanFails, OwnedOnce, QueuedOnce, SendersOwn, ReadersOwn
  <1>4. NothingLeaks'
    BY <1>1 DEF ScanFails, NothingLeaks
  <1>5. QED BY <1>1, <1>2, <1>3, <1>4

LEMMA SendRoomInv ==
  ASSUME MessagePoolInv, NEW s \in Sender, SendRoom(s)
  PROVE  MessagePoolInv'
  <1> USE DEF MessagePoolInv
  <1>1. /\ sending[s] \in Cell /\ sending[s] # NoCell
        /\ sending[s] \in heap /\ sending[s] \notin Queued
    BY SendingIsACell DEF SendRoom
  <1>2. /\ Queued' = Queued \cup {sending[s]}
        /\ \A j, k \in 1 .. message_num' : WaitingCells'[j] = WaitingCells'[k] => j = k
    BY <1>1, RoomQueued DEF OwnedOnce
  <1>3. /\ IndexesAgree' /\ message_num' \in 0 .. MESSAGE_MAX /\ message_in_index' \in Slot
    BY RoomRing
  <1>4. TypeOK'
    BY <1>1, <1>3, MessagePoolAssumption DEF SendRoom, Deposit, TypeOK
  <1>5. QueuedOnce'
    BY <1>1, <1>2 DEF SendRoom, Deposit, OwnedOnce, QueuedOnce
  <1>6. SendersOwn'
    BY <1>1, <1>2 DEF SendRoom, Deposit, TypeOK, OwnedOnce, SendersOwn
  <1>7. ReadersOwn'
    BY <1>1, <1>2 DEF SendRoom, Deposit, OwnedOnce, SendersOwn, ReadersOwn
  <1>8. NothingLeaks'
    BY <1>1, <1>2 DEF SendRoom, Deposit, NothingLeaks, TypeOK
  <1>9. QED BY <1>3, <1>4, <1>5, <1>6, <1>7, <1>8 DEF OwnedOnce

LEMMA SendFullInv ==
  ASSUME MessagePoolInv, NEW s \in Sender, SendFull(s)
  PROVE  MessagePoolInv'
  <1> USE DEF MessagePoolInv
  <1> DEFINE oldest == message_list[message_in_index]
  <1>1. /\ sending[s] \in Cell /\ sending[s] # NoCell
        /\ sending[s] \in heap /\ sending[s] \notin Queued
    BY SendingIsACell DEF SendFull
  <1>2. /\ oldest \in Queued
        /\ Queued' = (Queued \ {oldest}) \cup {sending[s]}
        /\ \A j, k \in 1 .. message_num' : WaitingCells'[j] = WaitingCells'[k] => j = k
    BY <1>1, FullQueued DEF OwnedOnce
  <1>3. /\ IndexesAgree' /\ message_in_index' \in Slot /\ message_out_index' \in Slot
    BY FullRing
  <1>4. heap' = heap \ {oldest} /\ oldest # sending[s]
    BY <1>1, <1>2 DEF SendFull
  <1>5. TypeOK'
    BY <1>1, <1>3, <1>4, MessagePoolAssumption DEF SendFull, Deposit, TypeOK
  <1> HIDE DEF oldest
  <1>6. QueuedOnce'
    BY <1>1, <1>2, <1>4 DEF OwnedOnce, QueuedOnce
  <1>7. SendersOwn'
    BY <1>1, <1>2, <1>4 DEF SendFull, Deposit, TypeOK, OwnedOnce, SendersOwn
  <1>8. ReadersOwn'
    BY <1>1, <1>2, <1>4 DEF SendFull, Deposit, OwnedOnce, SendersOwn, ReadersOwn
  <1>9. NothingLeaks'
    BY <1>1, <1>2, <1>4 DEF SendFull, Deposit, NothingLeaks, TypeOK
  <1>10. QED BY <1>3, <1>5, <1>6, <1>7, <1>8, <1>9 DEF OwnedOnce

LEMMA TakeOldestInv ==
  ASSUME MessagePoolInv, NEW r \in Consumer, TakeOldest(r)
  PROVE  MessagePoolInv'
  <1> USE DEF MessagePoolInv
  <1> DEFINE oldest == WaitingCells[1]
  <1>1. /\ oldest \in Queued /\ Queued' = Queued \ {oldest}
        /\ \A j, k \in 1 .. message_num' : WaitingCells'[j] = WaitingCells'[k] => j = k
    BY TakeQueued DEF OwnedOnce
  <1>2. /\ IndexesAgree' /\ message_num' \in 0 .. MESSAGE_MAX /\ message_out_index' \in Slot
        /\ held' = [held EXCEPT ![r] = oldest] /\ held[r] = NoCell
        /\ UNCHANGED <<message_list, message_in_index, heap, content, sender, sending>>
    BY TakeRing DEF TakeOldest
  <1> HIDE DEF oldest
  <1>3. oldest \in heap /\ oldest \in Cell /\ oldest # NoCell
    BY <1>1, MessagePoolAssumption DEF TypeOK, OwnedOnce, QueuedOnce
  <1>4. TypeOK'
    BY <1>2, <1>3 DEF TypeOK
  <1>5. QueuedOnce'
    BY <1>1, <1>2 DEF OwnedOnce, QueuedOnce
  <1>6. SendersOwn'
    BY <1>1, <1>2, <1>3 DEF TypeOK, OwnedOnce, SendersOwn
  <1>7. ReadersOwn'
    BY <1>1, <1>2, <1>3 DEF TypeOK, OwnedOnce, ReadersOwn
  <1>8. NothingLeaks'
    <2>1. ASSUME NEW x \in heap'
          PROVE  x \in (Queued \cup {sending[s] : s \in Sender} \cup {held[q] : q \in Consumer})'
      <3>1. CASE x = oldest
        <4>1. x = held'[r]
          BY <1>2, <3>1 DEF TypeOK
        <4>2. QED BY <4>1
      <3>2. CASE \E q \in Consumer : x = held[q]
        <4>1. PICK q \in Consumer : x = held[q]
          BY <3>2
        <4>2. x # NoCell
          BY <1>2, MessagePoolAssumption DEF TypeOK
        <4>3. x = held'[q]
          BY <1>2, <4>1, <4>2 DEF TypeOK
        <4>4. QED BY <4>3
      <3>3. CASE x # oldest /\ (x \in Queued \/ \E s \in Sender : x = sending[s])
        BY <1>1, <1>2, <3>3
      <3>4. x \in heap
        BY <1>2
      <3>5. QED BY <3>1, <3>2, <3>3, <3>4 DEF NothingLeaks
    <2>2. QED BY <2>1 DEF NothingLeaks
  <1>9. QED BY <1>2, <1>4, <1>5, <1>6, <1>7, <1>8 DEF OwnedOnce

LEMMA ReleaseInv ==
  ASSUME MessagePoolInv, NEW r \in Consumer, Release(r)
  PROVE  MessagePoolInv'
  <1> USE DEF MessagePoolInv
  <1>1. /\ UNCHANGED ring /\ WaitingCells' = WaitingCells /\ Queued' = Queued /\ IndexesAgree'
        /\ message_num' = message_num
    BY RingUnchanged DEF Release, ring
  <1>2. held[r] \in heap /\ held[r] \notin Queued /\ held[r] # NoCell
    BY DEF Release, OwnedOnce, ReadersOwn
  <1>3. TypeOK'
    BY <1>1 DEF Release, TypeOK, ring
  <1>4. QueuedOnce'
    BY <1>1, <1>2 DEF Release, OwnedOnce, QueuedOnce
  <1>5. SendersOwn'
    BY <1>1, <1>2 DEF Release, TypeOK, OwnedOnce, SendersOwn
  <1>6. ReadersOwn'
    BY <1>1, <1>2 DEF Release, TypeOK, OwnedOnce, ReadersOwn
  <1>7. NothingLeaks'
    <2>1. ASSUME NEW x \in heap'
          PROVE  x \in (Queued \cup {sending[s] : s \in Sender} \cup {held[q] : q \in Consumer})'
      <3>1. x \in heap /\ x # held[r]
        BY DEF Release
      <3>2. CASE \E q \in Consumer : x = held[q]
        <4>1. PICK q \in Consumer : x = held[q]
          BY <3>2
        <4>2. x = held'[q]
          BY <3>1, <4>1 DEF Release, TypeOK
        <4>3. QED BY <4>2
      <3>3. CASE x \in Queued \/ \E s \in Sender : x = sending[s]
        BY <1>1, <3>3 DEF Release
      <3>4. QED BY <3>1, <3>2, <3>3 DEF NothingLeaks
    <2>2. QED BY <2>1 DEF NothingLeaks
  <1>8. QED BY <1>1, <1>3, <1>4, <1>5, <1>6, <1>7 DEF OwnedOnce

LEMMA NextInv == MessagePoolInv /\ [Next]_vars => MessagePoolInv'
  <1> SUFFICES ASSUME MessagePoolInv, [Next]_vars PROVE MessagePoolInv'
    OBVIOUS
  <1>1. ASSUME NEW s \in Sender, NEW cell \in Cell, NEW c \in Command, Alloc(s, cell, c)
        PROVE  MessagePoolInv'
    BY <1>1, AllocInv
  <1>2. ASSUME NEW s \in Sender, Update(s) PROVE MessagePoolInv'
    BY <1>2, UpdateInv
  <1>3. ASSUME NEW s \in Sender, ScanFails(s) PROVE MessagePoolInv'
    BY <1>3, ScanFailsInv
  <1>4. ASSUME NEW s \in Sender, SendRoom(s) PROVE MessagePoolInv'
    BY <1>4, SendRoomInv
  <1>5. ASSUME NEW s \in Sender, SendFull(s) PROVE MessagePoolInv'
    BY <1>5, SendFullInv
  <1>6. ASSUME NEW r \in Reader, Get(r) PROVE MessagePoolInv'
    BY <1>6, TakeOldestInv DEF Get, Consumer
  <1>7. CASE Proxy
    BY <1>7, TakeOldestInv DEF Proxy, Consumer
  <1>8. ASSUME NEW r \in Consumer, Release(r) PROVE MessagePoolInv'
    BY <1>8, ReleaseInv
  <1>9. CASE UNCHANGED vars
    <2>1. UNCHANGED ring
      BY <1>9 DEF vars
    <2>2. QED BY <1>9, <2>1, RingUnchanged DEF vars, ring, MessagePoolInv, TypeOK, OwnedOnce, QueuedOnce,
                 SendersOwn, ReadersOwn, NothingLeaks
  <1>10. QED BY <1>1, <1>2, <1>3, <1>4, <1>5, <1>6, <1>7, <1>8, <1>9 DEF Next

(* Every size of ring, every number of threads: the counters of the ring   *)
(* agree, every command is owned once, and none leaks.                     *)
THEOREM PoolInvariant == Spec => []MessagePoolInv
  <1>1. QED BY InitInv, NextInv, PTL DEF Spec

THEOREM PoolTypeOK == Spec => []TypeOK
  <1>1. MessagePoolInv => TypeOK
    BY DEF MessagePoolInv
  <1>2. QED BY <1>1, PoolInvariant, PTL

(* send_message frees the right cell on a full ring. *)
THEOREM PoolIndexesAgree == Spec => []IndexesAgree
  <1>1. MessagePoolInv => IndexesAgree
    BY DEF MessagePoolInv
  <1>2. QED BY <1>1, PoolInvariant, PTL

(* No command is freed twice or read after it was freed. *)
THEOREM PoolOwnedOnce == Spec => []OwnedOnce
  <1>1. MessagePoolInv => OwnedOnce
    BY DEF MessagePoolInv
  <1>2. QED BY <1>1, PoolInvariant, PTL

(* No command leaks. *)
THEOREM PoolNothingLeaks == Spec => []NothingLeaks
  <1>1. MessagePoolInv => NothingLeaks
    BY DEF MessagePoolInv
  <1>2. QED BY <1>1, PoolInvariant, PTL
=============================================================================
