-------------------------- MODULE LoopBufferProof --------------------------
(***************************************************************************)
(* What the loop buffer of aviolpbuf.c delivers, proved for every size of  *)
(* the ring, of its margins and of the title: the ring holds what it       *)
(* offers, a seek lands where it was to go, and the user sees a plain      *)
(* stream of bytes.                                                        *)
(***************************************************************************)
EXTENDS LoopBuffer, TLAPS

(* The bytes before the write pointer that are still those of the source:  *)
(* the unread ones, and as many as were filled in since the ring was last  *)
(* emptied, up to all of it.                                               *)
Kept ==
  IF valid <= Forward THEN Forward ELSE IF valid <= BufferSize THEN valid ELSE BufferSize

Intact == \A k \in 1 .. Kept : buffer[Behind(k)] = <<title, pos - k>>

(* The source stands where the next fill begins, and so must what the ring *)
(* holds end there.                                                        *)
RingOK == low = pos /\ Forward <= pos /\ Intact

(* The variables that make up the ring. *)
RingType ==
  /\ buffer \in [0 .. BufferSize - 1 -> Nat \X Int]
  /\ rp \in 0 .. BufferSize - 1 /\ wp \in 0 .. BufferSize - 1
  /\ valid \in Nat /\ pos \in Nat /\ title \in Nat /\ low \in Nat

(* The variables that belong to the calls, not to the ring. *)
CallType ==
  /\ source \in Source
  /\ pc \in {"idle", "read", "buffering", "seek", "skip", "seek_end", "seek_time"}
  /\ len \in Nat /\ got \in Nat /\ ret \in Int
  /\ target \in Int /\ failed \in BOOLEAN /\ cut \in BOOLEAN

(* Where each call is to leave the read pointer. *)
CallOK ==
  /\ pc # "idle" => ~failed
  /\ pc \notin {"idle", "skip"} => ~cut
  /\ pc = "seek" => len = target
  /\ pc = "skip" => len > 0 /\ (~cut => target = PosOnRead + len)
  /\ pc = "seek_end" => len <= FileSize /\ target = FileSize - len
  /\ pc = "seek_time" => target = 0
  /\ pc \in {"read", "buffering"} => target = -1

LoopBufferInv == RingType /\ CallType /\ RingOK /\ CallOK /\ SeekLands

USE LoopBufferAssumption, RoomAssumption
-----------------------------------------------------------------------------
(* Less than the whole ring is unread, for a full ring would look empty. *)
LEMMA ForwardBound ==
  ASSUME RingType
  PROVE  /\ Forward \in 0 .. BufferSize - 1
         /\ Contiguous \in 0 .. Forward
         /\ Contiguous = 0 <=> Forward = 0
BY DEF RingType, Forward, Contiguous

(* The unread bytes are kept. *)
LEMMA KeptBound ==
  ASSUME RingType
  PROVE  Forward \in Nat /\ Kept \in Nat /\ Forward <= Kept
<1>1. Forward \in 0 .. BufferSize - 1
  BY ForwardBound
<1>2. valid \in Nat
  BY DEF RingType
<1> QED
  BY <1>1, <1>2 DEF Kept

(* What a seek back may use is kept, and leaves the margin free. *)
LEMMA BackBound ==
  ASSUME RingType
  PROVE  /\ Back \in Nat
         /\ Back > 0 => Forward + Back <= BufferSize - BackMargin
         /\ Forward + Back <= Kept
<1>1. Forward \in 0 .. BufferSize - 1
  BY ForwardBound
<1>2. CASE valid - Forward <= BufferSize - Forward - BackMargin
  BY <1>1, <1>2 DEF RingType, Back, Least, Kept
<1>3. CASE valid - Forward > BufferSize - Forward - BackMargin
  BY <1>1, <1>3 DEF RingType, Back, Least, Kept
<1> QED
  BY <1>1, <1>2, <1>3 DEF RingType

(* The place of the byte k before the write pointer, counted from the read *)
(* pointer.                                                                *)
LEMMA BehindForward ==
  ASSUME RingType, NEW i \in 0 .. Contiguous - 1
  PROVE  Behind(Forward - i) = rp + i
BY ForwardBound DEF RingType, Behind, Forward, Contiguous

(* The read pointer moves inside what the ring offers: back by up to Back  *)
(* bytes, or past up to Forward bytes.                                     *)
LEMMA Moves ==
  ASSUME RingType, RingOK,
         NEW d \in Int, -Back <= d, d <= Forward,
         PosOnRead + d >= 0,
         rp' = Wrapped(rp + d),
         UNCHANGED <<buffer, wp, valid, pos, title, low>>
  PROVE  RingType' /\ RingOK' /\ PosOnRead' = PosOnRead + d
<1> DEFINE r == rp + d
<1>1. Forward \in 0 .. BufferSize - 1
  BY ForwardBound
<1>2. /\ Back \in Nat
      /\ Back > 0 => Forward + Back <= BufferSize - BackMargin
      /\ Forward + Back <= Kept
  BY BackBound
<1>3. /\ rp' \in 0 .. BufferSize - 1
      /\ Forward' = Forward - d
  <2>1. Forward - d \in 0 .. BufferSize - 1
    BY <1>1, <1>2
  <2>2. CASE wp >= rp
    BY <1>1, <2>1, <2>2 DEF RingType, Forward, Wrapped
  <2>3. CASE wp < rp
    BY <1>1, <2>1, <2>3 DEF RingType, Forward, Wrapped
  <2> QED
    BY <2>2, <2>3 DEF RingType
<1>4. RingType'
  BY <1>3 DEF RingType
<1>5. Kept \in Nat /\ Kept' \in Nat /\ Kept' <= Kept
  BY <1>1, <1>2, <1>3 DEF RingType, Kept
<1>6. Intact'
  BY <1>5 DEF RingOK, Intact, Behind
<1>7. PosOnRead' = PosOnRead + d
  BY <1>1, <1>3 DEF PosOnRead, RingType
<1> QED
  BY <1>1, <1>3, <1>4, <1>6, <1>7 DEF RingOK, PosOnRead, RingType

(* A fill puts its bytes behind the others, and leaves those it has not    *)
(* overwritten where they were.                                            *)
LEMMA Fills ==
  ASSUME RingType, RingOK, NEW n \in Given(BlockReadSize), Filled(n), title' = title
  PROVE  RingType' /\ RingOK' /\ PosOnRead' = PosOnRead
<1>1. Forward \in 0 .. BufferSize - 1
  BY ForwardBound
<1>2. n \in Nat \ {0} /\ n <= Room(BlockReadSize)
  BY DEF Given, Least, Room, RingType
<1>3. /\ wp + n <= BufferSize
      /\ Forward + n < BufferSize
  BY <1>1, <1>2 DEF Room, Least, Forward, RingType
<1>4. /\ wp' \in 0 .. BufferSize - 1
      /\ Forward' = Forward + n
  BY <1>1, <1>2, <1>3, SMTT(30) DEF Filled, Wrapped, Forward, RingType, Room, Least
<1>5. RingType'
  <2>1. \A i \in 0 .. BufferSize - 1 : <<title, low + (i - wp)>> \in Nat \X Int
    BY DEF RingType
  <2>2. buffer' \in [0 .. BufferSize - 1 -> Nat \X Int]
    BY <2>1 DEF Filled, RingType
  <2>3. /\ valid' \in Nat /\ pos' \in Nat /\ low' \in Nat /\ title' \in Nat
        /\ rp' \in 0 .. BufferSize - 1
    BY <1>2 DEF Filled, RingType
  <2> QED
    BY <1>4, <2>2, <2>3 DEF RingType
<1>6. Kept \in Nat /\ Kept' \in Nat /\ Kept' <= Kept + n /\ Kept' <= BufferSize
  BY <1>1, <1>2, <1>3, <1>4, SMTT(30) DEF Filled, RingType, Kept
<1>7. ASSUME NEW k \in 1 .. Kept'
      PROVE  buffer'[Behind(k)'] = <<title', pos' - k>>
  <2>1. CASE k <= n
    <3>1. Behind(k)' = wp + n - k
      BY <1>2, <1>3, <1>6, <2>1 DEF Filled, Wrapped, Behind, RingType
    <3>2. buffer'[wp + n - k] = <<title, low + (wp + n - k - wp)>>
      BY <1>2, <1>3, <1>6, <2>1, SMTT(30) DEF Filled, RingType
    <3>3. low + (wp + n - k - wp) = pos' - k
      BY <1>2, <1>6, <2>1 DEF Filled, RingType, RingOK
    <3> QED
      BY <3>1, <3>2, <3>3
  <2>2. CASE k > n
    <3>1. /\ Behind(k)' = Behind(k - n)
          /\ Behind(k - n) \in 0 .. BufferSize - 1
          /\ ~(wp <= Behind(k - n) /\ Behind(k - n) < wp + n)
      BY <1>2, <1>3, <1>6, <2>2 DEF Filled, Wrapped, Behind, RingType
    <3>2. buffer'[Behind(k - n)] = buffer[Behind(k - n)]
      BY <3>1 DEF Filled
    <3>3. buffer[Behind(k - n)] = <<title, pos - (k - n)>>
      BY <1>2, <1>6, <2>2 DEF RingOK, Intact
    <3> QED
      BY <1>2, <1>6, <3>1, <3>2, <3>3 DEF Filled, RingType
  <2> QED
    BY <1>2, <1>6, <2>1, <2>2
<1>8. Intact'
  BY <1>7 DEF Intact
<1>9. low' = pos' /\ Forward' <= pos' /\ PosOnRead' = PosOnRead
  BY <1>1, <1>2, <1>4, SMTT(30) DEF RingOK, Filled, PosOnRead, RingType
<1> QED
  BY <1>5, <1>8, <1>9 DEF RingOK

(* An emptied ring holds nothing. *)
LEMMA Empties ==
  ASSUME NEW p \in Nat, Emptied(p), low' = p, title' \in Nat
  PROVE  RingType' /\ RingOK' /\ PosOnRead' = p
<1>1. Stale \in Nat \X Int
  BY DEF Stale
<1>2. RingType'
  BY <1>1 DEF Emptied, RingType
<1>3. Forward' = 0 /\ Kept' = 0
  BY DEF Emptied, Forward, Kept
<1> QED
  BY <1>2, <1>3 DEF Emptied, RingOK, Intact, PosOnRead

(* What a seek that failed keeps: the bytes not yet read. *)
LEMMA Refuses ==
  ASSUME RingType, RingOK, valid' = 0, low' = pos, UNCHANGED <<buffer, rp, wp, pos, title>>
  PROVE  RingType' /\ RingOK' /\ PosOnRead' = PosOnRead
<1>1. Forward \in 0 .. BufferSize - 1 /\ Forward' = Forward
  BY ForwardBound DEF Forward
<1>2. Kept \in Nat /\ Kept' \in Nat /\ Kept' <= Kept
  BY <1>1 DEF Kept, RingType
<1>3. ASSUME NEW k \in 1 .. Kept'
      PROVE  buffer'[Behind(k)'] = <<title', pos' - k>>
  <2>1. k \in 1 .. Kept
    BY <1>2
  <2>2. Behind(k)' = Behind(k)
    BY DEF Behind
  <2> QED
    BY <2>1, <2>2 DEF RingOK, Intact
<1>4. Intact'
  BY <1>3 DEF Intact
<1> QED
  BY <1>1, <1>4 DEF RingType, RingOK, PosOnRead

LEMMA Rests ==
  ASSUME RingType, RingOK, UNCHANGED <<ring, low, title>>
  PROVE  RingType' /\ RingOK' /\ PosOnRead' = PosOnRead
BY DEF ring, RingType, RingOK, Intact, Kept, Forward, Behind, PosOnRead
-----------------------------------------------------------------------------
(* A call that returns with an error, or that was not a seek, or that got  *)
(* where it was to go, returns as it should.                               *)
LEMMA Returns ==
  ASSUME CallType, CallOK, pc # "idle", RingType', NEW r \in Int, Return(r), source' = source,
         target \in 0 .. FileSize /\ r >= 0 /\ ~cut => PosOnRead' = target
  PROVE  CallType' /\ CallOK' /\ SeekLands'
BY DEF CallType, CallOK, Return, SeekLands

(* A call that goes on. *)
LEMMA Continues ==
  ASSUME CallType, CallOK, pc' = pc, target' = target, failed' = failed, cut' = cut,
         source' = source, ret' = ret, len' \in Nat, got' \in Nat,
         pc \in {"read", "skip"},
         pc = "skip" => len' > 0 /\ (~cut => target = PosOnRead' + len')
  PROVE  CallType' /\ CallOK' /\ SeekLands'
BY DEF CallType, CallOK, SeekLands

LEMMA GivenType ==
  ASSUME RingType, NEW size \in Nat, NEW n \in Given(size)
  PROVE  n \in Nat \ {0}
BY DEF Given, RingType
-----------------------------------------------------------------------------
LEMMA InitInv == Init => LoopBufferInv
<1> SUFFICES ASSUME Init PROVE LoopBufferInv
  OBVIOUS
<1>1. Stale \in Nat \X Int
  BY DEF Stale
<1>2. RingType
  BY <1>1 DEF Init, RingType
<1>5. CallType
  <2>1. failed \in BOOLEAN /\ cut \in BOOLEAN
    BY DEF Init
  <2>2. target = -1 /\ target \in Int
    BY DEF Init
  <2>3. len \in Nat /\ got \in Nat /\ ret \in Int
    BY DEF Init
  <2> QED
    BY <2>1, <2>2, <2>3 DEF Init, CallType
<1>3. Forward = 0 /\ Kept = 0
  BY DEF Init, Forward, Kept
<1>4. RingOK
  BY <1>3 DEF Init, RingOK, Intact
<1> QED
  BY <1>2, <1>4, <1>5 DEF LoopBufferInv, Init, CallOK, SeekLands

LEMMA RequestInv == LoopBufferInv /\ Request => LoopBufferInv'
<1> SUFFICES ASSUME LoopBufferInv, NEW c \in {"read", "buffering", "seek", "seek_end", "seek_time"},
                    NEW n \in Nat, NEW t \in Int, Call(c, n, t),
                    c = "seek" => n = t,
                    c = "seek_end" => n <= FileSize /\ t = FileSize - n,
                    c = "seek_time" => t = 0,
                    c \in {"read", "buffering"} => t = -1
             PROVE  LoopBufferInv'
  BY DEF Request
<1>1. RingType /\ CallType
  BY DEF LoopBufferInv
<1>2. RingType' /\ RingOK'
  BY <1>1, Rests DEF LoopBufferInv, Call
<1>3. CallType'
  <2>1. failed' \in BOOLEAN /\ cut' \in BOOLEAN
    BY DEF Call
  <2>2. len' \in Nat /\ got' \in Nat /\ ret' \in Int /\ target' \in Int
    BY DEF Call
  <2> QED
    BY <1>1, <2>1, <2>2 DEF Call, CallType
<1>4. CallOK' /\ SeekLands'
  BY DEF Call, CallOK, SeekLands
<1> QED
  BY <1>2, <1>3, <1>4 DEF LoopBufferInv

LEMMA BufferingInv == LoopBufferInv /\ Buffering => LoopBufferInv'
<1> SUFFICES ASSUME LoopBufferInv, Buffering PROVE LoopBufferInv'
  OBVIOUS
<1>1. RingType /\ CallType /\ RingOK /\ CallOK
  BY DEF LoopBufferInv
<1>2. pc = "buffering" /\ target = -1
  BY <1>1 DEF Buffering, CallOK
<1>3. ASSUME RingType', NEW r \in Int, Return(r)
      PROVE  CallType' /\ CallOK' /\ SeekLands'
  BY <1>1, <1>2, <1>3, Returns DEF Buffering
<1>4. CASE \E n \in Given(BlockReadSize) : Filled(n) /\ Return(n)
  BY <1>1, <1>3, <1>4, Fills, GivenType DEF Buffering, LoopBufferInv
<1>5. CASE \E r \in {0, EIO, EAGAIN} : NotFilled(BlockReadSize, r) /\ Return(r)
  BY <1>1, <1>3, <1>5, Rests DEF Buffering, NotFilled, EIO, EAGAIN, LoopBufferInv
<1>6. CASE UNCHANGED <<ring, low>> /\ Return(-1)
  BY <1>1, <1>3, <1>6, Rests DEF Buffering, LoopBufferInv
<1> QED
  BY <1>4, <1>5, <1>6 DEF Buffering

(* Bytes taken from the ring, by a read or a skip. *)
LEMMA Takes ==
  ASSUME RingType, RingOK, NEW size \in Nat, NEW n, n = Least(size, Contiguous), n > 0,
         rp' = Wrapped(rp + n), UNCHANGED <<buffer, wp, valid, pos, title, low>>
  PROVE  /\ n \in 1 .. Contiguous /\ n <= size
         /\ RingType' /\ RingOK' /\ PosOnRead' = PosOnRead + n
<1>1. Forward \in 0 .. BufferSize - 1 /\ Contiguous \in 0 .. Forward
  BY ForwardBound
<1>2. n \in 1 .. Contiguous /\ n <= size
  BY <1>1 DEF Least
<1>3. Back \in Nat
  BY BackBound
<1>4. PosOnRead \in Nat
  BY <1>1 DEF RingOK, RingType, PosOnRead
<1> QED
  BY <1>1, <1>2, <1>3, <1>4, Moves

LEMMA CopyInv == LoopBufferInv /\ Copy => LoopBufferInv'
<1> SUFFICES ASSUME LoopBufferInv, Copy PROVE LoopBufferInv'
  OBVIOUS
<1> DEFINE n == Least(len, Contiguous)
<1>1. RingType /\ CallType /\ RingOK /\ CallOK
  BY DEF LoopBufferInv
<1>2. pc = "read" /\ target = -1
  BY <1>1 DEF Copy, CallOK
<1>3. /\ n \in 1 .. Contiguous /\ n <= len
      /\ RingType' /\ RingOK' /\ PosOnRead' = PosOnRead + n
  BY <1>1, Takes DEF Copy, CallType
<1>4. n \in Nat
  BY <1>1, <1>3, ForwardBound
<1>5. CallType' /\ CallOK' /\ SeekLands'
  BY <1>1, <1>2, <1>3, <1>4 DEF Copy, CallType, CallOK, SeekLands
<1> QED
  BY <1>3, <1>5 DEF LoopBufferInv

LEMMA FillForReadInv == LoopBufferInv /\ FillForRead => LoopBufferInv'
<1> SUFFICES ASSUME LoopBufferInv, FillForRead PROVE LoopBufferInv'
  OBVIOUS
<1>1. RingType /\ CallType /\ RingOK /\ CallOK
  BY DEF LoopBufferInv
<1>2. pc = "read" /\ target = -1
  BY <1>1 DEF FillForRead, CallOK
<1>3. CASE \E n \in Given(BlockReadSize) :
             Filled(n) /\ UNCHANGED <<pc, len, got, out, ret, target, failed, cut>>
  <2>1. RingType' /\ RingOK'
    BY <1>1, <1>3, Fills DEF FillForRead
  <2>2. CallType' /\ CallOK' /\ SeekLands'
    BY <1>1, <1>2, <1>3 DEF FillForRead, CallType, CallOK, SeekLands
  <2> QED
    BY <2>1, <2>2 DEF LoopBufferInv
<1>4. CASE \E r \in {0, EIO, EAGAIN} :
             NotFilled(BlockReadSize, r) /\ Return(IF got > 0 THEN got ELSE r)
  <2>1. RingType' /\ RingOK'
    BY <1>1, <1>4, Rests DEF FillForRead, NotFilled
  <2>2. PICK r \in {0, EIO, EAGAIN} : Return(IF got > 0 THEN got ELSE r)
    BY <1>4
  <2>3. (IF got > 0 THEN got ELSE r) \in Int
    BY <1>1 DEF CallType, EIO, EAGAIN
  <2>4. CallType' /\ CallOK' /\ SeekLands'
    BY <1>1, <1>2, <2>1, <2>2, <2>3, Returns DEF FillForRead
  <2> QED
    BY <2>1, <2>4 DEF LoopBufferInv
<1> QED
  BY <1>3, <1>4 DEF FillForRead

LEMMA SeekInRingInv == LoopBufferInv /\ SeekInRing => LoopBufferInv'
<1> SUFFICES ASSUME LoopBufferInv, SeekInRing PROVE LoopBufferInv'
  OBVIOUS
<1>1. RingType /\ CallType /\ RingOK /\ CallOK
  BY DEF LoopBufferInv
<1>2. pc = "seek" /\ len = target
  BY <1>1 DEF SeekInRing, CallOK
<1>3. /\ Forward \in 0 .. BufferSize - 1 /\ Back \in Nat
      /\ PosOnRead \in Nat
  <2>1. Forward \in 0 .. BufferSize - 1 /\ Back \in Nat
    BY <1>1, ForwardBound, BackBound
  <2>2. pos \in Nat /\ Forward <= pos
    BY <1>1 DEF RingOK, RingType
  <2> QED
    BY <2>1, <2>2 DEF PosOnRead
<1>4. /\ Distance \in Int /\ -Back <= Distance /\ Distance <= Forward
      /\ PosOnRead + Distance = len
  BY <1>1, <1>3 DEF SeekInRing, InRing, Distance, CallType
<1>5. RingType' /\ RingOK' /\ PosOnRead' = len
  BY <1>1, <1>3, <1>4, Moves DEF SeekInRing, CallType, ring
<1>6. CallType' /\ CallOK' /\ SeekLands'
  BY <1>1, <1>2, <1>5, Returns DEF SeekInRing, CallType
<1> QED
  BY <1>5, <1>6 DEF LoopBufferInv

(* An int keeps what it can hold, and of a greater number some other one. *)
LEMMA AsIntHolds ==
  ASSUME NEW n \in Nat
  PROVE  AsInt(n) \in Int /\ (n < IntLimit => AsInt(n) = n)
<1> DEFINE m == 2 * IntLimit
<1>1. m \in Nat \ {0} /\ m > IntLimit
  OBVIOUS
<1>2. AsInt(n) = IF (n % m) >= IntLimit THEN (n % m) - m ELSE n % m
  BY DEF AsInt
<1> HIDE DEF m
<1>3. n % m \in Int /\ (n < m => n % m = n)
  BY <1>1
<1> QED
  BY <1>1, <1>2, <1>3

(* A seek by reading begins beyond what the ring holds. *)
LEMMA SeekByReadingMoves ==
  ASSUME LoopBufferInv, SeekByReading
  PROVE  /\ RingType' /\ RingOK'
         /\ PosOnRead' = pos
         /\ PassOver(Distance - Forward)
         /\ Distance - Forward \in Nat \ {0} /\ len = PosOnRead' + (Distance - Forward)
<1>1. RingType /\ CallType /\ RingOK /\ CallOK
  BY DEF LoopBufferInv
<1>2. Forward \in 0 .. BufferSize - 1 /\ Back \in Nat /\ PosOnRead = pos - Forward
  BY <1>1, ForwardBound, BackBound DEF PosOnRead
<1>3. Distance > 0
  BY DEF SeekByReading, ByReading
<1>4. Distance > Forward /\ Distance \in Int
  BY <1>1, <1>2, <1>3 DEF SeekByReading, InRing, Distance, CallType, RingType
<1>5. rp' = Wrapped(rp + Forward)
  BY <1>1 DEF SeekByReading, PassOver, Wrapped, Forward, RingType
<1>6. RingType' /\ RingOK' /\ PosOnRead' = PosOnRead + Forward
  <2>1. Forward \in Int /\ -Back <= Forward /\ PosOnRead + Forward >= 0
    BY <1>1, <1>2 DEF RingType
  <2>2. UNCHANGED <<buffer, wp, valid, pos, title, low>>
    BY DEF SeekByReading, PassOver
  <2> QED
    BY <1>1, <1>5, <2>1, <2>2, Moves
<1>7. PosOnRead' = pos
  BY <1>1, <1>2, <1>6 DEF RingType
<1>8. Distance - Forward \in Nat \ {0}
  BY <1>2, <1>4
<1>9. len = pos + (Distance - Forward)
  BY <1>1, <1>2 DEF Distance, CallType, RingType
<1> QED
  BY <1>6, <1>7, <1>8, <1>9 DEF SeekByReading

LEMMA SeekByReadingInv == LoopBufferInv /\ SeekByReading => LoopBufferInv'
<1> SUFFICES ASSUME LoopBufferInv, SeekByReading PROVE LoopBufferInv'
  OBVIOUS
<1> DEFINE k == Distance - Forward
<1>1. CallType /\ CallOK /\ pc = "seek" /\ len = target /\ len \in Nat
  BY DEF LoopBufferInv, SeekByReading, CallOK, CallType
<1>2. /\ RingType' /\ RingOK'
      /\ PassOver(k) /\ k \in Nat \ {0} /\ len = PosOnRead' + k
  BY SeekByReadingMoves
<1> HIDE DEF k
<1>3. AsInt(k) \in Int /\ (k < IntLimit => AsInt(k) = k)
  BY <1>2, AsIntHolds
<1>4. cut' = (k >= IntLimit) /\ UNCHANGED <<source, target, failed>>
  BY <1>2 DEF PassOver
<1>5. (cut' = TRUE) \/ (cut' = FALSE /\ k < IntLimit)
  <2>1. CASE k >= IntLimit
    BY <1>4, <2>1
  <2>2. CASE ~(k >= IntLimit)
    <3>1. k < IntLimit
      BY <1>2, <2>2
    <3> QED
      BY <1>4, <2>2, <3>1
  <2> QED
    BY <2>1, <2>2
<1>6. CASE AsInt(k) > 0
  <2>1. /\ pc' = "skip" /\ len' = AsInt(k) /\ UNCHANGED <<got, ret>>
        /\ len' \in Nat /\ len' > 0
    BY <1>2, <1>3, <1>6 DEF PassOver
  <2>2. ~cut' => len' = k
    BY <1>3, <1>5, <2>1
  <2>3. CallType'
    BY <1>1, <1>4, <1>5, <2>1 DEF CallType
  <2>4. CallOK' /\ SeekLands'
    BY <1>1, <1>2, <1>4, <2>1, <2>2 DEF CallOK, SeekLands
  <2> QED
    BY <1>2, <2>3, <2>4 DEF LoopBufferInv
<1>7. CASE ~(AsInt(k) > 0)
  <2>1. pc' = "idle" /\ len' = 0 /\ got' = 0 /\ ret' = len
    BY <1>2, <1>7 DEF PassOver
  <2>2. ~(k < IntLimit)
    BY <1>2, <1>3, <1>7
  <2>3. CallType'
    BY <1>1, <1>4, <1>5, <2>1 DEF CallType
  <2>4. CallOK' /\ SeekLands'
    BY <1>5, <2>1, <2>2 DEF CallOK, SeekLands
  <2> QED
    BY <1>2, <2>3, <2>4 DEF LoopBufferInv
<1> QED
  BY <1>6, <1>7

LEMMA SeekSourceInv == LoopBufferInv /\ SeekSource => LoopBufferInv'
<1> SUFFICES ASSUME LoopBufferInv, SeekSource PROVE LoopBufferInv'
  OBVIOUS
<1>1. RingType /\ CallType /\ RingOK /\ CallOK
  BY DEF LoopBufferInv
<1>2. pc = "seek" /\ len = target /\ len \in Nat
  BY <1>1 DEF SeekSource, CallOK, CallType
<1>3. CASE Emptied(len) /\ low' = len /\ Return(len)
  <2>1. RingType' /\ RingOK' /\ PosOnRead' = len
    BY <1>1, <1>2, <1>3, Empties DEF SeekSource, RingType
  <2>2. CallType' /\ CallOK' /\ SeekLands'
    BY <1>1, <1>2, <1>3, <2>1, Returns DEF SeekSource
  <2> QED
    BY <2>1, <2>2 DEF LoopBufferInv
<1>4. CASE UNCHANGED <<ring, low>> /\ Return(-1)
  <2>1. RingType' /\ RingOK'
    BY <1>1, <1>4, Rests DEF SeekSource
  <2>2. CallType' /\ CallOK' /\ SeekLands'
    BY <1>1, <1>2, <1>4, <2>1, Returns DEF SeekSource
  <2> QED
    BY <2>1, <2>2 DEF LoopBufferInv
<1>5. CASE /\ valid' = 0
           /\ \/ low' = pos /\ ret' = pos
              \/ low' = low /\ ret' = EIO
           /\ pc' = "idle" /\ failed' = TRUE
           /\ len' = 0 /\ got' = 0
           /\ UNCHANGED <<buffer, rp, wp, pos, out, target, cut>>
  <2>1. RingType' /\ RingOK'
    <3>1. low' = pos
      BY <1>1, <1>5 DEF RingOK
    <3> QED
      BY <1>1, <1>5, <3>1, Refuses DEF SeekSource
  <2>2. failed' \in BOOLEAN
    BY <1>5
  <2>3. ret' \in Int
    BY <1>1, <1>5 DEF RingType, EIO
  <2>4. CallType'
    BY <1>1, <1>5, <2>2, <2>3 DEF SeekSource, CallType
  <2>5. CallOK' /\ SeekLands'
    BY <1>5 DEF CallOK, SeekLands
  <2> QED
    BY <2>1, <2>4, <2>5 DEF LoopBufferInv
<1> QED
  BY <1>3, <1>4, <1>5 DEF SeekSource

LEMMA SkipInv == LoopBufferInv /\ Skip => LoopBufferInv'
<1> SUFFICES ASSUME LoopBufferInv, Skip PROVE LoopBufferInv'
  OBVIOUS
<1> DEFINE n == Least(len, Contiguous)
<1>1. RingType /\ CallType /\ RingOK /\ CallOK
  BY DEF LoopBufferInv
<1>2. pc = "skip" /\ len > 0 /\ (~cut => target = PosOnRead + len) /\ ~failed
  BY <1>1 DEF Skip, CallOK
<1>3. /\ n \in 1 .. Contiguous /\ n <= len
      /\ RingType' /\ RingOK' /\ PosOnRead' = PosOnRead + n
  BY <1>1, Takes DEF Skip, CallType
<1>4. n \in Nat /\ PosOnRead \in Int
  <2>1. Forward \in Nat /\ Contiguous \in Nat /\ pos \in Nat
    BY <1>1, ForwardBound DEF RingType
  <2>2. PosOnRead \in Int
    BY <2>1 DEF PosOnRead
  <2> HIDE DEF n
  <2> QED
    BY <1>3, <2>1, <2>2
<1>5. CASE len = n
  <2>1. pc' = "idle" /\ ret' = 0 /\ got' = 0 /\ len' = 0
    BY <1>1, <1>5 DEF Skip, CallType
  <2>2. CallType'
    BY <1>1, <2>1 DEF Skip, CallType
  <2>3. CallOK' /\ SeekLands'
    BY <1>2, <1>3, <1>5, <2>1 DEF Skip, CallOK, SeekLands
  <2> QED
    BY <1>3, <2>2, <2>3 DEF LoopBufferInv
<1>6. CASE len # n
  <2>1. /\ len' \in Nat /\ got' \in Nat /\ len' > 0
        /\ ~cut => target = PosOnRead' + len'
    BY <1>1, <1>2, <1>3, <1>4, <1>6 DEF Skip, CallType
  <2>2. CallType' /\ CallOK' /\ SeekLands'
    BY <1>1, <1>2, <1>6, <2>1, Continues DEF Skip
  <2> QED
    BY <1>3, <2>2 DEF LoopBufferInv
<1> QED
  BY <1>5, <1>6

(* A fill that finds no byte left finds the end of the title: there was    *)
(* room for one.                                                           *)
LEMMA EmptyHasRoom ==
  ASSUME RingType, Contiguous = 0
  PROVE  Room(BlockReadSize) \in Nat \ {0}
BY DEF RingType, Contiguous, Room, Least

LEMMA FillForSkipInv == LoopBufferInv /\ FillForSkip => LoopBufferInv'
<1> SUFFICES ASSUME LoopBufferInv, FillForSkip PROVE LoopBufferInv'
  OBVIOUS
<1>1. RingType /\ CallType /\ RingOK /\ CallOK
  BY DEF LoopBufferInv
<1>2. pc = "skip" /\ len > 0 /\ len \in Nat /\ (~cut => target = PosOnRead + len)
  BY <1>1 DEF FillForSkip, CallOK, CallType
<1>3. CASE \E n \in Given(BlockReadSize) :
             Filled(n) /\ UNCHANGED <<pc, len, got, out, ret, target, failed, cut>>
  <2>1. RingType' /\ RingOK' /\ PosOnRead' = PosOnRead
    BY <1>1, <1>3, Fills DEF FillForSkip
  <2>2. CallType' /\ CallOK' /\ SeekLands'
    BY <1>1, <1>2, <1>3, <2>1, Continues DEF FillForSkip, CallType
  <2> QED
    BY <2>1, <2>2 DEF LoopBufferInv
<1>4. ASSUME NEW r \in {0, EIO, EAGAIN}, NotFilled(BlockReadSize, r),
             IF got > 0 \/ r = EAGAIN
             THEN got' = 0 /\ UNCHANGED <<pc, len, out, ret, target, failed, cut>>
             ELSE Return(r)
      PROVE  LoopBufferInv'
  <2>1. RingType' /\ RingOK' /\ PosOnRead' = PosOnRead
    BY <1>1, <1>4, Rests DEF FillForSkip, NotFilled
  <2>2. CASE got > 0 \/ r = EAGAIN
    <3>1. CallType' /\ CallOK' /\ SeekLands'
      BY <1>1, <1>2, <1>4, <2>1, <2>2, Continues DEF FillForSkip, CallType
    <3> QED
      BY <2>1, <3>1 DEF LoopBufferInv
  <2>3. CASE ~(got > 0 \/ r = EAGAIN)
    <3>1. r \in Int /\ Return(r)
      BY <1>4, <2>3 DEF EIO, EAGAIN
    <3>2. Forward = 0
      BY <1>1, ForwardBound DEF FillForSkip
    <3>3. r = 0 => pos >= FileSize
      <4>1. ~(Room(BlockReadSize) <= 0)
        BY <1>1, EmptyHasRoom DEF FillForSkip
      <4>2. low = pos
        BY <1>1 DEF RingOK
      <4> QED
        BY <1>4, <4>1, <4>2 DEF NotFilled, EIO, EAGAIN
    <3>4. target \in 0 .. FileSize /\ ~cut => r # 0
      BY <1>1, <1>2, <3>2, <3>3 DEF PosOnRead, RingType
    <3>5. target \in 0 .. FileSize /\ ~cut => ~(r >= 0)
      BY <1>4, <3>4 DEF EIO, EAGAIN
    <3>6. CallType' /\ CallOK' /\ SeekLands'
      BY <1>1, <1>2, <2>1, <3>1, <3>5, Returns DEF FillForSkip
    <3> QED
      BY <2>1, <3>6 DEF LoopBufferInv
  <2> QED
    BY <2>2, <2>3
<1> QED
  BY <1>3, <1>4 DEF FillForSkip

LEMMA SeekEndInv == LoopBufferInv /\ SeekEnd => LoopBufferInv'
<1> SUFFICES ASSUME LoopBufferInv, SeekEnd PROVE LoopBufferInv'
  OBVIOUS
<1>1. RingType /\ CallType /\ RingOK /\ CallOK
  BY DEF LoopBufferInv
<1>2. pc = "seek_end" /\ target = FileSize - len /\ FileSize - len \in Nat
  BY <1>1 DEF SeekEnd, CallOK, CallType
<1>3. CASE Emptied(FileSize - len) /\ low' = FileSize - len /\ Return(FileSize - len)
  <2>1. RingType' /\ RingOK' /\ PosOnRead' = FileSize - len
    BY <1>1, <1>2, <1>3, Empties DEF SeekEnd, RingType
  <2>2. CallType' /\ CallOK' /\ SeekLands'
    BY <1>1, <1>2, <1>3, <2>1, Returns DEF SeekEnd
  <2> QED
    BY <2>1, <2>2 DEF LoopBufferInv
<1>4. CASE UNCHANGED <<ring, low>> /\ Return(EIO)
  <2>1. RingType' /\ RingOK'
    BY <1>1, <1>4, Rests DEF SeekEnd
  <2>2. EIO \in Int /\ ~(EIO >= 0)
    BY DEF EIO
  <2>3. CallType' /\ CallOK' /\ SeekLands'
    BY <1>1, <1>2, <1>4, <2>1, <2>2, Returns DEF SeekEnd
  <2> QED
    BY <2>1, <2>3 DEF LoopBufferInv
<1> QED
  BY <1>3, <1>4 DEF SeekEnd

LEMMA SeekTimeInv == LoopBufferInv /\ SeekTime => LoopBufferInv'
<1> SUFFICES ASSUME LoopBufferInv, SeekTime PROVE LoopBufferInv'
  OBVIOUS
<1>1. RingType /\ CallType /\ RingOK /\ CallOK
  BY DEF LoopBufferInv
<1>2. pc = "seek_time" /\ target = 0
  BY <1>1 DEF SeekTime, CallOK
<1>3. CASE Emptied(0) /\ low' = 0 /\ title' = title + 1 /\ Return(0)
  <2>1. RingType' /\ RingOK' /\ PosOnRead' = 0
    <3>1. title' \in Nat
      BY <1>1, <1>3 DEF RingType
    <3>2. 0 \in Nat
      OBVIOUS
    <3> QED
      BY <1>3, <3>1, <3>2, Empties
  <2>2. CallType' /\ CallOK' /\ SeekLands'
    BY <1>1, <1>2, <1>3, <2>1, Returns DEF SeekTime
  <2> QED
    BY <2>1, <2>2 DEF LoopBufferInv
<1>4. CASE UNCHANGED <<ring, low, title>> /\ Return(EIO)
  <2>1. RingType' /\ RingOK'
    BY <1>1, <1>4, Rests
  <2>2. EIO \in Int /\ ~(EIO >= 0)
    BY DEF EIO
  <2>3. CallType' /\ CallOK' /\ SeekLands'
    BY <1>1, <1>2, <1>4, <2>1, <2>2, Returns DEF SeekTime
  <2> QED
    BY <2>1, <2>3 DEF LoopBufferInv
<1> QED
  BY <1>3, <1>4 DEF SeekTime
-----------------------------------------------------------------------------
(* The inductive invariant: the ring and the source agree on where they    *)
(* stand, what is kept is intact, and each call knows where it is going.   *)
THEOREM LoopBufferInvariant == Spec => []LoopBufferInv
<1>1. LoopBufferInv /\ UNCHANGED vars => LoopBufferInv'
  <2> SUFFICES ASSUME LoopBufferInv, UNCHANGED vars PROVE LoopBufferInv'
    OBVIOUS
  <2>1. RingType' /\ RingOK'
    BY Rests DEF LoopBufferInv, vars, ring
  <2> QED
    BY <2>1 DEF LoopBufferInv, vars, CallType, CallOK, SeekLands, PosOnRead, Forward
<1>2. LoopBufferInv /\ [Next]_vars => LoopBufferInv'
  BY <1>1, RequestInv, BufferingInv, CopyInv, FillForReadInv, SeekInRingInv, SeekByReadingInv,
     SeekSourceInv, SkipInv, FillForSkipInv, SeekEndInv, SeekTimeInv DEF Next, Serve
<1> QED
  BY <1>2, InitInv, PTL DEF Spec

(* Every variable keeps its type, the pointers their ring. *)
THEOREM LoopBufferTypes == Spec => []TypeOK
<1>1. LoopBufferInv => TypeOK
  BY DEF LoopBufferInv, RingType, CallType, TypeOK
<1> QED
  BY <1>1, LoopBufferInvariant, PTL

(* What a read or a seek inside the ring can reach is there. *)
THEOREM LoopBufferHolds == Spec => []RingHolds
<1>1. LoopBufferInv => RingHolds
  <2> SUFFICES ASSUME LoopBufferInv, NEW k \in 1 .. Forward + Back
               PROVE  buffer[Behind(k)] = <<title, pos - k>>
    BY DEF RingHolds
  <2>1. Forward \in Nat /\ Back \in Nat /\ Kept \in Nat /\ Forward + Back <= Kept
    BY KeptBound, BackBound DEF LoopBufferInv
  <2>2. k \in 1 .. Kept
    BY <2>1
  <2> QED
    BY <2>2 DEF LoopBufferInv, RingOK, Intact
<1> QED
  BY <1>1, LoopBufferInvariant, PTL

(* A seek that reports success is where it was to go, for every size of    *)
(* the ring, of the title and of an int: the three exceptions of SeekLands *)
(* are the only ways in which the code reports success elsewhere.          *)
THEOREM LoopBufferSeeks == Spec => []SeekLands
<1>1. LoopBufferInv => SeekLands
  BY DEF LoopBufferInv
<1> QED
  BY <1>1, LoopBufferInvariant, PTL
-----------------------------------------------------------------------------
(* What the user is doing, before and after a step. *)
LEMMA WantIs ==
  ASSUME CallType
  PROVE  /\ pc = "read" => Want = "read"
         /\ pc \in {"seek", "skip", "seek_end", "seek_time"} => Want = "seek"
         /\ pc \in {"idle", "buffering"} => Want = "idle"
BY DEF CallType, Want

LEMMA WantWillBe ==
  ASSUME CallType'
  PROVE  /\ pc' = "read" => Want' = "read"
         /\ pc' \in {"seek", "skip", "seek_end", "seek_time"} => Want' = "seek"
         /\ pc' \in {"idle", "buffering"} => Want' = "idle"
BY DEF CallType, Want

(* A step of the abstract stream, or none. *)
StreamStep == [Stream!Next]_<<title, PosOnRead, Want, out>>

(* The ways in which a step of the loop buffer is one of the stream's. *)
LEMMA Stutters ==
  ASSUME UNCHANGED <<title, PosOnRead, Want, out>> PROVE StreamStep
BY DEF StreamStep

LEMMA IsForget ==
  ASSUME Want = "idle", Want' = "idle", out' = << >>, UNCHANGED <<title, PosOnRead>>
  PROVE  StreamStep
BY DEF StreamStep, Stream!Next, Stream!Forget

LEMMA IsCall ==
  ASSUME Want = "idle", Want' \in {"read", "seek"}, out' = << >>, UNCHANGED <<title, PosOnRead>>
  PROVE  StreamStep
BY DEF StreamStep, Stream!Next, Stream!Call

LEMMA IsReturn ==
  ASSUME Want' = "idle", UNCHANGED <<title, PosOnRead, out>>
  PROVE  StreamStep
BY DEF StreamStep, Stream!Next, Stream!Return

LEMMA IsMove ==
  ASSUME Want = "seek", Want' \in {"seek", "idle"}, PosOnRead' \in Nat,
         title' \in {title, title + 1}, out' = out
  PROVE  StreamStep
BY DEF StreamStep, Stream!Next, Stream!Move

LEMMA IsDeliver ==
  ASSUME Want = "read", Want' \in {"read", "idle"}, PosOnRead' \in Nat, PosOnRead' > PosOnRead,
         out' = [i \in 0 .. PosOnRead' - PosOnRead - 1 |-> <<title, PosOnRead + i>>],
         title' = title
  PROVE  StreamStep
BY DEF StreamStep, Stream!Next, Stream!Deliver

LEMMA FillSteps ==
  ASSUME LoopBufferInv, \E n \in Given(BlockReadSize) : Filled(n),
         UNCHANGED <<pc, title, out>>
  PROVE  StreamStep
<1>1. PosOnRead' = PosOnRead
  BY Fills DEF LoopBufferInv
<1>2. Want' = Want
  BY DEF Want
<1> QED
  BY <1>1, <1>2, Stutters

LEMMA ReturnSteps ==
  ASSUME LoopBufferInv, LoopBufferInv', NEW r, Return(r), title' = title,
         PosOnRead' = PosOnRead
  PROVE  StreamStep
<1>1. Want' = "idle"
  BY WantWillBe DEF LoopBufferInv, Return
<1> QED
  BY <1>1, IsReturn DEF Return

LEMMA RequestSteps == LoopBufferInv /\ LoopBufferInv' /\ Request => StreamStep
<1> SUFFICES ASSUME LoopBufferInv, LoopBufferInv',
                    NEW c \in {"read", "buffering", "seek", "seek_end", "seek_time"},
                    NEW n, NEW t, Call(c, n, t)
             PROVE  StreamStep
  BY DEF Request
<1>1. Want = "idle" /\ (Want' = "idle" \/ Want' \in {"read", "seek"})
  BY WantIs, WantWillBe DEF LoopBufferInv, Call
<1>2. PosOnRead' = PosOnRead
  BY Rests DEF LoopBufferInv, Call
<1> QED
  BY <1>1, <1>2, IsForget, IsCall DEF Call

LEMMA BufferingSteps == LoopBufferInv /\ LoopBufferInv' /\ Buffering => StreamStep
<1> SUFFICES ASSUME LoopBufferInv, LoopBufferInv', Buffering PROVE StreamStep
  OBVIOUS
<1>1. PosOnRead' = PosOnRead
  BY Fills, Rests DEF LoopBufferInv, Buffering, NotFilled
<1>2. \E r \in Int : Return(r)
  BY GivenType DEF LoopBufferInv, Buffering, EIO, EAGAIN
<1> QED
  BY <1>1, <1>2, ReturnSteps DEF Buffering

LEMMA CopySteps == LoopBufferInv /\ LoopBufferInv' /\ Copy => StreamStep
<1> SUFFICES ASSUME LoopBufferInv, LoopBufferInv', Copy PROVE StreamStep
  OBVIOUS
<1> DEFINE n == Least(len, Contiguous)
<1>1. RingType /\ CallType /\ RingOK
  BY DEF LoopBufferInv
<1>2. n \in 1 .. Contiguous /\ PosOnRead' = PosOnRead + n
  BY <1>1, Takes DEF Copy, CallType
<1>3. /\ Forward \in Nat /\ Contiguous \in 0 .. Forward /\ Kept \in Nat /\ Forward <= Kept
  BY <1>1, ForwardBound, KeptBound
<1>4. PosOnRead \in Nat /\ PosOnRead = pos - Forward
  BY <1>1, <1>3 DEF PosOnRead, RingOK, RingType
<1>5. ASSUME NEW i \in 0 .. n - 1
      PROVE  buffer[rp + i] = <<title, PosOnRead + i>>
  <2>1. i \in 0 .. Contiguous - 1 /\ Forward - i \in 1 .. Kept
    BY <1>2, <1>3
  <2>2. buffer[Behind(Forward - i)] = <<title, pos - (Forward - i)>>
    BY <1>1, <2>1 DEF RingOK, Intact
  <2>3. Behind(Forward - i) = rp + i
    BY <1>1, <2>1, BehindForward
  <2>4. pos - (Forward - i) = PosOnRead + i
    BY <1>1, <1>3, <1>4 DEF RingType
  <2> QED
    BY <2>2, <2>3, <2>4
<1>6. out' = [i \in 0 .. n - 1 |-> <<title, PosOnRead + i>>]
  BY <1>5 DEF Copy
<1>7. PosOnRead' - PosOnRead - 1 = n - 1
  BY <1>2, <1>3, <1>4
<1>8. Want = "read" /\ Want' \in {"read", "idle"}
  BY WantIs, WantWillBe DEF Copy, LoopBufferInv
<1>9. PosOnRead' \in Nat /\ PosOnRead' > PosOnRead /\ title' = title
  BY <1>2, <1>3, <1>4 DEF Copy
<1> QED
  BY <1>6, <1>7, <1>8, <1>9, IsDeliver

LEMMA FillForReadSteps == LoopBufferInv /\ LoopBufferInv' /\ FillForRead => StreamStep
<1> SUFFICES ASSUME LoopBufferInv, LoopBufferInv', FillForRead PROVE StreamStep
  OBVIOUS
<1>1. CASE \E n \in Given(BlockReadSize) :
             Filled(n) /\ UNCHANGED <<pc, len, got, out, ret, target, failed, cut>>
  BY <1>1, FillSteps DEF FillForRead
<1>2. CASE \E r \in {0, EIO, EAGAIN} :
             NotFilled(BlockReadSize, r) /\ Return(IF got > 0 THEN got ELSE r)
  BY <1>2, Rests, ReturnSteps DEF FillForRead, NotFilled, LoopBufferInv
<1> QED
  BY <1>1, <1>2 DEF FillForRead

(* The user stands at a place of the stream after a step. *)
LEMMA PlaceIsPlace ==
  ASSUME RingType', RingOK'
  PROVE  PosOnRead' \in Nat
<1>1. rp' \in Int /\ wp' \in Int
  BY DEF RingType
<1>2. Forward' \in Int
  BY <1>1 DEF Forward
<1>3. pos' \in Nat /\ Forward' <= pos'
  BY DEF RingType, RingOK
<1>4. PosOnRead' = pos' - Forward'
  BY DEF PosOnRead
<1>5. ASSUME NEW p \in Nat, NEW f \in Int, f <= p
      PROVE  p - f \in Nat
  BY <1>5
<1> QED
  BY <1>2, <1>3, <1>4, <1>5

(* A seek that gets anywhere ends at a place of the stream. *)
LEMMA MoveSteps ==
  ASSUME LoopBufferInv, LoopBufferInv', pc \in {"seek", "skip", "seek_end", "seek_time"},
         pc' \in {"skip", "idle"}, title' \in {title, title + 1}, out' = out
  PROVE  StreamStep
<1>1. PosOnRead' \in Nat
  BY PlaceIsPlace DEF LoopBufferInv
<1>2. Want = "seek" /\ Want' \in {"seek", "idle"}
  BY WantIs, WantWillBe DEF LoopBufferInv
<1> QED
  BY <1>1, <1>2, IsMove

LEMMA FillForSkipSteps == LoopBufferInv /\ LoopBufferInv' /\ FillForSkip => StreamStep
<1> SUFFICES ASSUME LoopBufferInv, LoopBufferInv', FillForSkip PROVE StreamStep
  OBVIOUS
<1>1. CASE \E n \in Given(BlockReadSize) :
             Filled(n) /\ UNCHANGED <<pc, len, got, out, ret, target, failed, cut>>
  BY <1>1, FillSteps DEF FillForSkip
<1>2. CASE pc' \in {"skip", "idle"} /\ out' = out
  BY <1>2, MoveSteps DEF FillForSkip
<1> QED
  BY <1>1, <1>2 DEF FillForSkip, Return

(* Every step of the loop buffer is a step of the stream, or none. *)
LEMMA NextSteps == LoopBufferInv /\ LoopBufferInv' /\ [Next]_vars => StreamStep
<1> SUFFICES ASSUME LoopBufferInv, LoopBufferInv', [Next]_vars PROVE StreamStep
  OBVIOUS
<1>1. CASE SeekInRing \/ SeekByReading \/ SeekSource \/ Skip \/ SeekEnd \/ SeekTime
  BY <1>1, MoveSteps
     DEF SeekInRing, SeekByReading, PassOver, SeekSource, Skip, SeekEnd, SeekTime, Return
<1>2. CASE UNCHANGED vars
  BY <1>2, Stutters DEF vars, PosOnRead, Forward, Want
<1> QED
  BY <1>1, <1>2, RequestSteps, BufferingSteps, CopySteps, FillForReadSteps, FillForSkipSteps
     DEF Next, Serve

LEMMA InitIsInit == Init => Stream!Init
BY DEF Init, Stream!Init, PosOnRead, Forward, Want

(* The user of the loop buffer sees a plain stream of bytes. *)
THEOREM LoopBufferStream == Spec => StreamSpec
BY InitIsInit, NextSteps, LoopBufferInvariant, PTL DEF Spec, StreamSpec, Stream!Spec, StreamStep
-----------------------------------------------------------------------------
(* What is left to do for a call: the bytes it wants, a fill when nothing  *)
(* can be copied, and a read to repeat when a skip has come to the end.    *)
Work == 4 * len + (IF Contiguous = 0 THEN 2 ELSE 0) + (IF got > 0 THEN 1 ELSE 0)

(* No round of the loops of url_lpread and of a seek by reading is in      *)
(* vain: each returns, or is the first of a seek by reading, or leaves     *)
(* less to do, so that a call goes round for ever only when the source     *)
(* answers a seek by reading with EAGAIN again and again, which changes    *)
(* nothing.                                                                *)
Progress ==
  [][pc # "idle" =>
       \/ pc' = "idle"
       \/ pc = "seek" /\ pc' = "skip"
       \/ pc' = pc /\ Work' < Work]_vars

LEMMA WorkIs ==
  ASSUME len \in Nat, Contiguous \in Nat, got \in Nat
  PROVE  /\ Work \in Nat
         /\ Contiguous = 0 => Work >= 4 * len + 2
         /\ got > 0 => Work >= 4 * len + 1
         /\ Work >= 4 * len
BY DEF Work

LEMMA WorkWillBe ==
  ASSUME len' \in Nat, got' \in Nat
  PROVE  Work' \in Nat /\ Work' <= 4 * len' + 3
<1> DEFINE fill == IF Contiguous' = 0 THEN 2 ELSE 0
           again == IF got' > 0 THEN 1 ELSE 0
<1>1. Work' = 4 * len' + fill + again
  BY DEF Work
<1>2. fill \in 0 .. 2 /\ again \in 0 .. 1
  OBVIOUS
<1> HIDE DEF fill, again
<1>3. ASSUME NEW l \in Nat, NEW f \in 0 .. 2, NEW a \in 0 .. 1
      PROVE  4 * l + f + a \in Nat /\ 4 * l + f + a <= 4 * l + 3
  BY <1>3
<1> QED
  BY <1>1, <1>2, <1>3

(* ForwardBound, of the ring a step leaves. *)
LEMMA ForwardWillBe ==
  ASSUME RingType'
  PROVE  /\ Forward' \in Nat
         /\ Contiguous' \in Nat
         /\ Contiguous' = 0 <=> Forward' = 0
<1>1. rp' \in 0 .. BufferSize - 1 /\ wp' \in 0 .. BufferSize - 1
  BY DEF RingType
<1>2. Forward' = IF wp' >= rp' THEN wp' - rp' ELSE BufferSize - (rp' - wp')
  BY DEF Forward
<1>3. Contiguous' = IF wp' >= rp' THEN wp' - rp' ELSE BufferSize - rp'
  BY DEF Contiguous
<1> DEFINE F(r, w) == IF w >= r THEN w - r ELSE BufferSize - (r - w)
           C(r, w) == IF w >= r THEN w - r ELSE BufferSize - r
<1>4. ASSUME NEW r \in 0 .. BufferSize - 1, NEW w \in 0 .. BufferSize - 1
      PROVE  F(r, w) \in Nat /\ C(r, w) \in Nat /\ (C(r, w) = 0 <=> F(r, w) = 0)
  BY <1>4
<1>5. Forward' = F(rp', wp') /\ Contiguous' = C(rp', wp')
  BY <1>2, <1>3
<1> HIDE DEF F, C
<1> QED
  BY <1>1, <1>4, <1>5

(* A fill that delivers anything makes a copy possible. *)
LEMMA FillEnables ==
  ASSUME LoopBufferInv, Contiguous = 0, NEW n \in Given(BlockReadSize), Filled(n),
         title' = title
  PROVE  Contiguous' \in Nat /\ Contiguous' # 0
<1>1. RingType /\ RingOK
  BY DEF LoopBufferInv
<1>2. RingType' /\ PosOnRead' = PosOnRead
  BY <1>1, Fills
<1>3. Forward = 0 /\ n \in Nat \ {0}
  BY <1>1, ForwardBound, GivenType
<1>4. /\ Forward' \in Nat
      /\ Contiguous' \in Nat
      /\ Contiguous' = 0 <=> Forward' = 0
  BY <1>2, ForwardWillBe
<1>5. pos \in Nat /\ pos' = pos + n
  BY <1>1 DEF Filled, RingType
<1>6. Forward' = n
  <2>1. pos' - Forward' = pos - 0
    BY <1>2, <1>3 DEF PosOnRead
  <2>2. (pos + n) - Forward' = pos - 0
    BY <1>5, <2>1
  <2>3. ASSUME NEW f \in Nat, (pos + n) - f = pos - 0
        PROVE  f = n
    BY <1>3, <1>5, <2>3
  <2> QED
    BY <1>4, <2>2, <2>3
<1> QED
  BY <1>3, <1>4, <1>6

(* What the loops have in common: a fill of a call that goes on. *)
LEMMA FillWorks ==
  ASSUME LoopBufferInv, Contiguous = 0, NEW n \in Given(BlockReadSize), Filled(n),
         title' = title, UNCHANGED <<len, got>>
  PROVE  Work' < Work
<1>1. Contiguous' \in Nat /\ Contiguous' # 0
  BY FillEnables
<1>2. len \in Nat /\ got \in Nat
  BY DEF LoopBufferInv, CallType
<1>3. Work = 4 * len + 2 + (IF got > 0 THEN 1 ELSE 0)
  BY <1>2 DEF Work
<1>4. Work' = 4 * len + (IF got > 0 THEN 1 ELSE 0)
  BY <1>1, <1>2 DEF Work
<1> QED
  BY <1>2, <1>3, <1>4

(* And a copy: what it delivers outweighs the fill it may make necessary. *)
LEMMA TakeWorks ==
  ASSUME LoopBufferInv, LoopBufferInv', NEW n, n = Least(len, Contiguous), n > 0,
         len' = len - n
  PROVE  Work' < Work
<1>1. len \in Nat /\ len' \in Nat /\ got \in Nat /\ got' \in Nat
  BY DEF LoopBufferInv, CallType
<1>2. RingType /\ RingType'
  BY DEF LoopBufferInv
<1>3. Forward \in Nat /\ Contiguous \in 0 .. Forward
  BY <1>2, ForwardBound
<1>5. Contiguous \in Nat
  BY <1>3
<1>6. n \in Nat \ {0}
  BY <1>1, <1>5 DEF Least
<1>7. Work \in Nat /\ Work >= 4 * len
  BY <1>1, <1>5, WorkIs
<1>8. Work' \in Nat /\ Work' <= 4 * len' + 3
  BY <1>1, WorkWillBe
<1> HIDE DEF Work
<1> QED
  BY <1>1, <1>6, <1>7, <1>8

LEMMA CopyProgress == LoopBufferInv /\ LoopBufferInv' /\ Copy => pc' = "idle" \/ Work' < Work
<1> SUFFICES ASSUME LoopBufferInv, LoopBufferInv', Copy, pc' # "idle" PROVE Work' < Work
  OBVIOUS
<1>1. Least(len, Contiguous) > 0 /\ len' = len - Least(len, Contiguous)
  BY DEF Copy
<1> QED
  BY <1>1, TakeWorks

LEMMA SkipProgress == LoopBufferInv /\ LoopBufferInv' /\ Skip => pc' = "idle" \/ Work' < Work
<1> SUFFICES ASSUME LoopBufferInv, LoopBufferInv', Skip, pc' # "idle" PROVE Work' < Work
  OBVIOUS
<1>1. Least(len, Contiguous) > 0 /\ len' = len - Least(len, Contiguous)
  BY DEF Skip
<1> QED
  BY <1>1, TakeWorks

LEMMA FillForReadProgress == LoopBufferInv /\ FillForRead => pc' = "idle" \/ Work' < Work
BY FillWorks DEF FillForRead, Return

(* A skip whose read has ended early repeats it; one that comes to nothing *)
(* again either returns or has changed nothing at all.                     *)
LEMMA FillForSkipProgress ==
  LoopBufferInv /\ FillForSkip => pc' = "idle" \/ Work' < Work \/ UNCHANGED vars
<1> SUFFICES ASSUME LoopBufferInv, FillForSkip PROVE pc' = "idle" \/ Work' < Work \/ UNCHANGED vars
  OBVIOUS
<1>1. CASE \E n \in Given(BlockReadSize) :
             Filled(n) /\ UNCHANGED <<pc, len, got, out, ret, target, failed, cut>>
  BY <1>1, FillWorks DEF FillForSkip
<1>2. ASSUME NEW r \in {0, EIO, EAGAIN}, NotFilled(BlockReadSize, r),
             got' = 0, UNCHANGED <<pc, len, out, ret, target, failed, cut>>
      PROVE  Work' < Work \/ UNCHANGED vars
  <2>1. len \in Nat /\ got \in Nat
    BY DEF LoopBufferInv, CallType
  <2>2. CASE got = 0
    BY <1>2, <2>2 DEF FillForSkip, NotFilled, vars, ring
  <2>3. CASE got > 0
    <3>1. Contiguous = 0 /\ Contiguous' = 0
      BY <1>2 DEF FillForSkip, NotFilled, ring, Contiguous
    <3>2. Work = 4 * len + 2 + 1 /\ Work' = 4 * len + 2 + 0
      BY <1>2, <2>1, <2>3, <3>1 DEF Work
    <3> QED
      BY <2>1, <3>2
  <2> QED
    BY <2>1, <2>2, <2>3
<1> QED
  BY <1>1, <1>2 DEF FillForSkip, Return

(* The safety half of CallsReturn, for every size of the ring: no round of *)
(* a call is in vain.                                                      *)
THEOREM LoopBufferProgress == Spec => Progress
<1> DEFINE Round == \/ pc' = "idle"
                    \/ pc = "seek" /\ pc' = "skip"
                    \/ pc' = pc /\ Work' < Work
<1>1. LoopBufferInv /\ LoopBufferInv' /\ Serve => Round \/ UNCHANGED vars
  <2> SUFFICES ASSUME LoopBufferInv, LoopBufferInv', Serve PROVE Round \/ UNCHANGED vars
    OBVIOUS
  <2>1. CASE Buffering \/ SeekInRing \/ SeekSource \/ SeekEnd \/ SeekTime
    BY <2>1 DEF Buffering, SeekInRing, SeekSource, SeekEnd, SeekTime, Return
  <2>2. CASE SeekByReading
    BY <2>2 DEF SeekByReading, PassOver
  <2>3. CASE Copy
    BY <2>3, CopyProgress DEF Copy
  <2>4. CASE Skip
    BY <2>4, SkipProgress DEF Skip
  <2>5. CASE FillForRead
    BY <2>5, FillForReadProgress DEF FillForRead, Return
  <2>6. CASE FillForSkip
    BY <2>6, FillForSkipProgress DEF FillForSkip, Return
  <2> QED
    BY <2>1, <2>2, <2>3, <2>4, <2>5, <2>6 DEF Serve
<1>2. LoopBufferInv /\ LoopBufferInv' /\ [Next]_vars => [pc # "idle" => Round]_vars
  <2>1. Request => pc = "idle"
    BY DEF Request, Call
  <2> QED
    BY <1>1, <2>1 DEF Next
<1> QED
  BY <1>2, LoopBufferInvariant, PTL DEF Spec, Progress
=============================================================================
