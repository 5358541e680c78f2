----------------------------- MODULE LoopBuffer -----------------------------
(***************************************************************************)
(* The loop buffer of libavformat/aviolpbuf.c: the ring that stands        *)
(* between ffmpeg and a slow source.  The player thread reads, seeks and   *)
(* fills it in advance; every operation is a call of that one thread, so   *)
(* that the lock, which url_lpfillbuffer gives up while it reads the       *)
(* source, is never fought over and is left out.                           *)
(*                                                                         *)
(* A byte of the source is <<title, offset>>: after a seek by time the     *)
(* source counts its bytes from 0 again, and they are other bytes.  The    *)
(* cache file is off, as it is unless the application turns it on.         *)
(***************************************************************************)
EXTENDS Integers

CONSTANTS
  BufferSize,     \* buffer_size
  Reserve,        \* the 32 bytes a fill leaves between wp and rp
  BackMargin,     \* the 64 bytes a seek back leaves unused
  FillMargin,     \* the 1024 bytes a fill in advance leaves unused
  BlockReadSize,  \* block_read_size
  BackLimit,      \* the 3M of back data a fill in advance goes over
  MaxReadSeek,    \* max_read_seek
  IntLimit,       \* the least positive number an int cannot hold (2^31)
  FileSize,       \* bytes of a title
  Source,         \* the kinds of source there are
  ReadSize,       \* bound: what a read may ask for
  MaxTitle        \* bound: seeks by time

ASSUME LoopBufferAssumption ==
  /\ BufferSize \in Nat \ {0}
  /\ Reserve \in Nat \ {0}
  /\ BackMargin \in Nat \ {0}
  /\ FillMargin \in Nat
  /\ BlockReadSize \in Nat \ {0}
  /\ BackLimit \in Nat
  /\ MaxReadSeek \in Nat
  /\ IntLimit \in Nat \ {0}
  /\ FileSize \in Nat
  /\ Source \subseteq [streamed : BOOLEAN, slow : BOOLEAN, sized : BOOLEAN]
  /\ ReadSize \subseteq Nat \ {0}
  /\ MaxTitle \in Nat

(* A read of an empty ring must find room for a byte. *)
ASSUME RoomAssumption == BufferSize > Reserve

VARIABLES
  source,  \* streamed: is_streamed; slow: is_slowmedia; sized: file_size is known
  buffer,  \* what each byte of the ring holds
  rp, wp,  \* where the next read and the next fill begin
  valid,   \* valid_data_size: bytes filled in since the ring was emptied
  pos,     \* the offset of the byte the next fill begins with
  title,   \* how many seeks by time there have been
  low,     \* where the source stands
  pc,      \* "idle", or the call that is being served
  len,     \* bytes the call still wants, or the offset a seek goes to
  got,     \* bytes this read has taken from the ring
  out,     \* the bytes the last step of a read handed to the user
  ret,     \* what the last call returned
  target,  \* where the last call was to seek to, or -1
  failed,  \* the source has refused a seek during this call
  cut      \* this seek reads, and its distance does not fit in an int

ring == <<buffer, rp, wp, valid, pos>>
vars == <<source, buffer, rp, wp, valid, pos, title, low, pc, len, got, out, ret,
          target, failed, cut>>

(* No byte of the source. *)
Stale == <<0, -1>>

EIO == -5
EAGAIN == -11

Init ==
  /\ source \in Source
  /\ buffer = [i \in 0 .. BufferSize - 1 |-> Stale]
  /\ rp = 0 /\ wp = 0 /\ valid = 0 /\ pos = 0
  /\ title = 0 /\ low = 0
  /\ pc = "idle" /\ len = 0 /\ got = 0 /\ out = << >> /\ ret = 0
  /\ target = -1 /\ failed = FALSE /\ cut = FALSE
-----------------------------------------------------------------------------
Least(a, b) == IF a <= b THEN a ELSE b

(* A pointer that has run past either end of the ring. *)
Wrapped(p) ==
  IF p >= BufferSize THEN p - BufferSize ELSE IF p < 0 THEN p + BufferSize ELSE p

(* valid_data_can_seek_forward: the bytes not yet read. *)
Forward == IF wp >= rp THEN wp - rp ELSE BufferSize - (rp - wp)

(* Slip: the margin a seek back leaves is forgotten. *)
BackWholeRing == IF valid > Forward THEN valid - Forward ELSE 0

(* valid_data_can_seek_back: the bytes already read and still there. *)
Back ==
  LET b == Least(valid - Forward, BufferSize - Forward - BackMargin)
  IN  IF b < 0 THEN 0 ELSE b

(* pos_on_read: the offset of the next byte a read delivers. *)
PosOnRead == pos - Forward

(* What can be copied without going round the end. *)
Contiguous == IF wp >= rp THEN wp - rp ELSE BufferSize - rp

(* Slip: the reserve is kept when rp is the start of the ring only. *)
RoomUpToRp(size) ==
  IF wp >= rp
  THEN IF rp # 0 THEN Least(size, BufferSize - wp)
                 ELSE Least(size, BufferSize - wp - Reserve)
  ELSE Least(size, rp - wp)

(* ssread: what one fill may put after wp. *)
Room(size) ==
  IF wp >= rp
  THEN IF rp # 0 THEN Least(size, BufferSize - wp)
                 ELSE Least(size, BufferSize - wp - Reserve)
  ELSE Least(size, rp - wp - Reserve)

(* Slip: the write pointer is not brought back to the start. *)
FilledNoWrap(n) ==
  /\ buffer' = [i \in 0 .. BufferSize - 1 |->
                  IF wp <= i /\ i < wp + n THEN <<title, low + (i - wp)>> ELSE buffer[i]]
  /\ low' = low + n
  /\ valid' = valid + n
  /\ pos' = pos + n
  /\ wp' = wp + n
  /\ rp' = rp

(* url_lpfillbuffer when the source gives n bytes. *)
Filled(n) ==
  /\ buffer' = [i \in 0 .. BufferSize - 1 |->
                  IF wp <= i /\ i < wp + n THEN <<title, low + (i - wp)>> ELSE buffer[i]]
  /\ low' = low + n
  /\ valid' = valid + n
  /\ pos' = pos + n
  /\ wp' = Wrapped(wp + n)
  /\ rp' = rp

(* What the source may give: no more than is asked for or left. *)
Given(size) == 1 .. Least(Room(size), FileSize - low)

(* url_lpfillbuffer when it fills nothing in: no room, end of the file, or *)
(* an error of the source.                                                 *)
NotFilled(size, r) ==
  /\ IF Room(size) <= 0 \/ (source.sized /\ pos >= FileSize) \/ low >= FileSize
     THEN r = 0 ELSE r \in {EIO, EAGAIN}
  /\ UNCHANGED <<ring, low>>

(* The ring emptied: the next byte filled in is the one at offset p.  The  *)
(* code leaves the old bytes where they are; here they become stale, for   *)
(* none of them may be read again.                                         *)
Emptied(p) ==
  /\ rp' = 0 /\ wp' = 0 /\ valid' = 0 /\ pos' = p
  /\ buffer' = [i \in 0 .. BufferSize - 1 |-> Stale]
-----------------------------------------------------------------------------
(* The player thread calls one of the operations, which is to leave the    *)
(* read pointer at the byte of offset t (-1: where it is).                 *)
Call(c, n, t) ==
  /\ pc = "idle"
  /\ pc' = c
  /\ len' = n
  /\ target' = t
  /\ got' = 0 /\ out' = << >> /\ ret' = 0 /\ failed' = FALSE /\ cut' = FALSE
  /\ UNCHANGED <<source, ring, title, low>>

Return(r) ==
  /\ pc' = "idle"
  /\ ret' = r
  /\ len' = 0 /\ got' = 0
  /\ UNCHANGED <<out, target, failed, cut>>

(* url_lp_intelligent_buffering; max_forword_level holds nothing back, the *)
(* quotient it is compared with being an integer division.                 *)
Buffering ==
  /\ pc = "buffering"
  /\ IF \/ Forward + Back < BufferSize - FillMargin
        \/ Back > Forward \div 2 + 1
        \/ Back > BackLimit
     THEN \/ \E n \in Given(BlockReadSize) : Filled(n) /\ Return(n)
          \/ \E r \in {0, EIO, EAGAIN} : NotFilled(BlockReadSize, r) /\ Return(r)
     ELSE UNCHANGED <<ring, low>> /\ Return(-1)
  /\ UNCHANGED <<source, title>>

(* url_lpread, one round of its loop: bytes are there. *)
Copy ==
  /\ pc = "read"
  /\ LET n == Least(len, Contiguous)
     IN  /\ n > 0
         /\ out' = [i \in 0 .. n - 1 |-> buffer[rp + i]]
         /\ rp' = Wrapped(rp + n)
         /\ len' = len - n
         /\ IF len = n THEN pc' = "idle" /\ ret' = got + n /\ got' = 0
                       ELSE got' = got + n /\ UNCHANGED <<pc, ret>>
  /\ UNCHANGED <<source, buffer, wp, valid, pos, title, low, target, failed, cut>>

(* url_lpread, one round of its loop: the ring has to be filled first. *)
FillForRead ==
  /\ pc = "read"
  /\ Contiguous = 0
  /\ \/ \E n \in Given(BlockReadSize) :
          Filled(n) /\ UNCHANGED <<pc, len, got, out, ret, target, failed, cut>>
     \/ \E r \in {0, EIO, EAGAIN} :
          NotFilled(BlockReadSize, r) /\ Return(IF got > 0 THEN got ELSE r)
  /\ UNCHANGED <<source, title>>

(* url_lpseek goes to offset len, url_lpseek with SEEK_CUR having added    *)
(* the offset of the next byte to it.                                      *)
Distance == len - PosOnRead

(* The bytes sought are in the ring, before or behind the read pointer. *)
InRing ==
  \/ 0 <= Distance /\ Distance <= Forward
  \/ Distance < 0 /\ -Distance <= Back

SeekInRing ==
  /\ pc = "seek"
  /\ InRing
  /\ rp' = Wrapped(rp + Distance)
  /\ Return(len)
  /\ UNCHANGED <<source, buffer, wp, valid, pos, title, low>>

(* A source that cannot seek is read up to the place; so is a slow one,    *)
(* when the place is near, and nearer still (1/16) for a seek of the user. *)
ByReading(limit) ==
  /\ Distance > 0
  /\ \/ source.streamed
     \/ /\ source.slow
        /\ Distance < BufferSize - BlockReadSize
        /\ Distance <= limit
        /\ (source.sized /\ FileSize > 0) => Distance < FileSize \div 2

(* What an int keeps of a number. *)
AsInt(n) ==
  LET m == n % (2 * IntLimit)
  IN  IF m >= IntLimit THEN m - 2 * IntLimit ELSE m

(* A seek by reading that has k bytes to read to no buffer, beyond those   *)
(* of the ring.  The code keeps them in an int: what is left of a longer   *)
(* way is read, or nothing when that is not positive, and the seek returns *)
(* the offset as if it were there.                                         *)
PassOver(k) ==
  /\ rp' = wp
  /\ cut' = (k >= IntLimit)
  /\ IF AsInt(k) > 0
     THEN pc' = "skip" /\ len' = AsInt(k) /\ UNCHANGED <<got, ret>>
     ELSE pc' = "idle" /\ len' = 0 /\ got' = 0 /\ ret' = len
  /\ UNCHANGED <<source, buffer, wp, valid, pos, title, low, out, target, failed>>

(* Slip: the bytes of the ring are passed over, and read once more. *)
SeekByReadingTwice ==
  /\ pc = "seek"
  /\ ~InRing
  /\ \E limit \in {MaxReadSeek, MaxReadSeek \div 16} : ByReading(limit)
  /\ PassOver(Distance)

(* The bytes of the ring are skipped, the others are read to no buffer. *)
SeekByReading ==
  /\ pc = "seek"
  /\ ~InRing
  /\ \E limit \in {MaxReadSeek, MaxReadSeek \div 16} : ByReading(limit)
  /\ PassOver(Distance - Forward)

(* The source is told to go there.  When it refuses, the ring keeps what   *)
(* it holds, but nothing behind it, and the source is put back where the   *)
(* next fill begins: url_lpseek returns what that second seek returns.     *)
(* When that fails too the source is taken to stand where it stood, as     *)
(* http_reopen_cnx sees to it (http.c:252).  A source that has no seek     *)
(* leaves everything as it is.                                             *)
SeekSource ==
  /\ pc = "seek"
  /\ ~InRing
  /\ \E limit \in {MaxReadSeek, MaxReadSeek \div 16} : ~ByReading(limit)
  /\ \/ Emptied(len) /\ low' = len /\ Return(len)
     \/ UNCHANGED <<ring, low>> /\ Return(-1)
     \/ /\ valid' = 0
        /\ \/ low' = pos /\ ret' = pos
           \/ low' = low /\ ret' = EIO
        /\ pc' = "idle" /\ failed' = TRUE
        /\ len' = 0 /\ got' = 0
        /\ UNCHANGED <<buffer, rp, wp, pos, out, target, cut>>
  /\ UNCHANGED <<source, title>>

(* url_lpread with no buffer, as a seek by reading calls it: what it finds *)
(* in the ring it passes over.  It returns 0 when it has read everything,  *)
(* which ends the seek.                                                    *)
Skip ==
  /\ pc = "skip"
  /\ LET n == Least(len, Contiguous)
     IN  /\ n > 0
         /\ rp' = Wrapped(rp + n)
         /\ len' = len - n
         /\ IF len = n THEN pc' = "idle" /\ ret' = 0 /\ got' = 0
                       ELSE got' = got + n /\ UNCHANGED <<pc, ret>>
  /\ UNCHANGED <<source, buffer, wp, valid, pos, title, low, out, target, failed, cut>>

(* Slip: a read that found nothing more is repeated too. *)
FillForSkipForever ==
  /\ pc = "skip"
  /\ Contiguous = 0
  /\ \/ \E n \in Given(BlockReadSize) :
          Filled(n) /\ UNCHANGED <<pc, len, got, out, ret, target, failed, cut>>
     \/ \E r \in {0, EIO, EAGAIN} :
          /\ NotFilled(BlockReadSize, r)
          /\ IF got > 0 \/ r # EIO
             THEN got' = 0 /\ UNCHANGED <<pc, len, out, ret, target, failed, cut>>
             ELSE Return(r)
  /\ UNCHANGED <<source, title>>

(* A read that ends early is repeated after some bytes or an EAGAIN. *)
FillForSkip ==
  /\ pc = "skip"
  /\ Contiguous = 0
  /\ \/ \E n \in Given(BlockReadSize) :
          Filled(n) /\ UNCHANGED <<pc, len, got, out, ret, target, failed, cut>>
     \/ \E r \in {0, EIO, EAGAIN} :
          /\ NotFilled(BlockReadSize, r)
          /\ IF got > 0 \/ r = EAGAIN
             THEN got' = 0 /\ UNCHANGED <<pc, len, out, ret, target, failed, cut>>
             ELSE Return(r)
  /\ UNCHANGED <<source, title>>

(* url_lpseek with SEEK_END, len bytes before the end. *)
SeekEnd ==
  /\ pc = "seek_end"
  /\ \/ Emptied(FileSize - len) /\ low' = FileSize - len /\ Return(FileSize - len)
     \/ UNCHANGED <<ring, low>> /\ Return(EIO)
  /\ UNCHANGED <<source, title>>

(* url_lpexseek with AVSEEK_TO_TIME; url_lpreset when the demuxer goes on  *)
(* to the next slice of a title in pieces does the same and cannot fail.   *)
SeekTime ==
  /\ pc = "seek_time"
  /\ \/ Emptied(0) /\ low' = 0 /\ title' = title + 1 /\ Return(0)
     \/ UNCHANGED <<ring, low, title>> /\ Return(EIO)
  /\ UNCHANGED source
-----------------------------------------------------------------------------
Request ==
  \/ \E n \in ReadSize : Call("read", n, -1)
  \/ Call("buffering", 0, -1)
  \/ \E n \in 0 .. FileSize + 1 : Call("seek", n, n)
  \/ \E n \in 0 .. FileSize : Call("seek_end", n, FileSize - n)
  \/ title < MaxTitle /\ Call("seek_time", 0, 0)

Serve ==
  \/ Buffering \/ Copy \/ FillForRead
  \/ SeekInRing \/ SeekByReading \/ SeekSource \/ Skip \/ FillForSkip
  \/ SeekEnd \/ SeekTime

Next == Request \/ Serve

(* The thread that called goes on; a source that answers with EAGAIN again *)
(* and again delivers in the end.                                          *)
Fairness == WF_vars(Serve) /\ SF_vars(FillForSkip /\ pos' > pos)

Spec == Init /\ [][Next]_vars /\ Fairness
-----------------------------------------------------------------------------
(* Every variable keeps to what the code can put there; the pointers stay  *)
(* inside the ring (the LP_ASSERTs of url_lpread and url_lpseek).          *)
TypeOK ==
  /\ source \in Source
  /\ buffer \in [0 .. BufferSize - 1 -> Nat \X Int]
  /\ rp \in 0 .. BufferSize - 1 /\ wp \in 0 .. BufferSize - 1
  /\ valid \in Nat /\ pos \in Nat /\ title \in Nat /\ low \in Nat
  /\ pc \in {"idle", "read", "buffering", "seek", "skip", "seek_end", "seek_time"}
  /\ len \in Nat /\ got \in Nat /\ ret \in Int
  /\ target \in Int /\ failed \in BOOLEAN /\ cut \in BOOLEAN

(* The byte filled in k bytes before the write pointer. *)
Behind(k) == IF k <= wp THEN wp - k ELSE wp - k + BufferSize

(* What the ring offers is there: each byte that a read or a seek inside   *)
(* the ring can reach is the byte of its offset in this title, however the *)
(* pointers have gone round and whatever a fill has overwritten.           *)
RingHolds ==
  \A k \in 1 .. Forward + Back : buffer[Behind(k)] = <<title, pos - k>>

(* A seek that returns success has gone where it was asked to go, by way   *)
(* of the ring, by reading or by the source.  Excepted, because the code   *)
(* returns success elsewhere, are a seek the source refused (url_lpseek    *)
(* then returns the offset of the next fill as if it were the place        *)
(* sought), a place past the end, and a seek by reading over more bytes    *)
(* than an int holds (aviolpbuf.c:465), 2 GB on a source that cannot seek. *)
SeekLands ==
  pc = "idle" /\ target \in 0 .. FileSize /\ ret >= 0 /\ ~failed /\ ~cut => PosOnRead = target

(* What the user is doing. *)
Want ==
  CASE pc = "read" -> "read"
    [] pc \in {"seek", "skip", "seek_end", "seek_time"} -> "seek"
    [] OTHER -> "idle"

(* The user sees a plain stream of bytes: what is read, kept for a seek    *)
(* back and filled in advance is hidden.                                   *)
Stream == INSTANCE ByteStream WITH at <- PosOnRead, want <- Want

(* url_lpread, url_lpseek and the fills deliver each byte of the source in *)
(* its place, none lost, repeated or stale.                                *)
StreamSpec == Stream!Spec

(* Every call comes back: the loops of url_lpread and of a seek by reading *)
(* end, whatever pieces the source delivers in.                            *)
CallsReturn == pc # "idle" ~> pc = "idle"
=============================================================================
