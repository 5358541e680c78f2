--------------------------- MODULE AudioDecProof ---------------------------
(***************************************************************************)
(* The safety of the audio decoder manager, for every capacity of its      *)
(* ring.  Two invariants carry it: where the loop stands says what is set  *)
(* up (LoopOK), and a STOP that is neither taken nor lost is still in the  *)
(* ring, ahead of any RELEASE (StopOK).                                    *)
(***************************************************************************)
EXTENDS AudioDec, TLAPS

(* Nothing is set up: no codec, no thread, no track that was started. *)
Down ==
  /\ ~codec
  /\ track \in {"none", "built"}
  /\ getter = "none" /\ decoder = "none"
  /\ ~exit_decode_thread

(* The codec is set up, and nobody uses it yet. *)
Ready ==
  /\ codec
  /\ track \in {"none", "built"}
  /\ getter = "none" /\ decoder = "none"
  /\ ~exit_decode_thread

(* The codec is in use. *)
Up ==
  /\ codec
  /\ getter \in IF arm THEN {"running", "none"} ELSE {"none"}
  /\ decoder \in IF arm THEN {"running", "none"} ELSE {"none"}
  /\ ~exit_decode_thread

(* The output is gone, and the threads are told to end. *)
Closing ==
  /\ codec
  /\ track = "none"
  /\ exit_decode_thread = arm
  /\ getter \in IF arm THEN {"running", "ended", "none"} ELSE {"none"}
  /\ decoder \in IF arm THEN {"running", "ended", "none"} ELSE {"none"}

Turn == {"top", "clear", "flag", "flagwait", "get"}
Unset == {"IDLE", "INITING", "STOPPED"}

LoopOK ==
  /\ pc = "boot" => Down /\ state \in {"IDLE", "INITING"}
  /\ pc = "codec" => Down /\ state = "INITING"
  /\ pc = "aout" => Ready /\ state = "INITING"
  /\ pc = "spawn" => Ready /\ state = "INITTED"
  /\ pc \in {"wait", "mutewait"} => Up /\ state = "ACTIVE"
  /\ pc \in Turn => \/ Down /\ state \in Unset
                    \/ Up /\ state \in {"ACTIVE", "PAUSED"}
  /\ pc = "flagwait" => state \in MuteStates
  /\ pc = "release" => Closing /\ state = "STOPPED"
  /\ pc = "done" => (Down \/ Up) /\ state = "TERMINATED"
  /\ client = "freed" => pc = "done"

OutputOK ==
  /\ pc \in {"top", "clear", "flag", "get"} /\ state = "ACTIVE" => track \in {"playing", "none"}
  /\ state = "PAUSED" /\ ~arm => track # "playing"

(* q holds a STOP, and no RELEASE comes before it. *)
StopAhead(q) ==
  \E i \in 1..Len(q) : q[i] = "STOP" /\ \A j \in 1..i : q[j] # "RELEASE"

NoRelease(q) == \A i \in 1..Len(q) : q[i] # "RELEASE"

(* The loop has come past the STOP. *)
Handled ==
  \/ pc \in {"release", "done"}
  \/ pc \in Turn /\ state \in Unset

StopOK ==
  /\ client \notin {"joining", "freed"} => NoRelease(ring)
  /\ client \in {"stopped", "joining", "freed"} =>
       "STOP" \in lost \/ Handled \/ StopAhead(ring)
  /\ pc = "done" => "STOP" \in lost \/ Down

AudioDecInv == TypeOK /\ LoopOK /\ OutputOK /\ StopOK

-----------------------------------------------------------------------------
(* The ring *)

(* A command appended goes behind the STOP that is there. *)
LEMMA AppendKeeps ==
  ASSUME NEW q \in Seq(Command), NEW c \in Command, StopAhead(q)
  PROVE  StopAhead(Append(q, c))
<1>1. PICK i \in 1..Len(q) : q[i] = "STOP" /\ \A j \in 1..i : q[j] # "RELEASE"
  BY DEF StopAhead
<1>2. /\ Len(Append(q, c)) = Len(q) + 1
      /\ \A j \in 1..Len(q) : Append(q, c)[j] = q[j]
  OBVIOUS
<1>3. i \in 1..Len(Append(q, c)) /\ \A j \in 1..i : j \in 1..Len(q)
  BY <1>2
<1> QED
  BY <1>1, <1>2, <1>3 DEF StopAhead

(* A STOP appended to a ring without a RELEASE is ahead of all of them. *)
LEMMA AppendStop ==
  ASSUME NEW q \in Seq(Command), NoRelease(q)
  PROVE  StopAhead(Append(q, "STOP"))
<1> DEFINE r == Append(q, "STOP")
<1>1. Len(r) = Len(q) + 1 /\ r[Len(q) + 1] = "STOP" /\ \A j \in 1..Len(q) : r[j] = q[j]
  BY DEF Command
<1>2. \A j \in 1..(Len(q) + 1) : r[j] # "RELEASE"
  BY <1>1 DEF NoRelease
<1>3. Len(q) + 1 \in 1..Len(r)
  BY <1>1
<1> HIDE DEF r
<1>4. StopAhead(r)
  BY <1>1, <1>2, <1>3 DEF StopAhead
<1> QED
  BY <1>4 DEF r

(* Nothing but a RELEASE brings a RELEASE. *)
LEMMA AppendOther ==
  ASSUME NEW q \in Seq(Command), NEW c \in Command, c # "RELEASE", NoRelease(q)
  PROVE  NoRelease(Append(q, c))
  BY DEF NoRelease

(* What follows the oldest command keeps its order. *)
LEMMA TailKeeps ==
  ASSUME NEW q \in Seq(Command), q # << >>
  PROVE  /\ Tail(q) \in Seq(Command)
         /\ Len(Tail(q)) = Len(q) - 1
         /\ Head(q) \in Command
         /\ NoRelease(q) => NoRelease(Tail(q))
         /\ StopAhead(q) => Head(q) = "STOP" \/ (Head(q) # "RELEASE" /\ StopAhead(Tail(q)))
<1>1. /\ Tail(q) \in Seq(Command)
      /\ Len(q) \in Nat \ {0}
      /\ Len(Tail(q)) = Len(q) - 1
      /\ Head(q) = q[1] /\ Head(q) \in Command
      /\ \A j \in 1..(Len(q) - 1) : Tail(q)[j] = q[j + 1]
  OBVIOUS
<1>2. NoRelease(q) => NoRelease(Tail(q))
  BY <1>1 DEF NoRelease
<1>3. ASSUME StopAhead(q), Head(q) # "STOP"
      PROVE  Head(q) # "RELEASE" /\ StopAhead(Tail(q))
  <2>1. PICK i \in 1..Len(q) : q[i] = "STOP" /\ \A j \in 1..i : q[j] # "RELEASE"
    BY <1>3 DEF StopAhead
  <2>2. i # 1
    BY <1>1, <1>3, <2>1
  <2>3. i - 1 \in 1..Len(Tail(q)) /\ Tail(q)[i - 1] = "STOP"
    BY <1>1, <2>1, <2>2
  <2>4. \A j \in 1..(i - 1) : Tail(q)[j] # "RELEASE"
    BY <1>1, <2>1
  <2>5. Head(q) # "RELEASE"
    BY <1>1, <2>1
  <2> QED
    BY <2>3, <2>4, <2>5 DEF StopAhead
<1> QED
  BY <1>1, <1>2, <1>3

(* A send keeps the STOP that waits, or loses it. *)
LEMMA SendRing ==
  ASSUME TypeOK, NEW c \in Command, Send(c)
  PROVE  /\ ring' \in Seq(Command) /\ Len(ring') <= MESSAGE_NUM_MAX
         /\ lost' \subseteq Command /\ lost \subseteq lost'
         /\ NoRelease(ring) /\ c # "RELEASE" => NoRelease(ring')
         /\ NoRelease(ring) /\ c = "STOP" => StopAhead(ring')
         /\ StopAhead(ring) => StopAhead(ring') \/ "STOP" \in lost'
<1> USE RingAssumption
<1>0. ring \in Seq(Command) /\ Len(ring) <= MESSAGE_NUM_MAX /\ lost \subseteq Command
  BY DEF TypeOK
<1>1. CASE Len(ring) < MESSAGE_NUM_MAX
  <2>1. ring' = Append(ring, c) /\ lost' = lost
    BY <1>1 DEF Send
  <2>2. ring' \in Seq(Command) /\ Len(ring') = Len(ring) + 1
    BY <1>0, <2>1
  <2> QED
    BY <1>0, <1>1, <2>1, <2>2, AppendKeeps, AppendStop, AppendOther
<1>2. CASE ~(Len(ring) < MESSAGE_NUM_MAX)
  <2>1. ring' = Append(Tail(ring), c) /\ lost' = lost \union {Head(ring)}
    BY <1>2 DEF Send
  <2>2. ring # << >>
    BY <1>0, <1>2
  <2>3. Tail(ring) \in Seq(Command) /\ Len(Tail(ring)) = Len(ring) - 1 /\ Head(ring) \in Command
    BY <1>0, <2>2, TailKeeps
  <2>4. ring' \in Seq(Command) /\ Len(ring') = Len(ring)
    BY <1>0, <2>1, <2>3
  <2>5. NoRelease(ring) => NoRelease(Tail(ring))
    BY <1>0, <2>2, TailKeeps
  <2>6. StopAhead(ring) => Head(ring) = "STOP" \/ StopAhead(Tail(ring))
    BY <1>0, <2>2, TailKeeps
  <2>7. StopAhead(Tail(ring)) => StopAhead(ring')
    BY <2>1, <2>3, AppendKeeps
  <2>8. NoRelease(Tail(ring)) /\ c # "RELEASE" => NoRelease(ring')
    BY <2>1, <2>3, AppendOther
  <2>9. NoRelease(Tail(ring)) /\ c = "STOP" => StopAhead(ring')
    BY <2>1, <2>3, AppendStop
  <2> QED
    BY <1>0, <2>1, <2>3, <2>4, <2>5, <2>6, <2>7, <2>8, <2>9
<1> QED
  BY <1>1, <1>2

(* So does the loop when it takes a command that is not the STOP. *)
LEMMA TakeRing ==
  ASSUME TypeOK, NEW c \in Command, Take(c)
  PROVE  /\ ring' \in Seq(Command) /\ Len(ring') <= MESSAGE_NUM_MAX
         /\ NoRelease(ring) => NoRelease(ring') /\ c # "RELEASE"
         /\ StopAhead(ring) /\ c # "STOP" => StopAhead(ring') /\ c # "RELEASE"
<1> USE RingAssumption
<1>1. ring \in Seq(Command) /\ Len(ring) <= MESSAGE_NUM_MAX
  BY DEF TypeOK
<1>2. ring # << >> /\ Head(ring) = c /\ ring' = Tail(ring)
  BY DEF Take
<1>3. /\ Tail(ring) \in Seq(Command)
      /\ Len(Tail(ring)) = Len(ring) - 1
      /\ NoRelease(ring) => NoRelease(Tail(ring))
      /\ StopAhead(ring) => Head(ring) = "STOP" \/ (Head(ring) # "RELEASE" /\ StopAhead(Tail(ring)))
  BY <1>1, <1>2, TailKeeps
<1>4. Len(ring) \in Nat /\ Len(ring) # 0 /\ ring[1] = c
  BY <1>1, <1>2
<1>5. NoRelease(ring) => c # "RELEASE"
  BY <1>4 DEF NoRelease
<1> QED
  BY <1>1, <1>2, <1>3, <1>4, <1>5

-----------------------------------------------------------------------------
(* The steps that leave the loop, and what it works, where they are *)
ClientStep ==
  \/ Pause \/ Resume \/ SetMute \/ \E on \in BOOLEAN : AutoMute(on)
  \/ BeginStop \/ SendStop \/ SendRelease \/ Join

(* The type invariant is inductive on its own. *)
LEMMA TypeStep ==
  ASSUME TypeOK, [Next]_vars
  PROVE  TypeOK'
<1> USE DEF session, output, workers, Client, LoopPc, State, Track, Worker
<1>1. CASE Pause
  <2>1. Send("PAUSE") /\ "PAUSE" \in Command
    BY <1>1 DEF Pause, Command
  <2> QED
    BY <1>1, <2>1, SendRing DEF TypeOK, Pause, OnlySession
<1>2. CASE Resume
  <2>1. Send("RESUME") /\ "RESUME" \in Command
    BY <1>2 DEF Resume, Command
  <2> QED
    BY <1>2, <2>1, SendRing DEF TypeOK, Resume, OnlySession
<1>3. CASE SetMute
  <2>1. Send("SET") /\ "SET" \in Command
    BY <1>3 DEF SetMute, Command
  <2> QED
    BY <1>3, <2>1, SendRing DEF TypeOK, SetMute, OnlySession
<1>4. ASSUME NEW on \in BOOLEAN, AutoMute(on)
      PROVE  TypeOK'
  BY <1>4 DEF TypeOK, AutoMute
<1>5. CASE BeginStop
  BY <1>5 DEF TypeOK, BeginStop, OnlySession
<1>6. CASE SendStop
  <2>1. Send("STOP") /\ "STOP" \in Command
    BY <1>6 DEF SendStop, Command
  <2> QED
    BY <1>6, <2>1, SendRing DEF TypeOK, SendStop, OnlySession
<1>7. CASE SendRelease
  <2>1. Send("RELEASE") /\ "RELEASE" \in Command
    BY <1>7 DEF SendRelease, Command
  <2> QED
    BY <1>7, <2>1, SendRing DEF TypeOK, SendRelease, OnlySession
<1>8. CASE Join
  BY <1>8 DEF TypeOK, Join, OnlySession
<1>9. CASE Restart
  <2>1. << >> \in Seq(Command) /\ Len(<< >>) <= MESSAGE_NUM_MAX
    BY RingAssumption
  <2>2. /\ arm' = arm /\ getter' = getter /\ decoder' = decoder
        /\ exit_decode_thread' = exit_decode_thread
    BY <1>9 DEF Restart
  <2>3. /\ ring' = << >> /\ lost' = {} /\ client' = "up" /\ pc' = "boot" /\ state' = "IDLE"
        /\ track' = "none"
    BY <1>9 DEF Restart
  <2>4. codec' \in BOOLEAN /\ auto_mute' \in BOOLEAN /\ format_changed_flag' \in BOOLEAN
    BY <1>9 DEF Restart
  <2>5. /\ lost' \subseteq Command /\ client' \in Client /\ pc' \in LoopPc
        /\ state' \in State /\ track' \in Track
    BY <2>3 DEF Client, LoopPc, State, Track
  <2>6. arm' \in BOOLEAN /\ getter' \in Worker /\ decoder' \in Worker
        /\ exit_decode_thread' \in BOOLEAN
    BY <2>2 DEF TypeOK
  <2>7. ring' \in Seq(Command) /\ Len(ring') <= MESSAGE_NUM_MAX
    BY <2>1, <2>3
  <2> QED
    BY <2>4, <2>5, <2>6, <2>7 DEF TypeOK
<1>10. CASE Boot \/ InitCodec \/ InitOut \/ StartWorkers
  BY <1>10, ZenonT(40) DEF TypeOK, Boot, InitCodec, InitOut, StartWorkers, OnlyLoop
<1>11. CASE ResetTrack \/ ClearFlag \/ FlagCheck \/ TakeNone
  BY <1>11 DEF TypeOK, ResetTrack, ClearFlag, FlagCheck, TakeNone, OnlyLoop, Rebuilt, Hold
<1>12. CASE TakePause \/ TakeResume \/ TakeSet \/ TakeStop \/ TakeRelease
  <2>1. PICK c \in Command : Take(c)
    BY <1>12 DEF TakePause, TakeResume, TakeSet, TakeStop, TakeRelease, Command
  <2>2. ring' \in Seq(Command) /\ Len(ring') <= MESSAGE_NUM_MAX
    BY <2>1, TakeRing
  <2>3. UNCHANGED <<arm, client, lost, codec, auto_mute, format_changed_flag, getter, decoder>>
    BY <2>1 DEF Take
  <2>4. /\ pc' \in LoopPc /\ state' \in State /\ track' \in Track
        /\ exit_decode_thread' \in BOOLEAN
    BY <1>12 DEF TypeOK, TakePause, TakeResume, TakeSet, TakeStop, TakeRelease, Play, Hold
  <2> QED
    BY <2>2, <2>3, <2>4 DEF TypeOK
<1>13. CASE ReleaseCodec
  <2>1. UNCHANGED <<session, state, output>> /\ pc' = "top" /\ codec' \in BOOLEAN
    BY <1>13 DEF ReleaseCodec
  <2>2. getter' \in Worker /\ decoder' \in Worker /\ exit_decode_thread' \in BOOLEAN
    BY <1>13 DEF TypeOK, ReleaseCodec, Reaped
  <2> QED
    BY <2>1, <2>2 DEF TypeOK
<1>14. CASE Wait
  BY <1>14, ZenonT(40) DEF TypeOK, Wait, FirstPts, StartMuted, Unmute, Play
<1>15. CASE EndGetter \/ EndDecoder \/ InfoChanged \/ FormatUpdate \/ RefreshPts
  BY <1>15 DEF TypeOK, EndGetter, EndDecoder, InfoChanged, FormatUpdate, RefreshPts, OnlyWorker
<1>16. CASE UNCHANGED vars
  BY <1>16 DEF TypeOK, vars
<1> QED
  BY <1>1, <1>2, <1>3, <1>4, <1>5, <1>6, <1>7, <1>8, <1>9, <1>10, <1>11, <1>12, <1>13,
     <1>14, <1>15, <1>16 DEF Next, Loop

-----------------------------------------------------------------------------
(* Where the loop stands says what is set up. *)
LEMMA LoopStep ==
  ASSUME TypeOK, LoopOK, [Next]_vars
  PROVE  LoopOK'
<1> USE DEF LoopOK, Down, Ready, Up, Closing, Turn, Unset, MuteStates, session, output, workers
<1>1. CASE ClientStep \/ UNCHANGED vars
  <2>1. UNCHANGED <<arm, pc, state, codec, track, getter, decoder, exit_decode_thread>>
    BY <1>1 DEF ClientStep, Pause, Resume, SetMute, AutoMute, BeginStop, SendStop, SendRelease,
                Join, OnlySession, vars
  <2>2. client' = "freed" => client = "freed" \/ pc = "done"
    BY <1>1 DEF ClientStep, Pause, Resume, SetMute, AutoMute, BeginStop, SendStop, SendRelease,
                Join, vars
  <2> QED
    BY <2>1, <2>2
<1>2. CASE Restart
  <2>1. /\ pc' = "boot" /\ state' = "IDLE" /\ track' = "none" /\ codec' = FALSE
        /\ getter' = getter /\ decoder' = decoder /\ getter = "none" /\ decoder = "none"
        /\ exit_decode_thread' = exit_decode_thread
        /\ client = "freed" /\ client' = "up"
    BY <1>2 DEF Restart
  <2>2. ~exit_decode_thread
    BY <2>1
  <2>3. ~codec' /\ ~exit_decode_thread'
    BY <2>1, <2>2
  <2> QED
    BY <2>1, <2>3
<1>3. CASE Boot
  BY <1>3 DEF Boot, OnlyLoop
<1>4. CASE InitCodec
  <2>1. Down /\ state = "INITING" /\ state' = state /\ track' = track /\ client' = client
    BY <1>4 DEF InitCodec
  <2>2. ~exit_decode_thread' /\ getter' = "none" /\ decoder' = "none"
    BY <1>4 DEF InitCodec
  <2>3. (pc' = "aout" /\ codec') \/ (pc' = "boot" /\ ~codec')
    BY <1>4 DEF InitCodec
  <2> QED
    BY <2>1, <2>2, <2>3
<1>5. CASE InitOut
  BY <1>5 DEF InitOut
<1>6. CASE StartWorkers
  BY <1>6 DEF StartWorkers
<1>7. CASE ResetTrack
  BY <1>7 DEF ResetTrack, Rebuilt
<1>8. CASE ClearFlag \/ TakeNone
  BY <1>8 DEF ClearFlag, TakeNone, OnlyLoop
<1>9. CASE FlagCheck
  BY <1>9 DEF FlagCheck, Hold, MuteStates
<1>10. CASE TakePause
  BY <1>10 DEF TakePause, Take, Hold
<1>11. CASE TakeResume
  BY <1>11 DEF TakeResume, Take, Play
<1>12. CASE TakeSet
  BY <1>12 DEF TakeSet, Take
<1>13. CASE TakeStop
  BY <1>13 DEF TypeOK, TakeStop, Take, Stoppable
<1>14. CASE TakeRelease
  BY <1>14 DEF TakeRelease, Take
<1>15. CASE ReleaseCodec
  BY <1>15 DEF TypeOK, ReleaseCodec, Joined, Reaped
<1>16. CASE FirstPts \/ StartMuted
  BY <1>16 DEF FirstPts, StartMuted
<1>17. CASE Unmute
  BY <1>17 DEF Unmute, Play, MuteStates
<1>18. CASE EndGetter \/ EndDecoder
  BY <1>18 DEF TypeOK, EndGetter, EndDecoder, OnlyWorker
<1>19. CASE InfoChanged \/ FormatUpdate \/ RefreshPts
  <2>1. UNCHANGED <<arm, client, pc, state, codec, track, getter, decoder, exit_decode_thread>>
    BY <1>19 DEF InfoChanged, FormatUpdate, RefreshPts, OnlyWorker
  <2> QED
    BY <2>1
<1> QED
  BY <1>1, <1>2, <1>3, <1>4, <1>5, <1>6, <1>7, <1>8, <1>9, <1>10, <1>11, <1>12, <1>13,
     <1>14, <1>15, <1>16, <1>17, <1>18, <1>19 DEF Next, Loop, Wait, ClientStep

-----------------------------------------------------------------------------
(* The track follows the state. *)
LEMMA OutputStep ==
  ASSUME TypeOK, LoopOK, OutputOK, [Next]_vars
  PROVE  OutputOK'
<1> USE DEF OutputOK, session, output, workers
<1>1. CASE \/ ClientStep \/ UNCHANGED vars \/ InfoChanged \/ FormatUpdate \/ RefreshPts
           \/ EndGetter \/ EndDecoder
  <2>1. UNCHANGED <<arm, pc, state, track>>
    BY <1>1 DEF ClientStep, Pause, Resume, SetMute, AutoMute, BeginStop, SendStop, SendRelease,
                Join, OnlySession, vars, InfoChanged, FormatUpdate, RefreshPts, EndGetter,
                EndDecoder, OnlyWorker
  <2> QED
    BY <2>1
<1>2. CASE Restart
  BY <1>2 DEF Restart
<1>3. CASE Boot \/ InitCodec \/ InitOut \/ StartWorkers
  BY <1>3 DEF LoopOK, Boot, InitCodec, InitOut, StartWorkers, OnlyLoop
<1>4. CASE ResetTrack
  BY <1>4 DEF ResetTrack, Rebuilt
<1>5. CASE ClearFlag \/ TakeNone
  BY <1>5 DEF ClearFlag, TakeNone, OnlyLoop
<1>6. CASE FlagCheck
  BY <1>6 DEF FlagCheck, Hold
<1>7. CASE TakePause
  BY <1>7 DEF TakePause, Take, Hold
<1>8. CASE TakeResume
  BY <1>8 DEF TakeResume, Take, Play
<1>9. CASE TakeSet \/ TakeStop \/ TakeRelease
  BY <1>9 DEF TakeSet, TakeStop, TakeRelease, Take
<1>10. CASE ReleaseCodec
  BY <1>10 DEF LoopOK, ReleaseCodec
<1>11. CASE FirstPts \/ StartMuted
  BY <1>11 DEF LoopOK, FirstPts, StartMuted, Play
<1>12. CASE Unmute
  BY <1>12 DEF LoopOK, Unmute, Play, MuteStates
<1> QED
  BY <1>1, <1>2, <1>3, <1>4, <1>5, <1>6, <1>7, <1>8, <1>9, <1>10, <1>11, <1>12
  DEF Next, Loop, Wait, ClientStep

-----------------------------------------------------------------------------
(* A loop that is past the STOP does not come to it again. *)
LEMMA HandledStep ==
  ASSUME TypeOK, LoopOK, Handled, [Next]_vars, client # "freed"
  PROVE  Handled'
<1> USE DEF LoopOK, Handled, Turn, Unset, session, output, workers
<1>1. CASE \/ ClientStep \/ UNCHANGED vars \/ InfoChanged \/ FormatUpdate \/ RefreshPts
           \/ EndGetter \/ EndDecoder
  <2>1. UNCHANGED <<pc, state>>
    BY <1>1 DEF ClientStep, Pause, Resume, SetMute, AutoMute, BeginStop, SendStop, SendRelease,
                Join, OnlySession, vars, InfoChanged, FormatUpdate, RefreshPts, EndGetter,
                EndDecoder, OnlyWorker
  <2> QED
    BY <2>1
<1>2. CASE Restart
  BY <1>2 DEF Restart
<1>3. CASE Boot \/ InitCodec \/ InitOut \/ StartWorkers
  BY <1>3 DEF Boot, InitCodec, InitOut, StartWorkers
<1>4. CASE ResetTrack \/ ClearFlag \/ FlagCheck \/ TakeNone
  BY <1>4 DEF ResetTrack, ClearFlag, FlagCheck, TakeNone, OnlyLoop
<1>5. CASE TakePause \/ TakeResume \/ TakeSet \/ TakeStop \/ TakeRelease
  BY <1>5 DEF TakePause, TakeResume, TakeSet, TakeStop, TakeRelease, Take
<1>6. CASE ReleaseCodec
  BY <1>6 DEF ReleaseCodec
<1>7. CASE FirstPts \/ StartMuted \/ Unmute
  BY <1>7 DEF FirstPts, StartMuted, Unmute
<1> QED
  BY <1>1, <1>2, <1>3, <1>4, <1>5, <1>6, <1>7 DEF Next, Loop, Wait, ClientStep

(* Once it has ended with nothing set up, nothing is set up again. *)
LEMMA DoneStep ==
  ASSUME TypeOK, LoopOK, StopOK, [Next]_vars, pc = "done", pc' = "done", "STOP" \notin lost'
  PROVE  Down'
<1> USE DEF Down, session, output, workers
<1>1. CASE \/ ClientStep \/ UNCHANGED vars \/ InfoChanged \/ FormatUpdate \/ RefreshPts
           \/ EndGetter \/ EndDecoder
  <2>1. "STOP" \notin lost
    <3>1. lost \subseteq lost'
      BY <1>1, SendRing DEF ClientStep, Pause, Resume, SetMute, AutoMute, BeginStop, SendStop,
        SendRelease, Join, vars, InfoChanged, FormatUpdate, RefreshPts, EndGetter,
        EndDecoder, OnlyWorker, Command
    <3> QED
      BY <3>1
  <2>2. Down
    BY <2>1 DEF StopOK
  <2>3. UNCHANGED <<codec, track, getter, decoder, exit_decode_thread>>
    BY <1>1, <2>2 DEF ClientStep, Pause, Resume, SetMute, AutoMute, BeginStop, SendStop,
                SendRelease, Join, OnlySession, vars, InfoChanged, FormatUpdate, RefreshPts,
                EndGetter, EndDecoder, OnlyWorker
  <2> QED
    BY <2>2, <2>3
<1>2. CASE Restart \/ Loop \/ Wait
  BY <1>2 DEF Restart, Loop, Wait, Boot, InitCodec, InitOut, StartWorkers, ResetTrack, ClearFlag,
    FlagCheck, TakeNone, TakePause, TakeResume, TakeSet, TakeStop, TakeRelease, Take,
    ReleaseCodec, FirstPts, StartMuted, Unmute
<1> QED
  BY <1>1, <1>2 DEF Next, ClientStep

(* The loop ends with the RELEASE, and so past the STOP. *)
LEMMA EndStep ==
  ASSUME TypeOK, LoopOK, StopOK, [Next]_vars, pc' = "done", "STOP" \notin lost'
  PROVE  Down'
<1>1. CASE pc = "done"
  BY <1>1, DoneStep
<1>2. CASE pc # "done"
  <2>1. TakeRelease
    BY <1>2 DEF Next, ClientStep, Pause, Resume, SetMute, AutoMute, BeginStop, SendStop, SendRelease,
      Join, OnlySession, vars, InfoChanged, FormatUpdate, RefreshPts, EndGetter,
      EndDecoder, OnlyWorker, Restart, Loop, Wait, Boot, InitCodec, InitOut, StartWorkers,
      ResetTrack, ClearFlag, FlagCheck, TakeNone, TakePause, TakeResume, TakeSet, TakeStop,
      ReleaseCodec, FirstPts, StartMuted, Unmute
  <2>2. /\ Take("RELEASE") /\ pc = "get" /\ lost' = lost /\ client' = client
        /\ UNCHANGED <<codec, track, getter, decoder, exit_decode_thread>>
    BY <2>1 DEF TakeRelease, Take
  <2>3. ~NoRelease(ring) /\ ~StopAhead(ring)
    BY <2>2, TakeRing DEF Command
  <2>4. Handled
    BY <2>2, <2>3 DEF StopOK, TypeOK, Client
  <2>5. Down
    BY <2>2, <2>4 DEF Handled, LoopOK, Turn, Unset
  <2> QED
    BY <2>2, <2>5 DEF Down
<1> QED
  BY <1>1, <1>2

(* A STOP is in the ring, ahead of the RELEASE, until it is taken or lost. *)
LEMMA StopStep ==
  ASSUME TypeOK, LoopOK, StopOK, [Next]_vars
  PROVE  StopOK'
<1> DEFINE Sent == client \in {"stopped", "joining", "freed"}
           Safe == "STOP" \in lost \/ Handled \/ StopAhead(ring)
<1>0. pc' = "done" => "STOP" \in lost' \/ Down'
  BY EndStep
<1>1. ASSUME NEW c \in Command, Send(c), c # "RELEASE", UNCHANGED <<pc, state>>,
             \/ c = "STOP" /\ client = "stopping" /\ client' = "stopped"
             \/ client' = client
      PROVE  StopOK'
  <2>1. client' \notin {"joining", "freed"} => NoRelease(ring')
    BY <1>1, SendRing DEF StopOK
  <2>2. Handled' <=> Handled
    BY <1>1 DEF Handled
  <2>3. CASE client' = client
    BY <1>0, <1>1, <2>1, <2>2, <2>3, SendRing DEF StopOK
  <2>4. CASE c = "STOP" /\ client = "stopping" /\ client' = "stopped"
    BY <1>0, <1>1, <2>1, <2>4, SendRing DEF StopOK
  <2> QED
    BY <1>1, <2>3, <2>4
<1>2. CASE Pause \/ Resume \/ SetMute
  <2>1. PICK c \in {"PAUSE", "RESUME", "SET"} : Send(c)
    BY <1>2 DEF Pause, Resume, SetMute
  <2>2. client' = client /\ UNCHANGED <<pc, state>>
    BY <1>2 DEF Pause, Resume, SetMute, OnlySession
  <2> QED
    BY <1>1, <2>1, <2>2 DEF Command
<1>3. CASE SendStop
  <2>1. Send("STOP") /\ client = "stopping" /\ client' = "stopped" /\ UNCHANGED <<pc, state>>
    BY <1>3 DEF SendStop, OnlySession
  <2> QED
    BY <1>1, <2>1 DEF Command
<1>4. CASE SendRelease
  <2>1. /\ Send("RELEASE") /\ client = "stopped" /\ client' = "joining"
        /\ UNCHANGED <<pc, state>> /\ "RELEASE" \in Command
    BY <1>4 DEF SendRelease, OnlySession, Command
  <2>2. Handled' <=> Handled
    BY <2>1 DEF Handled
  <2>3. /\ lost \subseteq lost'
        /\ StopAhead(ring) => StopAhead(ring') \/ "STOP" \in lost'
    BY <2>1, SendRing
  <2> QED
    BY <1>0, <2>1, <2>2, <2>3 DEF StopOK
<1>5. ASSUME NEW c \in Command, Take(c), c = "STOP" => TakeStop
      PROVE  StopOK'
  <2>1. lost' = lost /\ client' = client /\ pc = "get"
    BY <1>5 DEF Take
  <2>2. client' \notin {"joining", "freed"} => NoRelease(ring')
    BY <1>5, <2>1, TakeRing DEF StopOK
  <2>3. client # "freed"
    BY <2>1 DEF LoopOK
  <2>4. Handled => Handled'
    BY <2>3, HandledStep
  <2>5. StopAhead(ring) => StopAhead(ring') \/ Handled'
    <3>1. CASE c # "STOP"
      BY <1>5, <3>1, TakeRing
    <3>2. CASE c = "STOP"
      <4>1. pc = "get" /\ (state \in Unset \/ state \in Stoppable)
        BY <2>1 DEF LoopOK, Turn, Stoppable, Unset
      <4> QED
        BY <1>5, <3>2, <4>1 DEF TakeStop, Handled, Turn, Unset, Stoppable
    <3> QED
      BY <3>1, <3>2
  <2> QED
    BY <1>0, <2>1, <2>2, <2>4, <2>5 DEF StopOK
<1>6. ASSUME UNCHANGED <<ring, lost>>,
             \/ client' = client /\ (pc = "done" => pc' = "done")
             \/ client = "up" /\ client' = "stopping"
             \/ client = "joining" /\ client' = "freed" /\ pc' = pc /\ pc = "done"
      PROVE  StopOK'
  <2>1. client' \notin {"joining", "freed"} => NoRelease(ring')
    BY <1>6 DEF StopOK, NoRelease
  <2>2. client \in {"stopped", "joining"} /\ Handled => Handled'
    BY HandledStep
  <2>3. client' = "freed" => Handled'
    BY <1>6 DEF LoopOK, Handled
  <2>4. StopAhead(ring) => StopAhead(ring')
    BY <1>6 DEF StopAhead
  <2> QED
    BY <1>0, <1>6, <2>1, <2>2, <2>3, <2>4 DEF StopOK
<1>7. CASE BeginStop \/ Join \/ \E on \in BOOLEAN : AutoMute(on)
  BY <1>6, <1>7 DEF BeginStop, Join, AutoMute, OnlySession, session
<1>8. CASE Restart
  <2>1. ring' = << >> /\ client' = "up" /\ pc' = "boot"
    BY <1>8 DEF Restart
  <2>2. NoRelease(ring')
    BY <2>1 DEF NoRelease
  <2> QED
    BY <2>1, <2>2 DEF StopOK
<1>9. CASE TakePause \/ TakeResume \/ TakeSet \/ TakeStop \/ TakeRelease
  <2>1. PICK c \in Command : Take(c) /\ (c = "STOP" => TakeStop)
    BY <1>9 DEF TakePause, TakeResume, TakeSet, TakeStop, TakeRelease, Command
  <2> QED
    BY <1>5, <2>1
<1>10. CASE \/ UNCHANGED vars
            \/ Boot \/ InitCodec \/ InitOut \/ StartWorkers \/ ResetTrack \/ ClearFlag \/ FlagCheck
            \/ TakeNone \/ ReleaseCodec \/ Wait
            \/ EndGetter \/ EndDecoder \/ InfoChanged \/ FormatUpdate \/ RefreshPts
  <2>1. UNCHANGED <<ring, lost, client>> /\ (pc = "done" => pc' = "done")
    BY <1>10 DEF vars, Boot, InitCodec, InitOut, StartWorkers, ResetTrack, ClearFlag, FlagCheck,
      TakeNone, ReleaseCodec, Wait, FirstPts, StartMuted, Unmute, EndGetter, EndDecoder, InfoChanged,
      FormatUpdate, RefreshPts, OnlyLoop, OnlyWorker, session
  <2> QED
    BY <1>6, <2>1
<1> QED
  BY <1>2, <1>3, <1>4, <1>7, <1>8, <1>9, <1>10 DEF Next, Loop

-----------------------------------------------------------------------------
(* The invariant that carries all of the safety of the manager. *)
THEOREM AudioDecInvariant == Spec => []AudioDecInv
<1>1. Init => AudioDecInv
  <2> SUFFICES ASSUME Init PROVE AudioDecInv
    OBVIOUS
  <2>1. << >> \in Seq(Command) /\ Len(<< >>) <= MESSAGE_NUM_MAX /\ NoRelease(<< >>)
    BY RingAssumption DEF NoRelease
  <2>2. TypeOK
    BY <2>1 DEF Init, TypeOK, Client, LoopPc, State, Track, Worker
  <2>3. LoopOK
    BY DEF Init, LoopOK, Down, Turn
  <2>4. OutputOK
    BY DEF Init, OutputOK
  <2>5. StopOK
    BY <2>1 DEF Init, StopOK
  <2> QED
    BY <2>2, <2>3, <2>4, <2>5 DEF AudioDecInv
<1>2. AudioDecInv /\ [Next]_vars => AudioDecInv'
  BY TypeStep, LoopStep, OutputStep, StopStep DEF AudioDecInv
<1> QED
  BY <1>1, <1>2, PTL DEF Spec

(* Type correctness: the ring of adec-message.c never grows beyond its     *)
(* capacity, and the manager's state is one of those named.                *)
THEOREM AudioDecTypes == Spec => []TypeOK
<1>1. AudioDecInv => TypeOK
  BY DEF AudioDecInv
<1> QED
  BY <1>1, AudioDecInvariant, PTL

(* No thread of the library runs, and no track calls back, without the     *)
(* codec, and the codec is released once (stop_adec, audio_codec_release). *)
THEOREM CodecIsInUse == Spec => []CodecInUse
<1>1. AudioDecInv => CodecInUse
  <2> SUFFICES ASSUME AudioDecInv PROVE CodecInUse
    OBVIOUS
  <2>1. pc \in LoopPc
    BY DEF AudioDecInv, TypeOK
  <2>2. Down => ~(getter = "running" \/ decoder = "running" \/ track = "playing")
    BY DEF Down
  <2>3. (Ready \/ Up \/ Closing) => codec
    BY DEF Ready, Up, Closing
  <2>4. Down \/ Ready \/ Up \/ Closing
    BY <2>1 DEF AudioDecInv, LoopOK, LoopPc, Turn
  <2>5. pc = "release" => codec
    BY DEF AudioDecInv, LoopOK, Closing
  <2> QED
    BY <2>2, <2>3, <2>4, <2>5 DEF CodecInUse
<1> QED
  BY <1>1, AudioDecInvariant, PTL

(* The output follows the state: it plays when active, and is silent when  *)
(* stopped or paused (adec_reset_track, adec_flag_check, pause_adec).      *)
THEOREM OutputIsRight == Spec => []OutputFollows
<1>1. AudioDecInv => OutputFollows
  <2> SUFFICES ASSUME AudioDecInv PROVE OutputFollows
    OBVIOUS
  <2>1. pc \in LoopPc
    BY DEF AudioDecInv, TypeOK
  <2>2. state = "STOPPED" => track # "playing"
    BY <2>1 DEF AudioDecInv, LoopOK, LoopPc, Turn, Unset, Down, Closing
  <2> QED
    BY <2>2 DEF AudioDecInv, OutputOK, OutputFollows
<1> QED
  BY <1>1, AudioDecInvariant, PTL

(* When audio_stop has returned, and its STOP was not lost, no thread, no  *)
(* codec and no started track is left (stop_adec, audio_decode_release).   *)
THEOREM StopLeavesNothing == Spec => []NothingLeft
<1>1. AudioDecInv => NothingLeft
  BY DEF AudioDecInv, LoopOK, StopOK, NothingLeft, Down
<1> QED
  BY <1>1, AudioDecInvariant, PTL
-----------------------------------------------------------------------------
(* audio_stop waits for nothing that may never come: the RELEASE it sent   *)
(* is still in the ring until the loop has ended, unless an overflow gave  *)
(* it up (dec_message_release, amthreadpool_pthread_join).                 *)
ReleaseKept ==
  client = "joining" =>
    pc = "done" \/ "RELEASE" \in lost \/ \E i \in 1..Len(ring) : ring[i] = "RELEASE"

(* Nor does the loop, when it joins the threads of the library: a thread   *)
(* that still runs has been told to end (stop_decode_thread).              *)
WorkersTold ==
  pc = "release" /\ (getter = "running" \/ decoder = "running") => exit_decode_thread

(* A command is appended behind a RELEASE that is there. *)
LEMMA SendKeepsRelease ==
  ASSUME TypeOK, NEW c \in Command, Send(c),
         c = "RELEASE" \/ \E i \in 1..Len(ring) : ring[i] = "RELEASE"
  PROVE  "RELEASE" \in lost' \/ \E i \in 1..Len(ring') : ring'[i] = "RELEASE"
<1> USE RingAssumption
<1>0. ring \in Seq(Command) /\ Len(ring) \in Nat /\ Len(ring) <= MESSAGE_NUM_MAX
  BY DEF TypeOK
<1>1. ASSUME NEW q \in Seq(Command), ring' = Append(q, c),
             c = "RELEASE" \/ \E i \in 1..Len(q) : q[i] = "RELEASE"
      PROVE  \E i \in 1..Len(ring') : ring'[i] = "RELEASE"
  <2>1. /\ Len(ring') = Len(q) + 1 /\ Len(q) \in Nat
        /\ ring'[Len(q) + 1] = c
        /\ \A i \in 1..Len(q) : ring'[i] = q[i]
    BY <1>1
  <2> QED
    BY <1>1, <2>1
<1>2. CASE Len(ring) < MESSAGE_NUM_MAX
  BY <1>0, <1>1, <1>2 DEF Send
<1>3. CASE ~(Len(ring) < MESSAGE_NUM_MAX)
  <2>1. ring' = Append(Tail(ring), c) /\ lost' = lost \union {Head(ring)} /\ ring # << >>
    BY <1>0, <1>3 DEF Send
  <2>2. /\ Tail(ring) \in Seq(Command) /\ Len(Tail(ring)) = Len(ring) - 1
        /\ Head(ring) = ring[1]
        /\ \A i \in 1..(Len(ring) - 1) : Tail(ring)[i] = ring[i + 1]
    BY <1>0, <2>1
  <2>3. ASSUME NEW i \in 1..Len(ring), ring[i] = "RELEASE", i # 1
        PROVE  \E j \in 1..Len(Tail(ring)) : Tail(ring)[j] = "RELEASE"
    <3>1. i - 1 \in 1..Len(Tail(ring)) /\ Tail(ring)[i - 1] = "RELEASE"
      BY <1>0, <2>2, <2>3
    <3> QED
      BY <3>1
  <2> QED
    BY <1>1, <2>1, <2>2, <2>3
<1> QED
  BY <1>2, <1>3

(* The loop that takes a RELEASE ends; taking another leaves it there. *)
LEMMA TakeKeepsRelease ==
  ASSUME TypeOK, NEW c \in Command \ {"RELEASE"}, Take(c),
         \E i \in 1..Len(ring) : ring[i] = "RELEASE"
  PROVE  \E i \in 1..Len(ring') : ring'[i] = "RELEASE"
<1>1. ring \in Seq(Command) /\ ring # << >> /\ Head(ring) = c /\ ring' = Tail(ring)
  BY DEF TypeOK, Take
<1>2. /\ Len(ring') = Len(ring) - 1 /\ Len(ring) \in Nat
      /\ ring[1] = c
      /\ \A i \in 1..(Len(ring) - 1) : ring'[i] = ring[i + 1]
  BY <1>1
<1>3. PICK i \in 1..Len(ring) : ring[i] = "RELEASE"
  OBVIOUS
<1>4. i # 1
  BY <1>2, <1>3
<1>5. i - 1 \in 1..Len(ring') /\ ring'[i - 1] = "RELEASE"
  BY <1>2, <1>3, <1>4
<1> QED
  BY <1>5

LEMMA ReleaseStep ==
  ASSUME TypeOK, LoopOK, ReleaseKept, [Next]_vars
  PROVE  ReleaseKept'
<1> DEFINE There == \E i \in 1..Len(ring) : ring[i] = "RELEASE"
<1> USE DEF session, output, workers
<1>1. ASSUME NEW c \in Command, Send(c), pc' = pc,
             \/ client' = client
             \/ client # "joining" /\ (client' = "joining" => c = "RELEASE")
      PROVE  ReleaseKept'
  <2>1. lost \subseteq lost'
    BY <1>1, SendRing
  <2>2. (There \/ c = "RELEASE") => "RELEASE" \in lost' \/ There'
    BY <1>1, SendKeepsRelease
  <2> QED
    BY <1>1, <2>1, <2>2 DEF ReleaseKept
<1>2. CASE Pause \/ Resume \/ SetMute \/ SendStop \/ SendRelease
  <2>1. PICK c \in Command : /\ Send(c)
                             /\ \/ client' = client
                                \/ client # "joining" /\ (client' = "joining" => c = "RELEASE")
    BY <1>2 DEF Pause, Resume, SetMute, SendStop, SendRelease, Command
  <2>2. pc' = pc
    BY <1>2 DEF Pause, Resume, SetMute, SendStop, SendRelease, OnlySession
  <2> QED
    BY <1>1, <2>1, <2>2
<1>3. CASE TakePause \/ TakeResume \/ TakeSet \/ TakeStop
  <2>1. PICK c \in Command \ {"RELEASE"} : Take(c)
    BY <1>3 DEF TakePause, TakeResume, TakeSet, TakeStop, Command
  <2>2. There => There'
    BY <2>1, TakeKeepsRelease
  <2>3. pc = "get" /\ client' = client /\ lost' = lost
    BY <2>1 DEF Take
  <2> QED
    BY <2>2, <2>3 DEF ReleaseKept
<1>4. CASE TakeRelease
  BY <1>4 DEF TakeRelease, ReleaseKept
<1>5. CASE BeginStop \/ Join \/ Restart
  BY <1>5 DEF BeginStop, Join, Restart, ReleaseKept
<1>6. CASE \/ UNCHANGED vars \/ \E on \in BOOLEAN : AutoMute(on)
           \/ Boot \/ InitCodec \/ InitOut \/ StartWorkers \/ ResetTrack \/ ClearFlag \/ FlagCheck
           \/ TakeNone \/ ReleaseCodec \/ Wait
           \/ EndGetter \/ EndDecoder \/ InfoChanged \/ FormatUpdate \/ RefreshPts
  <2>1. UNCHANGED <<ring, lost, client>> /\ (pc = "done" => pc' = "done")
    BY <1>6 DEF vars, AutoMute, Boot, InitCodec, InitOut, StartWorkers, ResetTrack, ClearFlag,
      FlagCheck, TakeNone, ReleaseCodec, Wait, FirstPts, StartMuted, Unmute, EndGetter, EndDecoder,
      InfoChanged, FormatUpdate, RefreshPts, OnlyLoop, OnlyWorker
  <2> QED
    BY <2>1 DEF ReleaseKept
<1> QED
  BY <1>2, <1>3, <1>4, <1>5, <1>6 DEF Next, Loop

(* The safety half of StopReturns: neither of the two joins of a stop can  *)
(* wait for what is not to come.                                           *)
THEOREM StopWaitsRight == Spec => [](ReleaseKept /\ WorkersTold)
<1>1. Init => ReleaseKept
  BY DEF Init, ReleaseKept
<1>2. AudioDecInv /\ ReleaseKept /\ [Next]_vars => ReleaseKept'
  BY ReleaseStep DEF AudioDecInv
<1>3. AudioDecInv => WorkersTold
  BY DEF AudioDecInv, LoopOK, Closing, WorkersTold
<1> QED
  BY <1>1, <1>2, <1>3, AudioDecInvariant, PTL DEF Spec
=============================================================================
