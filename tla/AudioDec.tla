------------------------------ MODULE AudioDec ------------------------------
(***************************************************************************)
(* The audio decoder manager of amadec: a client (the player, through      *)
(* audio_ctrl.c) sends commands through a ring, a message loop takes them  *)
(* and works the codec and the output track.  The codec is the DSP         *)
(* (adec-internal-mgt.c), or a decoder library run by two threads of the   *)
(* manager (adec-ffmpeg-mgt.c): arm says which.  A track that plays calls  *)
(* back from a thread of its own.                                          *)
(*                                                                         *)
(* CMD_START is left out: audio_ctrl.c never sends it.  What the two       *)
(* threads of the library hand each other (package list, pcm ring) is left *)
(* out too: here they only use the codec, and end.                         *)
(***************************************************************************)
EXTENDS Naturals, Sequences

CONSTANT MESSAGE_NUM_MAX   \* capacity of the ring

ASSUME RingAssumption == MESSAGE_NUM_MAX \in Nat \ {0}

VARIABLES
  arm,            \* the codec is a decoder library, not the DSP
  client,         \* how far the client is with its session
  ring,           \* the commands sent and not yet taken, oldest first
  lost,           \* history: the commands an overflow gave up
  pc,             \* where the message loop stands
  state,          \* audec->state
  codec,          \* the DSP, or the library with its buffers, is set up
  track,          \* the output: none, built, playing or paused
  auto_mute, format_changed_flag,
  getter, decoder,     \* the two threads of the library
  exit_decode_thread

session == <<arm, client, ring, lost>>
output == <<track, auto_mute, format_changed_flag>>
workers == <<getter, decoder, exit_decode_thread>>
vars == <<session, pc, state, codec, output, workers>>

Command == {"PAUSE", "RESUME", "SET", "STOP", "RELEASE"}
Client == {"up", "stopping", "stopped", "joining", "freed"}
LoopPc == {"boot", "codec", "aout", "spawn", "wait", "mutewait", "top", "clear",
           "flag", "flagwait", "get", "release", "done"}
State == {"IDLE", "TERMINATED", "STOPPED", "INITING", "INITTED", "ACTIVE", "PAUSED"}
Track == {"none", "built", "playing", "paused"}
Worker == {"none", "running", "ended"}

(* Slip: a paused decoder is taken for one that has stopped already. *)
StoppableActive == {"INITTED", "ACTIVE"}

(* state > INITING *)
Stoppable == {"INITTED", "ACTIVE", "PAUSED"}

NeedStop == client # "up"

(* Play and Hold say what the calls of the output do: nothing without a    *)
(* track.                                                                  *)
Play == IF track = "none" THEN "none" ELSE "playing"
Hold == IF track = "playing" THEN "paused" ELSE track

TypeOK ==
  /\ arm \in BOOLEAN
  /\ client \in Client
  /\ ring \in Seq(Command)
  /\ Len(ring) <= MESSAGE_NUM_MAX
  /\ lost \subseteq Command
  /\ pc \in LoopPc
  /\ state \in State
  /\ codec \in BOOLEAN
  /\ track \in Track
  /\ auto_mute \in BOOLEAN
  /\ format_changed_flag \in BOOLEAN
  /\ getter \in Worker
  /\ decoder \in Worker
  /\ exit_decode_thread \in BOOLEAN

Init ==
  /\ arm \in BOOLEAN
  /\ client = "up"
  /\ ring = << >>
  /\ lost = {}
  /\ pc = "boot"
  /\ state = "IDLE"
  /\ codec = FALSE
  /\ track = "none"
  /\ auto_mute = FALSE
  /\ format_changed_flag = FALSE
  /\ getter = "none"
  /\ decoder = "none"
  /\ exit_decode_thread = FALSE

-----------------------------------------------------------------------------
(* The client *)

(* Slip: the ring grows when it is full. *)
SendUnbounded(c) == ring' = Append(ring, c) /\ lost' = lost

(* Append c; a full ring gives up its oldest command. *)
Send(c) ==
  IF Len(ring) < MESSAGE_NUM_MAX
  THEN ring' = Append(ring, c) /\ lost' = lost
  ELSE ring' = Append(Tail(ring), c) /\ lost' = lost \union {Head(ring)}

OnlySession == UNCHANGED <<arm, pc, state, codec, output, workers>>

Pause == client = "up" /\ Send("PAUSE") /\ UNCHANGED client /\ OnlySession
Resume == client = "up" /\ Send("RESUME") /\ UNCHANGED client /\ OnlySession

(* A mute, sent by a thread of the application, at any time. *)
SetMute == client # "freed" /\ Send("SET") /\ UNCHANGED client /\ OnlySession

(* A seek turns the automute on and off. *)
AutoMute(on) ==
  /\ client = "up"
  /\ auto_mute' = on
  /\ UNCHANGED <<session, pc, state, codec, track, format_changed_flag, workers>>

(* audio_stop: need_stop, CMD_STOP, CMD_RELEASE, join, free. *)
BeginStop == client = "up" /\ client' = "stopping" /\ UNCHANGED <<ring, lost>> /\ OnlySession
SendStop == client = "stopping" /\ client' = "stopped" /\ Send("STOP") /\ OnlySession
SendRelease == client = "stopped" /\ client' = "joining" /\ Send("RELEASE") /\ OnlySession
Join == client = "joining" /\ pc = "done" /\ client' = "freed"
        /\ UNCHANGED <<ring, lost>> /\ OnlySession

(* The next session.  It is not followed when the last one has left a      *)
(* thread or a playing track on the manager it freed.                      *)
Restart ==
  /\ client = "freed"
  /\ getter = "none" /\ decoder = "none"
  /\ track \in {"none", "built"}
  /\ client' = "up" /\ ring' = << >> /\ lost' = {}
  /\ pc' = "boot" /\ state' = "IDLE" /\ codec' = FALSE
  /\ track' = "none" /\ auto_mute' = FALSE /\ format_changed_flag' = FALSE
  /\ UNCHANGED <<arm, workers>>

-----------------------------------------------------------------------------
(* The message loop: set-up *)

OnlyLoop == UNCHANGED <<session, track, auto_mute, format_changed_flag, workers>>

Boot ==
  /\ pc = "boot"
  /\ IF NeedStop THEN pc' = "top" /\ UNCHANGED state
                 ELSE pc' = "codec" /\ state' = "INITING"
  /\ UNCHANGED codec
  /\ OnlyLoop

(* audio_codec_init of the library writes a sysfs file over and over until *)
(* that succeeds, and does not look at need_stop: nothing says that it     *)
(* ends.                                                                   *)
SysfsWait == arm /\ pc = "codec"

(* feeder_init, audio_codec_init: what fails is taken back.  A write that  *)
(* is refused changes nothing and is no step.                              *)
InitCodec ==
  /\ pc = "codec"
  /\ \/ pc' = "aout" /\ codec' = TRUE
     \/ pc' = "boot" /\ codec' = FALSE
  /\ UNCHANGED <<session, state, output, getter, decoder>>
  /\ exit_decode_thread' = IF arm THEN FALSE ELSE exit_decode_thread

InitOut ==
  /\ pc = "aout"
  /\ \/ pc' = "spawn" /\ track' = "built" /\ state' = "INITTED" /\ UNCHANGED codec
     \/ pc' = "boot" /\ codec' = FALSE /\ UNCHANGED <<track, state>>
  /\ UNCHANGED <<session, auto_mute, format_changed_flag, workers>>

(* start_decode_thread, and start_adec up to its first wait.  A thread     *)
(* that cannot be created is not missed.                                   *)
StartWorkers ==
  /\ pc = "spawn"
  /\ pc' = "wait"
  /\ state' = "ACTIVE"
  /\ IF arm THEN getter' \in {"running", "none"} /\ decoder' \in {"running", "none"}
            ELSE UNCHANGED <<getter, decoder>>
  /\ UNCHANGED <<session, codec, output, exit_decode_thread>>

(* Slip: the waits do not look at need_stop. *)
GiveUpNever == FALSE

(* A wait for the clocks ends at the latest when the client wants to stop. *)
GiveUp == NeedStop

FirstPts ==
  /\ pc = "wait"
  /\ IF auto_mute THEN pc' = "mutewait" /\ UNCHANGED track
                  ELSE pc' = "top" /\ track' = Play
  /\ UNCHANGED <<session, state, codec, auto_mute, format_changed_flag, workers>>

StartMuted ==
  /\ pc = "mutewait"
  /\ pc' = "top"
  /\ auto_mute' = FALSE
  /\ track' = Play
  /\ UNCHANGED <<session, state, codec, format_changed_flag, workers>>

-----------------------------------------------------------------------------
(* The message loop: a turn *)

(* Slip: a track built anew plays in any case. *)
RebuiltPlaying == "playing"

(* A track built anew plays when the decoder is active. *)
Rebuilt == IF state = "ACTIVE" THEN "playing" ELSE "built"

(* adec_reset_track: the track of the old format goes, and one of the new  *)
(* format is built, in whatever state.                                     *)
ResetTrack ==
  /\ pc = "top"
  /\ IF format_changed_flag
     THEN pc' = "clear" /\ track' \in {Rebuilt, "none"}
     ELSE pc' = "flag" /\ UNCHANGED track
  /\ UNCHANGED <<session, state, codec, auto_mute, format_changed_flag, workers>>

ClearFlag ==
  /\ pc = "clear"
  /\ pc' = "flag"
  /\ format_changed_flag' = FALSE
  /\ UNCHANGED <<session, state, codec, track, auto_mute, workers>>

(* Slip: both loops serve an automute in PAUSED. *)
MuteStatesAll == {"ACTIVE", "PAUSED"}

(* The states an automute is served in: the library's loop does not leave  *)
(* PAUSED out.                                                             *)
MuteStates == IF arm THEN {"ACTIVE", "PAUSED"} ELSE {"ACTIVE"}

FlagCheck ==
  /\ pc = "flag"
  /\ IF auto_mute /\ state \in MuteStates
     THEN pc' = "flagwait" /\ track' = Hold
     ELSE pc' = "get" /\ UNCHANGED track
  /\ UNCHANGED <<session, state, codec, auto_mute, format_changed_flag, workers>>

Unmute ==
  /\ pc = "flagwait"
  /\ pc' = "get"
  /\ track' = Play
  /\ auto_mute' = FALSE
  /\ UNCHANGED <<session, state, codec, format_changed_flag, workers>>

TakeNone ==
  /\ pc = "get" /\ ring = << >>
  /\ pc' = "top"
  /\ UNCHANGED <<state, codec>>
  /\ OnlyLoop

(* Take the oldest command, which is c. *)
Take(c) ==
  /\ pc = "get" /\ ring # << >>
  /\ Head(ring) = c
  /\ ring' = Tail(ring)
  /\ UNCHANGED <<arm, client, lost, codec, auto_mute, format_changed_flag, getter, decoder>>

TakePause ==
  /\ Take("PAUSE")
  /\ pc' = "top"
  /\ IF state = "ACTIVE" THEN state' = "PAUSED" /\ track' = Hold
                         ELSE UNCHANGED <<state, track>>
  /\ UNCHANGED exit_decode_thread

TakeResume ==
  /\ Take("RESUME")
  /\ pc' = "top"
  /\ IF state = "PAUSED" THEN state' = "ACTIVE" /\ track' = Play
                         ELSE UNCHANGED <<state, track>>
  /\ UNCHANGED exit_decode_thread

TakeSet ==
  /\ Take("SET")
  /\ pc' = "top"
  /\ UNCHANGED <<state, track, exit_decode_thread>>

(* stop_adec: the output goes first, and its callback with it. *)
TakeStop ==
  /\ Take("STOP")
  /\ IF state \in Stoppable
     THEN /\ pc' = "release"
          /\ state' = "STOPPED"
          /\ track' = "none"
          /\ exit_decode_thread' = arm
     ELSE pc' = "top" /\ UNCHANGED <<state, track, exit_decode_thread>>

TakeRelease ==
  /\ Take("RELEASE")
  /\ pc' = "done"
  /\ state' = "TERMINATED"
  /\ UNCHANGED <<track, exit_decode_thread>>

(* Slip: the thread that fetches packages is not joined. *)
JoinedDecoder == decoder # "running"

(* What stop_decode_thread waits for.  A thread that was never created is  *)
(* joined in vain: its id names no thread.                                 *)
Joined == decoder # "running" /\ getter # "running"

(* A thread that has ended is gone when it is joined. *)
Reaped(thread) == IF thread = "ended" THEN "none" ELSE thread

(* feeder_release, audio_codec_release *)
ReleaseCodec ==
  /\ pc = "release"
  /\ pc' = "top"
  /\ codec' = FALSE
  /\ IF arm
     THEN /\ Joined
          /\ getter' = Reaped(getter) /\ decoder' = Reaped(decoder)
          /\ exit_decode_thread' = FALSE
     ELSE UNCHANGED workers
  /\ UNCHANGED <<session, state, output>>

Loop ==
  \/ Boot \/ InitCodec \/ InitOut \/ StartWorkers
  \/ ResetTrack \/ ClearFlag \/ FlagCheck
  \/ TakeNone \/ TakePause \/ TakeResume \/ TakeSet \/ TakeStop \/ TakeRelease
  \/ ReleaseCodec

(* The waits of the loop end when a clock says so, or when they give up. *)
Wait == FirstPts \/ StartMuted \/ Unmute

-----------------------------------------------------------------------------
(* The threads of the library, and the callback of the track *)

OnlyWorker == UNCHANGED <<session, pc, state, codec, track, auto_mute, exit_decode_thread>>

EndGetter ==
  /\ getter = "running" /\ exit_decode_thread
  /\ getter' = "ended"
  /\ UNCHANGED <<decoder, format_changed_flag>>
  /\ OnlyWorker

EndDecoder ==
  /\ decoder = "running" /\ exit_decode_thread
  /\ decoder' = "ended"
  /\ UNCHANGED <<getter, format_changed_flag>>
  /\ OnlyWorker

(* The decoder finds another format in the stream. *)
InfoChanged ==
  /\ decoder = "running"
  /\ format_changed_flag' = TRUE
  /\ UNCHANGED <<getter, decoder>>
  /\ OnlyWorker

(* So does the callback, when the DSP decodes. *)
FormatUpdate ==
  /\ track = "playing" /\ ~arm
  /\ format_changed_flag' = TRUE
  /\ UNCHANGED <<session, pc, state, codec, track, auto_mute, workers>>

(* The callback finds a gap in the audio clock. *)
RefreshPts ==
  /\ track = "playing"
  /\ auto_mute' = TRUE
  /\ UNCHANGED <<session, pc, state, codec, track, format_changed_flag, workers>>

-----------------------------------------------------------------------------
Next ==
  \/ Pause \/ Resume \/ SetMute \/ \E on \in BOOLEAN : AutoMute(on)
  \/ BeginStop \/ SendStop \/ SendRelease \/ Join \/ Restart
  \/ Loop \/ Wait
  \/ EndGetter \/ EndDecoder \/ InfoChanged \/ FormatUpdate \/ RefreshPts

(* The threads run, and so does a client that has begun to stop.  A clock  *)
(* may never come, so that a wait is only sure to end when it gives up,    *)
(* and a write of the library's set-up may never succeed.                  *)
Fairness ==
  /\ WF_vars(Loop /\ ~SysfsWait)
  /\ WF_vars(Wait /\ GiveUp)
  /\ WF_vars(EndGetter) /\ WF_vars(EndDecoder)
  /\ WF_vars(SendStop) /\ WF_vars(SendRelease) /\ WF_vars(Join)

Spec == Init /\ [][Next]_vars /\ Fairness

-----------------------------------------------------------------------------
(* Nobody uses a codec that is not set up or is released: neither thread   *)
(* of the library runs, and no track calls back, without it.  Nor is it    *)
(* released twice, which would free the pcm ring twice.                    *)
CodecInUse ==
  /\ getter = "running" \/ decoder = "running" \/ track = "playing" => codec
  /\ pc = "release" => codec

(* The track follows the state whenever the loop looks for a command: it   *)
(* plays when active, unless it could not be built, and it is silent when  *)
(* stopped, and when paused - except that the library's loop lets an       *)
(* automute resume a paused output.                                        *)
OutputFollows ==
  /\ pc = "get" /\ state = "ACTIVE" => track \in {"playing", "none"}
  /\ state = "PAUSED" /\ ~arm => track # "playing"
  /\ state = "STOPPED" => track # "playing"

(* A session that has ended, and whose STOP was not given up by an         *)
(* overflow, has left nothing that uses the manager it freed: no thread,   *)
(* no codec, no track that was ever started.                               *)
NothingLeft ==
  client = "freed" /\ "STOP" \notin lost =>
    /\ getter = "none" /\ decoder = "none"
    /\ ~codec
    /\ track \in {"none", "built"}

(* audio_stop returns, whatever clock or thread the message loop waits     *)
(* for, unless the RELEASE was given up by an overflow, or the set-up of   *)
(* the library waits for its sysfs file for ever (adec-ffmpeg-mgt.c:504),  *)
(* which no stop can end.                                                  *)
StopReturns ==
  []<>~SysfsWait => (client = "stopping" ~> client = "freed" \/ "RELEASE" \in lost)
=============================================================================
