------------------------------- MODULE Player -------------------------------
(***************************************************************************)
(* One player of libplayer (amplayer/player): the player thread of         *)
(* player.c, its mate thread (player_mate.c), the application threads that *)
(* send it commands and the one that stops it and exits (player_ctrl.c).   *)
(*                                                                         *)
(* The threads share play_para_t with no lock: the state published in      *)
(* thread_mgt, the flags of playctrl_info and the codec.  The command ring *)
(* is the queue of CommandQueue, which MessagePool implements.  Positions, *)
(* buffer levels and what ffmpeg and the decoder do are choices made by    *)
(* the environment, so that every outcome the code provides for can occur. *)
(*                                                                         *)
(* A definition introduced by "Slip:" is a plausible bug, not the code: it *)
(* stands next to the definition it spoils and nothing refers to it.       *)
(***************************************************************************)
EXTENDS Naturals, Sequences

CONSTANTS Command,      \* the commands the application sends
          MESSAGE_MAX,  \* capacity of the command ring
          MaxCommands,  \* bound: the application sends this many commands
          Can           \* what the environment of this instance may do

SearchCommand == {"SEARCH", "SEARCH_END", "SEARCH_RESET"}
ProxyCommand == {"PAUSE", "RESUME", "START", "LOOP", "NOLOOP"}
FastCommand == {"FF", "FF_OFF"}

(* need_start, type_parser, rw_on_pause, loop_mode: what player_start got.  *)
(* video: the file has a video stream.  buffering: auto buffering is on.   *)
(* io_error: opening, reading, writing or seeking may fail by itself.      *)
(* decoder_error: a decoder may need a reset.  pcm_end: the audio DSP may  *)
(* report the end.  late_mate: the mate thread may be scheduled so late    *)
(* that player_mate_sleep returns before it has begun to run.              *)
(* codec_error: codec_pause and codec_resume may fail.  subtitle: a        *)
(* program stream may show subtitles that were not known at its start.     *)
Chance == {"need_start", "type_parser", "rw_on_pause", "loop_mode", "video",
           "buffering", "io_error", "decoder_error", "pcm_end", "late_mate",
           "codec_error", "subtitle"}

ASSUME PlayerAssumption ==
  /\ Command \subseteq SearchCommand \cup ProxyCommand \cup FastCommand
  /\ MESSAGE_MAX \in Nat \ {0}
  /\ MaxCommands \in Nat
  /\ Can \subseteq Chance

(* A fast command while paused before the decoder is there dereferences a  *)
(* null codec; instances that wait for a start leave those commands out.   *)
ASSUME FastAssumption == "need_start" \in Can => Command \cap FastCommand = {}

VARIABLES
  pc,       \* where the player thread stands
  para,     \* what play_para_t holds for both threads
  pkt,      \* avpkt_isvalid: a packet has been read and not yet written
  oldcmd,   \* the last command was a search, not long ago
  queue,    \* the commands waiting in the ring
  mate,     \* where the mate thread stands
  killed,   \* the player thread is in the kill list of ffmpeg_interrupt
  ctl,      \* where the thread that stops and exits stands
  op,       \* what that thread was asked to do
  stop_ok,  \* a player_stop of that thread has returned success
  sent      \* commands sent by the application

vars == <<pc, para, pkt, oldcmd, queue, mate, killed, ctl, op, stop_ok, sent>>

Ring == INSTANCE CommandQueue WITH Command <- Command \cup {"STOP"}

Opening == {"INITING", "TYPE_REDY", "INITOK"}
Playing == {"START", "RUNNING", "BUFFERING", "PAUSE", "SEARCHING", "SEARCHOK",
            "FF_END", "FB_END", "FOUND_SUB"}
Stopped == {"ERROR", "PLAYEND", "STOPED", "EXIT"}

Flag == {"end", "request_end", "loop", "search", "reset", "pause", "fast",
         "f_step", "init_ff_fr", "read_end"}

Init ==
  /\ pc = "begin"
  /\ para = [status |-> "NONE", codec |-> "none",
             end |-> FALSE, request_end |-> FALSE, loop |-> FALSE,
             search |-> FALSE, reset |-> FALSE, pause |-> FALSE,
             fast |-> FALSE, f_step |-> FALSE, init_ff_fr |-> FALSE,
             read_end |-> FALSE]
  /\ pkt = FALSE
  /\ oldcmd = FALSE
  /\ queue = << >>
  /\ mate = "none"
  /\ killed = FALSE
  /\ ctl = "idle"
  /\ op = "none"
  /\ stop_ok = FALSE
  /\ sent = 0
-----------------------------------------------------------------------------
(* codec_pause and codec_resume do nothing on a null codec.  When they fail *)
(* the decoder stays as it was and their callers go on all the same.       *)
CodecTo(codec, to) == IF codec = "none" THEN "none" ELSE to
Codecs(codec, to) ==
  {CodecTo(codec, to)} \cup (IF "codec_error" \in Can THEN {codec} ELSE {})

(* update_buffering_states: starve below the low mark, refill above it, and *)
(* in any case when the whole file has been read.                          *)
Starved(p) ==
  {[p EXCEPT !.codec = c, !.status = "BUFFERING"] : c \in Codecs(p.codec, "paused")}
Refilled(p) ==
  {[p EXCEPT !.codec = c, !.status = "RUNNING"] : c \in Codecs(p.codec, "running")}
Buffered(p) ==
  CASE p.status = "BUFFERING" /\ p.read_end -> Refilled(p)
    [] p.status = "BUFFERING" /\ ~p.read_end -> {p} \cup Refilled(p)
    [] p.status = "RUNNING" /\ ~p.read_end /\ "buffering" \in Can -> {p} \cup Starved(p)
    [] OTHER -> {p}

(* The tail of the three end detections: unless it loops the player        *)
(* declares the end and player_clear_ctrl_flags wipes the requests.        *)
Declared(p) ==
  IF p.loop THEN p
  ELSE [p EXCEPT !.status = "PLAYEND", !.fast = FALSE, !.search = FALSE,
                 !.reset = FALSE, !.f_step = FALSE]

(* check_avbuf_end and check_force_end act when no end is pending; the end *)
(* reported by the audio DSP is acted on whatever is pending.              *)
EndNoticed(p) ==
  p.read_end /\ p.status # "PAUSE" /\ (~p.end \/ "pcm_end" \in Can)

Noticed(p) == {[p EXCEPT !.end = TRUE, !.search = s] : s \in {p.search, FALSE}}

Ended(p) ==
  {p} \cup (IF EndNoticed(p) THEN {Declared(q) : q \in Noticed(p)} ELSE {})

(* update_playing_info, all that it may do to the shared state. *)
Updated(p) == UNION {Ended(q) : q \in Buffered(p)}

(* check_decoder_worksta: a decoder in error asks for a reset. *)
DecoderChecked(p) ==
  {p} \cup (IF "decoder_error" \in Can /\ p.status # "PAUSE"
            THEN {[p EXCEPT !.reset = TRUE, !.end = TRUE]} ELSE {})

(* check_subtitle_info: new subtitles are published as a status of their   *)
(* own, over whatever the player was doing.                                *)
SubtitleChecked(p) ==
  {p} \cup (IF "subtitle" \in Can THEN Updated([p EXCEPT !.status = "FOUND_SUB"]) ELSE {})

(* check_msg, the branches for a search. *)
Searched(p, c) ==
  LET q == IF p.status = "SEARCHING"
           THEN [p EXCEPT !.fast = FALSE, !.f_step = FALSE] ELSE p
  IN  CASE c = "SEARCH"       -> {[q EXCEPT !.search = TRUE, !.end = TRUE]}
        [] c = "SEARCH_RESET" -> {[q EXCEPT !.reset = TRUE, !.end = TRUE]}
        [] c = "SEARCH_END"   -> Updated([q EXCEPT !.end = TRUE, !.search = FALSE,
                                                   !.status = "PLAYEND"])

(* What becomes of the decoder when a command clears the pause. *)
Unpaused(p) == IF p.pause THEN Codecs(p.codec, "running") ELSE {p.codec}

(* check_msg, the branches for fast forward and backward. *)
Fast(p, c) ==
  CASE "video" \notin Can -> {p}
    [] "video" \in Can /\ c = "FF_OFF" ->
         {[p EXCEPT !.init_ff_fr = FALSE, !.f_step = FALSE]}
    [] "video" \in Can /\ c = "FF" ->
         {[p EXCEPT !.init_ff_fr = FALSE, !.f_step = TRUE, !.fast = TRUE,
                    !.codec = k, !.pause = FALSE, !.status = "RUNNING"] :
            k \in Unpaused(p)}

(* Slip: a stop that forgets to end the loop mode. *)
StoppingKeepsLoop(p) ==
  {[p EXCEPT !.end = TRUE, !.search = FALSE, !.request_end = TRUE, !.fast = FALSE,
             !.codec = k, !.pause = FALSE] : k \in Unpaused(p)}

(* check_msg, the branch for a stop. *)
Stopping(p) ==
  {[p EXCEPT !.end = TRUE, !.loop = FALSE, !.search = FALSE, !.request_end = TRUE,
             !.codec = k, !.pause = FALSE, !.fast = FALSE] : k \in Unpaused(p)}

(* check_msg. *)
CheckMsg(p, c) ==
  CASE c = "STOP" -> Stopping(p)
    [] c \in SearchCommand -> Searched(p, c)
    [] c = "PAUSE"  -> {[p EXCEPT !.pause = TRUE]}
    [] c = "RESUME" -> {[p EXCEPT !.pause = FALSE]}
    [] c \in FastCommand -> Fast(p, c)
    [] c = "LOOP"   -> {[p EXCEPT !.loop = TRUE]}
    [] c = "NOLOOP" -> {[p EXCEPT !.loop = FALSE]}
    [] c = "START"  -> {p}

(* Slip: a file that was read to its end always reports PLAYEND. *)
EndStatusOfFile(p) == IF p.request_end /\ ~p.read_end THEN "STOPED" ELSE "PLAYEND"

EndStatus(p) == IF p.request_end THEN "STOPED" ELSE "PLAYEND"

(* check_flag after the message, when it returns BREAK_FLAG. *)
Breaks(p) == p.end \/ (p.fast /\ ~p.init_ff_fr)
Broken(p) ==
  IF p.end
  THEN IF p.search \/ p.fast THEN p ELSE [p EXCEPT !.status = EndStatus(p)]
  ELSE IF p.f_step THEN [p EXCEPT !.init_ff_fr = TRUE]
                   ELSE [p EXCEPT !.fast = FALSE, !.search = TRUE]

(* Slip: leaving the pause changes the status and forgets the decoder. *)
GoesOnPaused(p) ==
  IF p.pause /\ p.status # "PAUSE"
  THEN UNION {Updated([p EXCEPT !.codec = k, !.status = "PAUSE"]) :
                k \in Codecs(p.codec, "paused")}
  ELSE IF ~p.pause /\ p.status \in {"PAUSE", "SEARCHOK"}
       THEN Updated([p EXCEPT !.status = "RUNNING"])
       ELSE {p}

(* check_flag after the message, otherwise: enter or leave the pause. *)
GoesOn(p) ==
  IF p.pause /\ p.status # "PAUSE"
  THEN UNION {Updated([p EXCEPT !.codec = k, !.status = "PAUSE"]) :
                k \in Codecs(p.codec, "paused")}
  ELSE IF ~p.pause /\ p.status \in {"PAUSE", "SEARCHOK"}
       THEN UNION {Updated([p EXCEPT !.codec = k, !.status = "RUNNING"]) :
                     k \in Codecs(p.codec, "running")}
       ELSE {p}

(* player_thread after a read: whatever is not running, buffering or       *)
(* paused is running now.                                                  *)
Promoted(p) ==
  IF ~p.f_step /\ p.status \notin {"RUNNING", "BUFFERING", "PAUSE"}
  THEN Updated([p EXCEPT !.status = "RUNNING"]) ELSE {p}

(* Slip: a reset that releases the decoder and does not open a new one. *)
FreshClosed(p) == [p EXCEPT !.end = FALSE, !.read_end = FALSE, !.codec = "none"]

(* player_reset: player_para_reset clears the end flags, player_dec_reset  *)
(* opens a fresh decoder and moves to the next position.                   *)
Fresh(p) == [p EXCEPT !.end = FALSE, !.read_end = FALSE, !.codec = "running"]

Restarted(p) ==
  LET q == Fresh(p)
  IN  {q} \cup
      (IF ~p.fast THEN {}
       ELSE {[q EXCEPT !.end = TRUE],
             [q EXCEPT !.f_step = FALSE, !.status = "FF_END",
                       !.init_ff_fr = IF p.loop THEN FALSE ELSE @],
             [q EXCEPT !.status = "FB_END"],
             [q EXCEPT !.f_step = FALSE, !.init_ff_fr = FALSE, !.status = "FB_END"]})

(* Slip: the end of the seek is not published. *)
ServedSilently(p) == [p EXCEPT !.search = FALSE, !.reset = FALSE, !.end = FALSE]

(* player_thread after the reset: a seek is done, the requests are served. *)
Served(p) ==
  [p EXCEPT !.status = IF p.search THEN "SEARCHOK" ELSE @,
            !.search = FALSE, !.reset = FALSE, !.end = FALSE]

(* Slip: exit_flag forgets that a seek is pending. *)
LeavesSeek(p) == ~p.loop /\ ~p.fast /\ ~p.reset

(* exit_flag of player_thread. *)
Leaves(p) == ~p.loop /\ ~p.search /\ ~p.fast /\ ~p.reset

(* check_stop_cmd: whether there is a stop, and what it leaves of the ring, *)
(* which is what comes after the first stop.                               *)
HasStop(q) == \E i \in 1 .. Len(q) : q[i] = "STOP"
AfterStop(q) ==
  IF ~HasStop(q) THEN {<< >>}
  ELSE {SubSeq(q, i + 1, Len(q)) :
          i \in {j \in 1 .. Len(q) : q[j] = "STOP" /\ \A k \in 1 .. j - 1 : q[k] # "STOP"}}

MayFail == killed \/ "io_error" \in Can

(***************************************************************************)
(* The player thread.                                                      *)
(***************************************************************************)
others == <<killed, ctl, op, stop_ok, sent>>

(* The start of player_thread and update_player_start_paras. *)
Begin ==
  /\ pc = "begin"
  /\ para' = [para EXCEPT !.status = "INITING", !.loop = "loop_mode" \in Can]
  /\ pc' = "open"
  /\ UNCHANGED <<pkt, oldcmd, queue, mate, others>>

Fail ==
  /\ para' = [para EXCEPT !.status = "ERROR"]
  /\ pc' = "release0"

(* ffmpeg_open_file; it fails at once when the thread is in the kill list. *)
Open ==
  /\ pc = "open"
  /\ \/ para' = [para EXCEPT !.status = "TYPE_REDY"] /\ pc' = "typed"
     \/ MayFail /\ Fail
  /\ UNCHANGED <<pkt, oldcmd, queue, mate, others>>

(* The type parser's look at the oldest command; it is left in the ring.   *)
Typed ==
  /\ pc = "typed"
  /\ pc' = IF "type_parser" \in Can /\ queue # << >> /\ Head(queue) = "STOP"
           THEN "release0" ELSE "decinit"
  /\ UNCHANGED <<para, pkt, oldcmd, queue, mate, others>>

(* player_dec_init and set_media_info. *)
DecInit ==
  /\ pc = "decinit"
  /\ \/ /\ para' = [para EXCEPT !.status = "INITOK"]
        /\ pc' = IF "need_start" \in Can THEN "waitstart" ELSE "prepare"
        /\ UNCHANGED queue
     \/ /\ MayFail
        /\ para' = [para EXCEPT !.status = IF HasStop(queue) THEN "STOPED" ELSE "ERROR"]
        /\ queue' \in AfterStop(queue)
        /\ pc' = "release0"
     \/ "io_error" \in Can /\ Fail /\ UNCHANGED queue
  /\ UNCHANGED <<pkt, oldcmd, mate, others>>

(* One turn of the need_start loop: check_start_cmd, then the end test.  A *)
(* seek to a position inside the file only sets where to start.            *)
WaitStart ==
  /\ pc = "waitstart"
  /\ IF queue = << >> THEN para' = para /\ pc' = pc /\ UNCHANGED queue
     ELSE /\ Ring!Take
          /\ IF Head(queue) = "START" THEN para' = para /\ pc' = "prepare"
             ELSE \E p \in IF Head(queue) = "SEARCH" THEN {para}
                           ELSE CheckMsg(para, Head(queue)) :
                    IF p.end /\ ~p.search
                    THEN para' = [p EXCEPT !.status = EndStatus(p)] /\ pc' = "release0"
                    ELSE para' = p /\ pc' = pc
  /\ UNCHANGED <<pkt, oldcmd, mate, others>>

(* Slip: the ring is emptied when playing begins. *)
PrepareFlushes ==
  /\ pc = "prepare"
  /\ para' = [para EXCEPT !.status = "START", !.codec = "running"]
  /\ pc' = "flag"
  /\ mate' = "asleep"
  /\ queue' = << >>
  /\ UNCHANGED <<pkt, oldcmd, others>>

(* player_offset_init, player_decoder_init and player_mate_init. *)
Prepare ==
  /\ pc = "prepare"
  /\ \/ /\ para' = [para EXCEPT !.status = "START", !.codec = "running"]
        /\ pc' = "flag"
        /\ mate' = "asleep"
     \/ MayFail /\ Fail /\ UNCHANGED mate
  /\ UNCHANGED <<pkt, oldcmd, queue, others>>

(* check_flag up to the message, in the play loop ("flag") or in the loop  *)
(* that waits for the end ("endflag").                                     *)
Decision == [flag |-> "decide", endflag |-> "enddecide"]

GetMessage ==
  /\ pc \in {"flag", "endflag"}
  /\ pc' = Decision[pc]
  /\ IF queue = << >> THEN UNCHANGED <<para, oldcmd, queue>>
     ELSE /\ Ring!Take
          /\ para' \in CheckMsg(para, Head(queue))
          /\ oldcmd' = (Head(queue) \in SearchCommand)
  /\ UNCHANGED <<pkt, mate, others>>

(* Where check_flag leads when it does not break.  A read wakes the mate,  *)
(* and so does the buffering of more data while a packet waits.  After     *)
(* CONTINUE_FLAG ("held") the status is not promoted for a waiting packet. *)
ReadNext(held) ==
  IF pkt /\ "rw_on_pause" \notin Can
  THEN pc' = (IF held THEN "write" ELSE "promote") /\ UNCHANGED mate
  ELSE /\ pc' = IF pkt /\ held THEN "hold" ELSE "read"
       /\ mate' = IF mate = "asleep" THEN "posted" ELSE mate

(* check_flag returning early: a search was the last command and is the    *)
(* next one too, and the frame of the last one is not shown yet.  For at   *)
(* most 400 ms: expire is the clock that ends it.                          *)
WaitForFrame ==
  /\ pc \in {"flag", "endflag"}
  /\ oldcmd /\ queue # << >> /\ Head(queue) \in SearchCommand
  /\ "video" \in Can
  /\ \E expire \in BOOLEAN : oldcmd' = ~expire
  /\ IF pc = "flag" THEN ReadNext(FALSE) ELSE pc' = "endupdate" /\ UNCHANGED mate
  /\ UNCHANGED <<para, pkt, queue, others>>

(* The rest of check_flag in the play loop, and what the loop makes of it. *)
Decide ==
  /\ pc = "decide"
  /\ IF Breaks(para)
     THEN /\ IF para.end \/ pkt
             THEN para' = Broken(para)
             ELSE para' = [Broken(para) EXCEPT !.end = TRUE]
          /\ pc' = IF pkt /\ ~para.end THEN "write" ELSE "waitend"
          /\ UNCHANGED mate
     ELSE para' \in GoesOn(para) /\ ReadNext(para.pause)
  /\ UNCHANGED <<pkt, oldcmd, queue, others>>

(* Slip: player_mate_sleep asks the mate to stop and does not wait. *)
MateSleepsSoon == mate' \in {mate, "asleep"} /\ mate # "none"

(* player_mate_sleep: wait until the mate has stopped working.  It cannot  *)
(* tell a mate that was posted and has not begun from one that sleeps.     *)
MateSleeps ==
  \/ mate \in {"asleep", "awake"} /\ mate' = "asleep"
  \/ mate = "posted" /\ "late_mate" \in Can /\ UNCHANGED mate

(* read_av_packet, or ffmpeg_buffering_data when a packet waits: a packet, *)
(* nothing yet, the end of the file or a failure.                          *)
Read ==
  /\ pc = "read"
  /\ MateSleeps
  /\ \/ pc' = "promote" /\ UNCHANGED <<para, pkt>>
     \/ pc' = "promote" /\ ~pkt /\ ~para.read_end /\ pkt' = TRUE /\ UNCHANGED para
     \/ pc' = "promote" /\ ~pkt /\ para' = [para EXCEPT !.read_end = TRUE] /\ UNCHANGED pkt
     \/ ~pkt /\ ~para.read_end /\ MayFail /\ Fail /\ UNCHANGED pkt
  /\ UNCHANGED <<oldcmd, queue, others>>

Hold ==
  /\ pc = "hold"
  /\ MateSleeps
  /\ pc' = "write"
  /\ UNCHANGED <<para, pkt, oldcmd, queue, others>>

Promote ==
  /\ pc = "promote"
  /\ para' \in Promoted(para)
  /\ pc' = "write"
  /\ UNCHANGED <<pkt, oldcmd, queue, mate, others>>

(* write_av_packet: the decoder takes the packet or is full, and when it   *)
(* stays full asks for a reset; PLAYER_WR_FINISH when all is written.      *)
Write ==
  /\ pc = "write"
  /\ \/ /\ pkt' \in {pkt, FALSE}
        /\ para' = para
        /\ pc' = "written"
     \/ /\ pkt' = FALSE
        /\ para' = para
        /\ para.read_end /\ ~para.f_step
        /\ pc' = "waitend"
     \/ /\ pkt /\ "decoder_error" \in Can
        /\ UNCHANGED pkt
        /\ para' = [para EXCEPT !.reset = TRUE, !.end = TRUE]
        /\ pc' = "written"
     \/ pkt /\ "io_error" \in Can /\ Fail /\ UNCHANGED pkt
  /\ UNCHANGED <<oldcmd, queue, mate, others>>

(* The rest of the play loop: update_playing_info, check_decoder_worksta,  *)
(* check_subtitle_info and, while winding, whether the decoder has shown   *)
(* enough.                                                                 *)
Written ==
  /\ pc = "written"
  /\ \/ \E u \in Updated(para) : \E d \in DecoderChecked(u) : \E p \in SubtitleChecked(d) :
          /\ \/ para' = p
             \/ p.fast /\ para' \in Updated([p EXCEPT !.end = TRUE])
          /\ pc' = IF para'.end THEN "waitend" ELSE "flag"
     \/ "io_error" \in Can /\ "video" \in Can /\ Fail
  /\ UNCHANGED <<pkt, oldcmd, queue, mate, others>>

(* The head of the loop that waits for the end to be played. *)
WaitEnd ==
  /\ pc = "waitend"
  /\ IF para.end THEN pc' = "leave" /\ UNCHANGED para
                 ELSE pc' = "endflag" /\ para' \in DecoderChecked(para)
  /\ UNCHANGED <<pkt, oldcmd, queue, mate, others>>

(* The rest of check_flag in that loop, and what the loop makes of it. *)
EndDecide ==
  /\ pc = "enddecide"
  /\ IF Breaks(para)
     THEN /\ LET p == Broken(para)
             IN  para' = [p EXCEPT !.read_end = IF p.search \/ p.fast THEN FALSE ELSE @]
          /\ pc' = "leave"
     ELSE /\ para' \in GoesOn(para)
          /\ pc' = IF para.pause THEN "waitend" ELSE "endupdate"
  /\ UNCHANGED <<pkt, oldcmd, queue, mate, others>>

(* update_playing_info at the foot of that loop; it may fail and end it. *)
EndUpdate ==
  /\ pc = "endupdate"
  /\ \/ para' \in Updated(para) /\ pc' = "waitend"
     \/ "io_error" \in Can /\ UNCHANGED para /\ pc' = "leave"
  /\ UNCHANGED <<pkt, oldcmd, queue, mate, others>>

(* exit_flag: leave for good, or show that a reset is under way. *)
Leave ==
  /\ pc = "leave"
  /\ IF Leaves(para)
     THEN pc' = "release0" /\ UNCHANGED para
     ELSE /\ pc' = "reset"
          /\ IF para.status = "SEARCHING" THEN UNCHANGED para
             ELSE para' \in Updated([para EXCEPT !.status = "SEARCHING"])
  /\ UNCHANGED <<pkt, oldcmd, queue, mate, others>>

(* player_reset and what player_thread makes of its result. *)
Reset ==
  /\ pc = "reset"
  /\ \/ \E p \in Restarted(para) :
          IF p.end THEN para' = [p EXCEPT !.status = "PLAYEND"] /\ pc' = "release0"
                   ELSE para' = Served(p) /\ pc' = "flag"
     \/ /\ MayFail
        /\ para' = [Fresh(para) EXCEPT !.status = "ERROR"]
        /\ pc' = "release0"
  /\ pkt' = FALSE
  /\ UNCHANGED <<oldcmd, queue, mate, others>>

(* Slip: the mate is told to exit and is not joined. *)
Release0Early ==
  /\ pc = "release0"
  /\ pc' = "closing"
  /\ UNCHANGED <<para, pkt, oldcmd, queue, mate, others>>

(* release0: player_mate_release joins the mate, then an error that a stop *)
(* asked for is made a stop.                                               *)
Release0 ==
  /\ pc = "release0"
  /\ mate \in {"none", "asleep", "posted", "awake"}
  /\ mate' = "none"
  /\ pc' = "closing"
  /\ IF para.status # "ERROR" THEN UNCHANGED <<para, queue>>
     ELSE /\ para' = IF para.request_end \/ HasStop(queue)
                     THEN [para EXCEPT !.status = "STOPED"] ELSE para
          /\ queue' \in IF para.request_end THEN {queue} ELSE AfterStop(queue)
  /\ UNCHANGED <<pkt, oldcmd, others>>

(* The last update_playing_info. *)
Closing ==
  /\ pc = "closing"
  /\ para' \in Updated(para)
  /\ pc' = "exit"
  /\ UNCHANGED <<pkt, oldcmd, queue, mate, others>>

(* player_para_release, PLAYER_EXIT and the end of the thread. *)
Exit ==
  /\ pc = "exit"
  /\ para' = [para EXCEPT !.status = "EXIT", !.codec = "none"]
  /\ pkt' = FALSE
  /\ pc' = "done"
  /\ UNCHANGED <<oldcmd, queue, mate, others>>

PlayerThread ==
  \/ Begin \/ Open \/ Typed \/ DecInit \/ WaitStart \/ Prepare
  \/ GetMessage \/ WaitForFrame \/ Decide \/ Read \/ Hold \/ Promote \/ Write \/ Written
  \/ WaitEnd \/ EndDecide \/ EndUpdate \/ Leave \/ Reset
  \/ Release0 \/ Closing \/ Exit

(***************************************************************************)
(* The mate thread.                                                        *)
(***************************************************************************)
notmate == <<pc, pkt, oldcmd, killed, ctl, op, stop_ok, sent>>

(* sem_wait returns.  The 100 ms it may wait first change nothing here. *)
MateStart ==
  /\ mate = "posted"
  /\ mate' = "awake"
  /\ UNCHANGED <<para, queue, notmate>>

(* player_mate_thread_cmd_proxy up to codec_pause or codec_resume, which   *)
(* may fail.                                                               *)
MateCommand ==
  /\ mate = "awake"
  /\ queue # << >>
  /\ Head(queue) \in ProxyCommand
  /\ Ring!Take
  /\ \/ /\ Head(queue) = "PAUSE" /\ para.status # "PAUSE"
        /\ \E k \in Codecs(para.codec, "paused") : para' = [para EXCEPT !.codec = k]
        /\ mate' = "pausing"
     \/ /\ Head(queue) \in {"RESUME", "START"} /\ para.status \in {"PAUSE", "SEARCHOK"}
        /\ \E k \in Codecs(para.codec, "running") : para' = [para EXCEPT !.codec = k]
        /\ mate' = "resuming"
     \/ /\ Head(queue) \in {"LOOP", "NOLOOP"}
        /\ para' = [para EXCEPT !.loop = (Head(queue) = "LOOP")]
        /\ UNCHANGED mate
     \/ /\ \/ Head(queue) = "PAUSE" /\ para.status = "PAUSE"
           \/ Head(queue) \in {"RESUME", "START"} /\ para.status \notin {"PAUSE", "SEARCHOK"}
        /\ UNCHANGED <<para, mate>>
  /\ UNCHANGED notmate

(* The rest of it: the flag, the status and update_playing_info. *)
MateCommit ==
  /\ \/ mate = "pausing" /\ para' \in Updated([para EXCEPT !.pause = TRUE, !.status = "PAUSE"])
     \/ mate = "resuming" /\ para' \in Updated([para EXCEPT !.pause = FALSE, !.status = "RUNNING"])
  /\ mate' = "awake"
  /\ UNCHANGED <<queue, notmate>>

(* update_playing_info in the mate, up to what it decides: the decoder is  *)
(* paused to buffer or resumed, or the end is noticed.                     *)
MateNotices ==
  /\ mate = "awake"
  /\ \/ /\ "buffering" \in Can /\ para.status = "RUNNING" /\ ~para.read_end
        /\ \E k \in Codecs(para.codec, "paused") : para' = [para EXCEPT !.codec = k]
        /\ mate' = "starving"
     \/ /\ para.status = "BUFFERING"
        /\ \E k \in Codecs(para.codec, "running") : para' = [para EXCEPT !.codec = k]
        /\ mate' = "refilling"
     \/ /\ EndNoticed(para) /\ para.status # "BUFFERING"
        /\ para' \in Noticed(para)
        /\ mate' = "ending"
  /\ UNCHANGED <<queue, notmate>>

(* The rest of it.  Before it declares the end the mate waits up to 1 s.   *)
MateConcludes ==
  /\ \/ mate = "starving"  /\ para' = [para EXCEPT !.status = "BUFFERING"]
     \/ mate = "refilling" /\ para' = [para EXCEPT !.status = "RUNNING"]
     \/ mate = "ending"    /\ para' = Declared(para)
  /\ mate' = "awake"
  /\ UNCHANGED <<queue, notmate>>

MateThread ==
  MateStart \/ MateCommand \/ MateCommit \/ MateNotices \/ MateConcludes

(***************************************************************************)
(* The application: threads that send commands and one that stops, exits.  *)
(***************************************************************************)
notapp == <<pc, para, pkt, oldcmd, mate>>

(* player_send_message: nothing is sent to a player that has exited. *)
SendCommand(c) ==
  /\ sent < MaxCommands
  /\ ctl # "freed"
  /\ para.status # "EXIT"
  /\ Ring!Put(c) \/ (c \in SearchCommand /\ Ring!Amend(c))
  /\ sent' = sent + 1
  /\ UNCHANGED <<notapp, killed, ctl, op, stop_ok>>

(* Slip: player_exit leaves stopping the player to its caller. *)
CallWaits(o) ==
  /\ ctl = "idle"
  /\ o # "stop_async"
  /\ ctl' = IF o = "exit" THEN "exitjoin" ELSE "interrupt"
  /\ op' = o
  /\ UNCHANGED <<notapp, queue, killed, stop_ok, sent>>

(* player_stop, player_stop_async and player_exit look at the status.      *)
(* player_exit calls player_stop unless the player has reached EXIT, and   *)
(* player_stop does nothing more for a player that is stopped.             *)
Call(o) ==
  /\ ctl = "idle"
  /\ o = "stop_async" => sent < MaxCommands
  /\ sent' = IF o = "stop_async" THEN sent + 1 ELSE sent
  /\ IF para.status \in Stopped
     THEN /\ ctl' = IF o = "exit" THEN "exitjoin" ELSE "idle"
          /\ op' = IF o = "exit" THEN "exit" ELSE "none"
          /\ stop_ok' = (stop_ok \/ o = "stop")
     ELSE /\ ctl' = "interrupt"
          /\ op' = o
          /\ UNCHANGED stop_ok
  /\ UNCHANGED <<notapp, queue, killed>>

(* ffmpeg_interrupt: from here on every call into ffmpeg is cut short. *)
Interrupt ==
  /\ ctl = "interrupt"
  /\ killed' = TRUE
  /\ ctl' = "send"
  /\ UNCHANGED <<notapp, queue, op, stop_ok, sent>>

(* send_message; player_stop_async leaves it at that. *)
SendStop ==
  /\ ctl = "send"
  /\ Ring!Put("STOP")
  /\ ctl' = IF op = "stop_async" THEN "idle" ELSE "join"
  /\ op' = IF op = "stop_async" THEN "none" ELSE op
  /\ UNCHANGED <<notapp, killed, stop_ok, sent>>

(* Slip: player_stop returns without waiting for the thread. *)
JoinEarly ==
  /\ ctl = "join"
  /\ queue' = << >>
  /\ killed' = FALSE
  /\ stop_ok' = (stop_ok \/ op = "stop")
  /\ ctl' = IF op = "exit" THEN "exitjoin" ELSE "idle"
  /\ op' = IF op = "exit" THEN op ELSE "none"
  /\ UNCHANGED <<notapp, sent>>

(* player_thread_wait_exit, clear_all_message and ffmpeg_uninterrupt. *)
Join ==
  /\ ctl = "join"
  /\ pc = "done"
  /\ queue' = << >>
  /\ killed' = FALSE
  /\ stop_ok' = (stop_ok \/ op = "stop")
  /\ ctl' = IF op = "exit" THEN "exitjoin" ELSE "idle"
  /\ op' = IF op = "exit" THEN op ELSE "none"
  /\ UNCHANGED <<notapp, sent>>

(* Slip: player_exit trusts the status and does not wait. *)
ExitJoinEarly ==
  /\ ctl = "exitjoin"
  /\ killed' = FALSE
  /\ ctl' = "freed"
  /\ UNCHANGED <<notapp, queue, op, stop_ok, sent>>

(* The rest of player_exit: wait again, then free play_para_t. *)
ExitJoin ==
  /\ ctl = "exitjoin"
  /\ pc = "done"
  /\ killed' = FALSE
  /\ ctl' = "freed"
  /\ UNCHANGED <<notapp, queue, op, stop_ok, sent>>

Controller ==
  \/ \E o \in {"stop", "stop_async", "exit"} : Call(o)
  \/ Interrupt \/ SendStop \/ Join \/ ExitJoin

(* The player is gone: nothing is left to happen. *)
Gone == ctl = "freed" /\ UNCHANGED vars

Next ==
  \/ PlayerThread \/ MateThread \/ Controller
  \/ \E c \in Command : SendCommand(c)
  \/ Gone

(* The player thread and the mate run; a call that has begun goes on.      *)
(* GetMessage is fair though WaitForFrame may come before it, for that     *)
(* ends after 400 ms; and the player's waits for the mate end although the *)
(* mate works, for it looks at mate_should_sleep after each turn.          *)
Fairness ==
  /\ WF_vars(PlayerThread) /\ WF_vars(MateThread)
  /\ SF_vars(GetMessage) /\ SF_vars(Read) /\ SF_vars(Hold) /\ SF_vars(Release0)
  /\ WF_vars(Interrupt \/ SendStop \/ Join \/ ExitJoin)

Spec == Init /\ [][Next]_vars
FairSpec == Spec /\ Fairness
-----------------------------------------------------------------------------
Working == {"pausing", "resuming", "starving", "refilling", "ending"}
Ready == Stopped \cup {"SEARCHOK"}
Codecless == {"begin", "open", "typed", "decinit", "waitstart", "prepare", "release0",
              "closing", "exit", "done"}

(* Shape of the state: every thread stands where its code can stand,       *)
(* play_para_t holds values its fields can hold, and wherever the player   *)
(* plays, para->codec is a decoder that can be used.                       *)
TypeOK ==
  /\ pc \in {"begin", "open", "typed", "decinit", "waitstart", "prepare", "flag",
             "decide", "read", "hold", "promote", "write", "written", "waitend",
             "endflag", "enddecide", "endupdate", "leave", "reset", "release0",
             "closing", "exit", "done"}
  /\ para.status \in {"NONE"} \cup Opening \cup Playing \cup Stopped
  /\ para.codec \in {"none", "running", "paused"}
  /\ para.codec = "none" => pc \in Codecless
  /\ \A f \in Flag : para[f] \in BOOLEAN
  /\ pkt \in BOOLEAN /\ oldcmd \in BOOLEAN
  /\ queue \in Seq(Command \cup {"STOP"}) /\ Len(queue) <= MESSAGE_MAX
  /\ mate \in {"none", "asleep", "posted", "awake"} \cup Working
  /\ killed \in BOOLEAN
  /\ ctl \in {"idle", "interrupt", "send", "join", "exitjoin", "freed"}
  /\ op \in {"none", "stop", "stop_async", "exit"}
  /\ stop_ok \in BOOLEAN
  /\ sent \in 0 .. MaxCommands

(* What is published is what the decoder does: while nobody is in the      *)
(* middle of a change, a player shown as paused has a paused decoder and   *)
(* will not resume by itself, one shown as running has a running one.      *)
(* The code does not promise it when codec_pause or codec_resume fails     *)
(* (the status is published all the same), nor when check_subtitle_info    *)
(* shows FOUND_SUB over BUFFERING (codec_error, subtitle, late_mate).      *)
PauseHolds ==
  mate \notin Working /\ pc \notin {"decide", "enddecide"} =>
    /\ para.status = "PAUSE" => para.codec = "paused" /\ para.pause
    /\ para.status = "RUNNING" => para.codec = "running"

(* A player that took a stop ends as STOPED and not as PLAYEND or ERROR,   *)
(* though the file was read to its end, a seek or a pause was pending, or  *)
(* a read failed on the way out.  It does not hold when the audio DSP      *)
(* reports the end (pcm_end): an update on the way out then declares       *)
(* PLAYEND over STOPED, for that report is acted on with end_flag set.     *)
(* Nor does it with a reset asked for by the decoder, or a late mate.      *)
StopReported == pc = "exit" /\ para.request_end => para.status = "STOPED"

(* The mate works only while the player thread is busy in ffmpeg, so the   *)
(* two never change play_para_t at the same time.                          *)
MateWorksAlone == mate \in Working \cup {"awake"} => pc \in {"read", "hold", "release0"}

(* PLAYER_EXIT is the last thing ever published, whatever the mate or an   *)
(* update that had begun earlier still writes.                             *)
ExitIsFinal == [][para.status = "EXIT" => para'.status = "EXIT"]_vars

(* Once player_exit has freed play_para_t neither thread is there to use   *)
(* it, although commands may still be in its ring.                         *)
FreedIsQuiet == ctl = "freed" => pc = "done" /\ mate = "none"

(* The way out of the two loops: a step along it has fewer places left. *)
Left == [decide |-> 6, enddecide |-> 6, waitend |-> 5, leave |-> 4, reset |-> 3,
         release0 |-> 3, closing |-> 2, exit |-> 1, done |-> 0]
Nearer == {pc, pc'} \subseteq DOMAIN Left /\ Left[pc'] < Left[pc]
Past == {"release0", "closing", "exit", "done"}

(* A player that took a stop goes straight to its end: it does not start   *)
(* over, nor read, write or take another command, and is gone after at     *)
(* most six more steps of its thread, whatever was pending.                *)
StopEnds == [][para.request_end /\ pc' # pc => Nearer /\ pc' # "reset"]_vars

(* The STOP player_stop or player_exit has sent is not lost: while they    *)
(* wait for the player thread it is in the ring, or it was taken, or the   *)
(* thread is past its loops and needs no STOP to end.                      *)
StopKept == ctl = "join" => HasStop(queue) \/ para.request_end \/ pc \in Past

(* A seek that was taken is carried straight to the reset that serves it:  *)
(* nothing on the way drops it, and the reset answers it, with SEARCHOK or *)
(* with ERROR.                                                             *)
SearchHeld ==
  [][para.search /\ pc \notin Past =>
       \/ para'.search /\ (pc' = pc \/ (Nearer /\ pc' \notin Past))
       \/ pc = "reset" /\ para'.status \in {"SEARCHOK", "ERROR"}]_vars

(* After player_stop has returned success the player never starts over.    *)
StopIsFinal == [][stop_ok => pc' # "reset"]_vars

(* player_stop and player_exit return. *)
StopReturns == (ctl = "join") ~> (ctl # "join")
ExitReturns == (op = "exit") ~> (ctl = "freed")

(* A seek is carried out, unless the player ends first. *)
SearchAnswered == para.search ~> (para.status \in Ready)
=============================================================================
