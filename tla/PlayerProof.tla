----------------------------- MODULE PlayerProof -----------------------------
(***************************************************************************)
(* What holds of a player for every set of commands, size of the ring and  *)
(* behaviour of the environment: type correctness, that nothing uses a     *)
(* player after player_exit has freed it, that PLAYER_EXIT is the last     *)
(* status and, when the mate is scheduled in time, that it works alone.    *)
(***************************************************************************)
EXTENDS Player, SequenceTheorems, TLAPS

Status == {"NONE"} \cup Opening \cup Playing \cup Stopped
Live == Status \ {"EXIT"}

(* play_para_t with a status and a codec from given sets. *)
Paras(statuses, codecs) ==
  [status : statuses, codec : codecs, end : BOOLEAN, request_end : BOOLEAN,
   loop : BOOLEAN, search : BOOLEAN, reset : BOOLEAN, pause : BOOLEAN, fast : BOOLEAN,
   f_step : BOOLEAN, init_ff_fr : BOOLEAN, read_end : BOOLEAN]

Usable == {"running", "paused"}
AnyCodec == {"none"} \cup Usable

(* Until the player thread is done its status is not EXIT, and between     *)
(* Prepare and the end it has a decoder.                                   *)
ParaOK ==
  /\ para \in Paras(Status, AnyCodec)
  /\ pc # "done" => para \in Paras(Live, AnyCodec)
  /\ pc \notin Codecless => para \in Paras(Live, Usable)

(* There is a mate from Prepare to Release0 only. *)
Mateless == {"begin", "open", "typed", "decinit", "waitstart", "prepare", "closing",
             "exit", "done"}
MateOK == pc \in Mateless => mate = "none"

FreedOK == ctl = "freed" => pc = "done"

(* The parts of TypeOK about where the threads stand, and about the ring.  *)
FlowOK ==
  /\ pc \in {"begin", "open", "typed", "decinit", "waitstart", "prepare", "flag",
             "decide", "read", "hold", "promote", "write", "written", "waitend",
             "endflag", "enddecide", "endupdate", "leave", "reset", "release0",
             "closing", "exit", "done"}
  /\ mate \in {"none", "asleep", "posted", "awake"} \cup Working
  /\ ctl \in {"idle", "interrupt", "send", "join", "exitjoin", "freed"}
  /\ op \in {"none", "stop", "stop_async", "exit"}
  /\ MateOK
  /\ FreedOK

RestOK ==
  /\ pkt \in BOOLEAN /\ oldcmd \in BOOLEAN
  /\ killed \in BOOLEAN
  /\ stop_ok \in BOOLEAN
  /\ sent \in 0 .. MaxCommands

QueueOK == queue \in Seq(Command \cup {"STOP"}) /\ Len(queue) <= MESSAGE_MAX

PlayerInv == FlowOK /\ RestOK /\ QueueOK /\ ParaOK
-----------------------------------------------------------------------------
(* The statuses the helpers publish are live, and changing the codec does  *)
(* not lose it.                                                            *)
LEMMA Published ==
  /\ {"RUNNING", "BUFFERING", "PAUSE", "SEARCHING", "SEARCHOK", "FF_END", "FB_END", "START",
      "FOUND_SUB"} \subseteq Live
  /\ {"ERROR", "PLAYEND", "STOPED"} \cup Opening \subseteq Live
  BY DEF Live, Status, Opening, Playing, Stopped

LEMMA CodecStays ==
  ASSUME NEW S \in {AnyCodec, Usable}, NEW c \in S
  PROVE  Codecs(c, "running") \subseteq S /\ Codecs(c, "paused") \subseteq S
  BY DEF Codecs, CodecTo, AnyCodec, Usable

(* What update_buffering_states and check_flag may make of it: a status    *)
(* and a codec are all that they change, before an update or without one.  *)
Showing(p, c, st) == [p EXCEPT !.codec = c, !.status = st]

LEMMA ShowingStays ==
  ASSUME NEW S \in {AnyCodec, Usable}, NEW p \in Paras(Live, S), NEW c \in S, NEW st \in Live
  PROVE  Showing(p, c, st) \in Paras(Live, S)
  BY DEF Showing, Paras

LEMMA BufferedShape ==
  ASSUME NEW S \in {AnyCodec, Usable}, NEW p \in Paras(Live, S), NEW q \in Buffered(p)
  PROVE  q = p \/ \E c \in S : \E st \in {"RUNNING", "BUFFERING"} :
                     q = Showing(p, c, st)
<1>1. Codecs(p.codec, "running") \subseteq S /\ Codecs(p.codec, "paused") \subseteq S
  BY CodecStays DEF Paras
<1>2. q \in {p} \cup Starved(p) \cup Refilled(p) BY DEF Buffered
<1>3. CASE q \in Starved(p) BY <1>1, <1>3 DEF Starved, Showing
<1>4. CASE q \in Refilled(p) BY <1>1, <1>4 DEF Refilled, Showing
<1>. QED BY <1>2, <1>3, <1>4

LEMMA GoesOnShape ==
  ASSUME NEW S \in {AnyCodec, Usable}, NEW p \in Paras(Live, S), NEW q \in GoesOn(p)
  PROVE  q = p \/ \E c \in S : \E st \in {"RUNNING", "PAUSE"} :
                     q \in Updated(Showing(p, c, st))
<1>1. Codecs(p.codec, "running") \subseteq S /\ Codecs(p.codec, "paused") \subseteq S
  BY CodecStays DEF Paras
<1>2. \/ q = p
      \/ \E k \in Codecs(p.codec, "paused") :
             q \in Updated(Showing(p, k, "PAUSE"))
      \/ \E k \in Codecs(p.codec, "running") :
             q \in Updated(Showing(p, k, "RUNNING"))
  BY DEF GoesOn, Showing
<1>. QED BY <1>1, <1>2

(* Every helper that changes play_para_t keeps a live status live and a    *)
(* usable decoder usable.                                                  *)
LEMMA BufferedStays ==
  ASSUME NEW S \in {AnyCodec, Usable}, NEW p \in Paras(Live, S)
  PROVE  Buffered(p) \subseteq Paras(Live, S)
<1>. SUFFICES ASSUME NEW q \in Buffered(p), q # p PROVE q \in Paras(Live, S) OBVIOUS
<1>1. PICK c \in S, st \in {"RUNNING", "BUFFERING"} : q = Showing(p, c, st)
  BY BufferedShape
<1>. QED BY <1>1, ShowingStays, Published

LEMMA NoticedStays ==
  ASSUME NEW S \in {AnyCodec, Usable}, NEW p \in Paras(Live, S)
  PROVE  Noticed(p) \subseteq Paras(Live, S)
<1>1. ASSUME NEW s \in {p.search, FALSE}
      PROVE  [p EXCEPT !.end = TRUE, !.search = s] \in Paras(Live, S)
  BY DEF Paras
<1>. QED BY <1>1 DEF Noticed

LEMMA DeclaredStays ==
  ASSUME NEW S \in {AnyCodec, Usable}, NEW p \in Paras(Live, S)
  PROVE  Declared(p) \in Paras(Live, S)
  BY Published DEF Declared, Paras

LEMMA EndedStays ==
  ASSUME NEW S \in {AnyCodec, Usable}, NEW p \in Paras(Live, S)
  PROVE  Ended(p) \subseteq Paras(Live, S)
  BY NoticedStays, DeclaredStays DEF Ended

LEMMA UpdatedStays ==
  ASSUME NEW S \in {AnyCodec, Usable}, NEW p \in Paras(Live, S)
  PROVE  Updated(p) \subseteq Paras(Live, S)
  BY BufferedStays, EndedStays DEF Updated

LEMMA DecoderCheckedStays ==
  ASSUME NEW S \in {AnyCodec, Usable}, NEW p \in Paras(Live, S)
  PROVE  DecoderChecked(p) \subseteq Paras(Live, S)
  BY DEF DecoderChecked, Paras

LEMMA SubtitleCheckedStays ==
  ASSUME NEW S \in {AnyCodec, Usable}, NEW p \in Paras(Live, S)
  PROVE  SubtitleChecked(p) \subseteq Paras(Live, S)
<1>. DEFINE q == [p EXCEPT !.status = "FOUND_SUB"]
<1>1. q \in Paras(Live, S) BY Published DEF Paras
<1>2. Updated(q) \subseteq Paras(Live, S) BY <1>1, UpdatedStays
<1>. QED BY <1>2 DEF SubtitleChecked

LEMMA SearchedStays ==
  ASSUME NEW S \in {AnyCodec, Usable}, NEW p \in Paras(Live, S), NEW c \in SearchCommand
  PROVE  Searched(p, c) \subseteq Paras(Live, S)
<1>. DEFINE q == IF p.status = "SEARCHING"
                 THEN [p EXCEPT !.fast = FALSE, !.f_step = FALSE] ELSE p
            e == [q EXCEPT !.end = TRUE, !.search = FALSE, !.status = "PLAYEND"]
<1>1. q \in Paras(Live, S) BY DEF Paras
<1>2. CASE c = "SEARCH" BY <1>1, <1>2 DEF Searched, Paras
<1>3. CASE c = "SEARCH_RESET" BY <1>1, <1>3 DEF Searched, Paras
<1>4. CASE c = "SEARCH_END"
  <2>1. e \in Paras(Live, S) BY <1>1, Published, ZenonT(40) DEF Paras
  <2>2. Updated(e) \subseteq Paras(Live, S) BY <2>1, UpdatedStays
  <2>. QED BY <2>2, <1>4 DEF Searched
<1>. QED BY <1>2, <1>3, <1>4 DEF SearchCommand

LEMMA UnpausedStays ==
  ASSUME NEW S \in {AnyCodec, Usable}, NEW p \in Paras(Live, S)
  PROVE  Unpaused(p) \subseteq S
<1>1. p.codec \in S BY DEF Paras
<1>. QED BY <1>1, CodecStays DEF Unpaused

LEMMA FastStays ==
  ASSUME NEW S \in {AnyCodec, Usable}, NEW p \in Paras(Live, S), NEW c \in FastCommand
  PROVE  Fast(p, c) \subseteq Paras(Live, S)
<1>2. Unpaused(p) \subseteq S BY UnpausedStays
<1>3. ASSUME NEW d \in S
      PROVE  [p EXCEPT !.init_ff_fr = FALSE, !.f_step = TRUE, !.fast = TRUE, !.codec = d,
                       !.pause = FALSE, !.status = "RUNNING"] \in Paras(Live, S)
  BY Published DEF Paras
<1>4. [p EXCEPT !.init_ff_fr = FALSE, !.f_step = FALSE] \in Paras(Live, S)
  BY DEF Paras
<1>. QED BY <1>2, <1>3, <1>4 DEF Fast, FastCommand

LEMMA StoppingStays ==
  ASSUME NEW S \in {AnyCodec, Usable}, NEW p \in Paras(Live, S)
  PROVE  Stopping(p) \subseteq Paras(Live, S)
<1>1. Unpaused(p) \subseteq S BY UnpausedStays
<1>2. ASSUME NEW d \in S
      PROVE  [p EXCEPT !.end = TRUE, !.loop = FALSE, !.search = FALSE, !.request_end = TRUE,
                       !.codec = d, !.pause = FALSE, !.fast = FALSE] \in Paras(Live, S)
  BY DEF Paras
<1>. QED BY <1>1, <1>2 DEF Stopping

LEMMA CheckMsgStays ==
  ASSUME NEW S \in {AnyCodec, Usable}, NEW p \in Paras(Live, S),
         NEW c \in Command \cup {"STOP"}
  PROVE  CheckMsg(p, c) \subseteq Paras(Live, S)
<1>1. CASE c = "STOP" BY <1>1, StoppingStays DEF CheckMsg, SearchCommand, FastCommand
<1>2. CASE c \in SearchCommand
  <2>1. CheckMsg(p, c) = Searched(p, c) BY <1>2 DEF CheckMsg, SearchCommand, FastCommand
  <2>. QED BY <2>1, <1>2, SearchedStays
<1>3. CASE c \in FastCommand
  <2>1. CheckMsg(p, c) = Fast(p, c) BY <1>3 DEF CheckMsg, FastCommand, SearchCommand
  <2>. QED BY <2>1, <1>3, FastStays
<1>4. CASE c \in ProxyCommand
  <2>1. ASSUME NEW b \in BOOLEAN
        PROVE  /\ [p EXCEPT !.pause = b] \in Paras(Live, S)
               /\ [p EXCEPT !.loop = b] \in Paras(Live, S)
    BY DEF Paras
  <2>. QED BY <2>1, <1>4 DEF CheckMsg, ProxyCommand, SearchCommand, FastCommand
<1>. QED BY <1>1, <1>2, <1>3, <1>4, PlayerAssumption

LEMMA BrokenStays ==
  ASSUME NEW S \in {AnyCodec, Usable}, NEW p \in Paras(Live, S)
  PROVE  Broken(p) \in Paras(Live, S)
  BY Published DEF Broken, EndStatus, Paras

LEMMA GoesOnStays ==
  ASSUME NEW S \in {AnyCodec, Usable}, NEW p \in Paras(Live, S)
  PROVE  GoesOn(p) \subseteq Paras(Live, S)
<1>. SUFFICES ASSUME NEW q \in GoesOn(p), q # p PROVE q \in Paras(Live, S) OBVIOUS
<1>1. PICK c \in S, st \in {"RUNNING", "PAUSE"} : q \in Updated(Showing(p, c, st))
  BY GoesOnShape
<1>. QED BY <1>1, ShowingStays, Published, UpdatedStays

LEMMA PromotedStays ==
  ASSUME NEW S \in {AnyCodec, Usable}, NEW p \in Paras(Live, S)
  PROVE  Promoted(p) \subseteq Paras(Live, S)
<1>. DEFINE runs == [p EXCEPT !.status = "RUNNING"]
<1>1. runs \in Paras(Live, S) BY Published DEF Paras
<1>. QED BY <1>1, UpdatedStays DEF Promoted

LEMMA RestartedStays ==
  ASSUME NEW p \in Paras(Live, AnyCodec)
  PROVE  Restarted(p) \subseteq Paras(Live, Usable) /\ Fresh(p) \in Paras(Live, Usable)
<1>1. Fresh(p) \in Paras(Live, Usable) BY DEF Fresh, Paras, Usable
<1>. DEFINE q == Fresh(p)
<1>2. /\ [q EXCEPT !.end = TRUE] \in Paras(Live, Usable)
      /\ [q EXCEPT !.status = "FB_END"] \in Paras(Live, Usable)
      /\ [q EXCEPT !.f_step = FALSE, !.init_ff_fr = FALSE, !.status = "FB_END"]
            \in Paras(Live, Usable)
  BY <1>1, Published DEF Paras
<1>3. ASSUME NEW b \in BOOLEAN
      PROVE  [q EXCEPT !.f_step = FALSE, !.status = "FF_END", !.init_ff_fr = b]
               \in Paras(Live, Usable)
  BY <1>1, Published DEF Paras
<1>4. p.loop \in BOOLEAN /\ q.init_ff_fr \in BOOLEAN BY <1>1 DEF Paras
<1>5. [q EXCEPT !.f_step = FALSE, !.status = "FF_END",
                !.init_ff_fr = IF p.loop THEN FALSE ELSE @] \in Paras(Live, Usable)
  BY <1>3, <1>4
<1>. QED BY <1>1, <1>2, <1>5 DEF Restarted

LEMMA ServedStays ==
  ASSUME NEW p \in Paras(Live, Usable)
  PROVE  Served(p) \in Paras(Live, Usable)
<1>. DEFINE status == IF p.search THEN "SEARCHOK" ELSE p.status
<1>1. status \in Live BY Published DEF Paras
<1>. QED BY <1>1, ZenonT(40) DEF Served, Paras
-----------------------------------------------------------------------------
(* The first state. *)
LEMMA InitInv == Init => PlayerInv
<1>. SUFFICES ASSUME Init PROVE PlayerInv OBVIOUS
<1>1. FlowOK BY DEF Init, FlowOK, MateOK, FreedOK
<1>2. RestOK
  <2>1. sent \in 0 .. MaxCommands BY PlayerAssumption DEF Init
  <2>. QED BY <2>1, Zenon DEF Init, RestOK
<1>3. QueueOK BY PlayerAssumption DEF Init, QueueOK
<1>4. para \in Paras(Live, AnyCodec)
  <2>1. "NONE" \in Live /\ "none" \in AnyCodec BY DEF Live, Status, AnyCodec
  <2>. QED BY <2>1 DEF Init, Paras
<1>5. ParaOK BY <1>4 DEF Init, ParaOK, Paras, Live, Codecless
<1>. QED BY <1>1, <1>2, <1>3, <1>5 DEF PlayerInv

(* Where the threads stand: the mate exists between Prepare and Release0,  *)
(* and nothing follows the end of the player thread.                       *)
LEMMA FlowStep ==
  ASSUME FlowOK, [Next]_vars
  PROVE  FlowOK'
<1>. USE DEF FlowOK, MateOK, FreedOK, Mateless, others, notmate, notapp, Working
<1>1. CASE Begin BY <1>1 DEF Begin
<1>2. CASE Open BY <1>2 DEF Open, Fail
<1>3. CASE Typed BY <1>3 DEF Typed
<1>4. CASE DecInit BY <1>4 DEF DecInit, Fail
<1>5. CASE WaitStart BY <1>5 DEF WaitStart
<1>6. CASE Prepare BY <1>6 DEF Prepare, Fail
<1>7. CASE GetMessage BY <1>7 DEF GetMessage, Decision
<1>8. CASE WaitForFrame BY <1>8 DEF WaitForFrame, ReadNext
<1>9. CASE Decide BY <1>9 DEF Decide, ReadNext
<1>10. CASE Read BY <1>10 DEF Read, Fail, MateSleeps
<1>11. CASE Hold BY <1>11 DEF Hold, MateSleeps
<1>12. CASE Promote BY <1>12 DEF Promote
<1>13. CASE Write
  <2>1. pc = "write" /\ mate' = mate /\ ctl' = ctl /\ op' = op BY <1>13 DEF Write
  <2>2. pc' = "written" \/ pc' = "waitend" \/ pc' = "release0" BY <1>13 DEF Write, Fail
  <2>. QED BY <2>1, <2>2
<1>14. CASE Written
  <2>1. pc = "written" /\ mate' = mate /\ ctl' = ctl /\ op' = op BY <1>14 DEF Written
  <2>2. pc' = "waitend" \/ pc' = "flag" \/ pc' = "release0" BY <1>14 DEF Written, Fail
  <2>. QED BY <2>1, <2>2
<1>15. CASE WaitEnd BY <1>15 DEF WaitEnd
<1>16. CASE EndDecide BY <1>16 DEF EndDecide
<1>17. CASE EndUpdate BY <1>17 DEF EndUpdate
<1>18. CASE Leave BY <1>18 DEF Leave
<1>19. CASE Reset BY <1>19 DEF Reset
<1>20. CASE Release0 BY <1>20 DEF Release0
<1>21. CASE Closing BY <1>21 DEF Closing
<1>22. CASE Exit BY <1>22 DEF Exit
<1>23. CASE MateStart BY <1>23 DEF MateStart
<1>24. CASE MateCommand BY <1>24 DEF MateCommand
<1>25. CASE MateCommit BY <1>25 DEF MateCommit
<1>26. CASE MateNotices BY <1>26 DEF MateNotices
<1>27. CASE MateConcludes BY <1>27 DEF MateConcludes
<1>28. CASE \E o \in {"stop", "stop_async", "exit"} : Call(o) BY <1>28 DEF Call
<1>29. CASE Interrupt BY <1>29 DEF Interrupt
<1>30. CASE SendStop BY <1>30 DEF SendStop
<1>31. CASE Join BY <1>31 DEF Join
<1>32. CASE ExitJoin BY <1>32 DEF ExitJoin
<1>33. CASE \E c \in Command : SendCommand(c) BY <1>33 DEF SendCommand
<1>34. CASE Gone \/ UNCHANGED vars BY <1>34 DEF Gone, vars
<1>. QED BY <1>1, <1>2, <1>3, <1>4, <1>5, <1>6, <1>7, <1>8, <1>9, <1>10, <1>11, <1>12, <1>13, <1>14, <1>15, <1>16, <1>17, <1>18, <1>19, <1>20, <1>21, <1>22, <1>23, <1>24, <1>25, <1>26, <1>27, <1>28, <1>29, <1>30, <1>31, <1>32, <1>33, <1>34
  DEF Next, PlayerThread, MateThread, Controller

(* The packet, the counters and the flags of the controller. *)
LEMMA RestStep ==
  ASSUME RestOK, [Next]_vars
  PROVE  RestOK'
<1>. USE PlayerAssumption DEF RestOK, others, notmate, notapp
<1>1. CASE GetMessage
  <2>1. oldcmd' = oldcmd \/ oldcmd' = (Head(queue) \in SearchCommand)
    BY <1>1 DEF GetMessage
  <2>2. (Head(queue) \in SearchCommand) \in BOOLEAN OBVIOUS
  <2>3. oldcmd' \in BOOLEAN BY <2>1, <2>2, Zenon
  <2>. QED BY <1>1, <2>3 DEF GetMessage
<1>2. CASE WaitForFrame
  BY <1>2 DEF WaitForFrame
<1>3. CASE Read
  BY <1>3 DEF Read
<1>4. CASE Write
  BY <1>4 DEF Write
<1>5. CASE Reset
  BY <1>5 DEF Reset
<1>6. CASE Exit
  BY <1>6 DEF Exit
<1>7. CASE Begin \/ Open \/ Typed \/ DecInit \/ WaitStart \/ Prepare \/ Decide \/ Hold
  BY <1>7 DEF Begin, Open, Typed, DecInit, WaitStart, Prepare, Decide, Hold
<1>8. CASE Promote \/ Written \/ WaitEnd \/ EndDecide \/ EndUpdate \/ Leave \/ Release0 \/ Closing
  BY <1>8 DEF Promote, Written, WaitEnd, EndDecide, EndUpdate, Leave, Release0, Closing
<1>9. CASE MateThread
  BY <1>9 DEF MateThread, MateStart, MateCommand, MateCommit, MateNotices, MateConcludes
<1>10. CASE \E o \in {"stop", "stop_async", "exit"} : Call(o)
  <2>1. stop_ok' \in BOOLEAN BY <1>10, Zenon DEF Call
  <2>2. sent' \in 0 .. MaxCommands BY <1>10 DEF Call
  <2>. QED BY <1>10, <2>1, <2>2, Zenon DEF Call
<1>11. CASE Join
  BY <1>11 DEF Join
<1>12. CASE Interrupt \/ SendStop \/ ExitJoin
  BY <1>12 DEF Interrupt, SendStop, ExitJoin
<1>13. CASE \E c \in Command : SendCommand(c)
  BY <1>13 DEF SendCommand
<1>14. CASE Gone \/ UNCHANGED vars
  BY <1>14 DEF Gone, vars
<1>. QED BY <1>1, <1>2, <1>3, <1>4, <1>5, <1>6, <1>7, <1>8, <1>9, <1>10, <1>11, <1>12, <1>13, <1>14
  DEF Next, PlayerThread, MateThread, Controller
(* The ring: whatever is sent, the stop included, is a command. *)
LEMMA RingKeeps ==
  ASSUME QueueOK, NEW c \in Command \cup {"STOP"}, Ring!Put(c) \/ Ring!Amend(c) \/ Ring!Take
  PROVE  QueueOK'
<1>. DEFINE C == Command \cup {"STOP"}
<1>1. CASE Len(queue) < MESSAGE_MAX /\ queue' = Append(queue, c)
  <2>1. Append(queue, c) \in Seq(C) /\ Len(Append(queue, c)) = Len(queue) + 1
    BY AppendProperties DEF QueueOK
  <2>2. Len(queue) \in Nat BY LenProperties DEF QueueOK
  <2>. QED BY <1>1, <2>1, <2>2, PlayerAssumption DEF QueueOK
<1>2. CASE Len(queue) = MESSAGE_MAX /\ queue' = Append(Tail(queue), c)
  <2>1. queue # << >> BY <1>2, PlayerAssumption DEF QueueOK
  <2>2. Tail(queue) \in Seq(C) /\ Len(Tail(queue)) = Len(queue) - 1
    BY <2>1, HeadTailProperties DEF QueueOK
  <2>3. Append(Tail(queue), c) \in Seq(C) /\ Len(Append(Tail(queue), c)) = Len(queue)
    BY <2>2, AppendProperties DEF QueueOK
  <2>. QED BY <1>2, <2>3 DEF QueueOK
<1>3. CASE queue # << >> /\ (queue' = Tail(queue) \/ queue' = << c >> \o Tail(queue))
  <2>1. Tail(queue) \in Seq(C) /\ Len(Tail(queue)) = Len(queue) - 1
    BY <1>3, HeadTailProperties DEF QueueOK
  <2>2. << c >> \in Seq(C) /\ Len(<< c >>) = 1 OBVIOUS
  <2>3. << c >> \o Tail(queue) \in Seq(C) /\ Len(<< c >> \o Tail(queue)) = 1 + Len(Tail(queue))
    BY <2>1, <2>2, ConcatProperties
  <2>4. Len(queue) \in Nat BY LenProperties DEF QueueOK
  <2>5. CASE queue' = Tail(queue) BY <2>5, <2>1, <2>4, PlayerAssumption DEF QueueOK
  <2>6. CASE queue' = << c >> \o Tail(queue)
    BY <2>6, <2>1, <2>3, <2>4, PlayerAssumption DEF QueueOK
  <2>. QED BY <1>3, <2>5, <2>6
<1>. QED BY <1>1, <1>2, <1>3 DEF Ring!Put, Ring!Amend, Ring!Take

LEMMA AfterStopKeeps ==
  ASSUME NEW C, NEW q \in Seq(C)
  PROVE  \A r \in AfterStop(q) : r \in Seq(C) /\ Len(r) <= Len(q)
<1>1. ASSUME NEW i \in 1 .. Len(q)
      PROVE  SubSeq(q, i + 1, Len(q)) \in Seq(C) /\ Len(SubSeq(q, i + 1, Len(q))) <= Len(q)
  <2>1. /\ Len(q) \in Nat /\ i + 1 \in Int
        /\ \A j \in i + 1 .. Len(q) : q[j] \in C
    BY LenProperties, ElementOfSeq
  <2>2. /\ SubSeq(q, i + 1, Len(q)) \in Seq(C)
        /\ Len(SubSeq(q, i + 1, Len(q))) = IF i + 1 <= Len(q) THEN Len(q) - (i + 1) + 1 ELSE 0
    BY <2>1, SubSeqProperties
  <2>. QED BY <2>1, <2>2
<1>2. << >> \in Seq(C) /\ Len(<< >>) = 0 /\ Len(q) \in Nat BY LenProperties
<1>3. CASE HasStop(q) BY <1>1, <1>3 DEF AfterStop
<1>4. CASE ~HasStop(q) BY <1>2, <1>4 DEF AfterStop
<1>. QED BY <1>3, <1>4

LEMMA QueueStep ==
  ASSUME QueueOK, [Next]_vars
  PROVE  QueueOK'
<1>. DEFINE C == Command \cup {"STOP"}
<1>1. ASSUME Ring!Take \/ Ring!Put("STOP") PROVE QueueOK'
  BY <1>1, RingKeeps
<1>2. ASSUME queue' = queue PROVE QueueOK' BY <1>2 DEF QueueOK
<1>3. ASSUME queue' = << >> PROVE QueueOK' BY <1>3, PlayerAssumption DEF QueueOK
<1>4. ASSUME queue' \in AfterStop(queue) PROVE QueueOK'
  <2>1. queue' \in Seq(C) /\ Len(queue') <= Len(queue) BY <1>4, AfterStopKeeps DEF QueueOK
  <2>2. Len(queue) \in Nat /\ Len(queue') \in Nat BY <2>1, LenProperties DEF QueueOK
  <2>. QED BY <2>1, <2>2, PlayerAssumption DEF QueueOK
<1>5. CASE Begin \/ Open \/ Typed \/ Prepare \/ WaitForFrame \/ Decide \/ Read \/ Hold \/ Promote
  BY <1>2, <1>5 DEF Begin, Open, Typed, Prepare, WaitForFrame, Decide, Read, Hold, Promote
<1>6. CASE DecInit BY <1>2, <1>4, <1>6 DEF DecInit
<1>7. CASE WaitStart \/ GetMessage BY <1>1, <1>2, <1>7 DEF WaitStart, GetMessage
<1>8. CASE Write \/ Written \/ WaitEnd \/ EndDecide \/ EndUpdate \/ Leave \/ Reset \/ Closing \/ Exit
  BY <1>2, <1>8 DEF Write, Written, WaitEnd, EndDecide, EndUpdate, Leave, Reset, Closing, Exit
<1>9. CASE Release0 BY <1>2, <1>4, <1>9 DEF Release0
<1>10. CASE MateThread
  BY <1>1, <1>2, <1>10
  DEF MateThread, MateStart, MateCommand, MateCommit, MateNotices, MateConcludes
<1>11. CASE Controller
  BY <1>1, <1>2, <1>3, <1>11 DEF Controller, Call, Interrupt, SendStop, Join, ExitJoin
<1>12. CASE \E c \in Command : SendCommand(c) BY <1>12, RingKeeps DEF SendCommand
<1>13. CASE Gone \/ UNCHANGED vars BY <1>2, <1>13 DEF Gone, vars
<1>. QED BY <1>5, <1>6, <1>7, <1>8, <1>9, <1>10, <1>11, <1>12, <1>13 DEF Next, PlayerThread
-----------------------------------------------------------------------------
(* Publishing a status, or changing flags, decides nothing about the rest. *)
LEMMA StatusStays ==
  ASSUME NEW S, NEW p \in Paras(Live, S), NEW status \in Live
  PROVE  [p EXCEPT !.status = status] \in Paras(Live, S)
  BY DEF Paras

LEMMA ParasGrow ==
  /\ Paras(Live, Usable) \subseteq Paras(Live, AnyCodec)
  /\ Paras(Live, AnyCodec) \subseteq Paras(Status, AnyCodec)
  BY DEF Paras, Live, AnyCodec

(* A step that keeps usable decoders usable, of a player thread that does  *)
(* not begin to play in it, keeps ParaOK.                                  *)
LEMMA StaysOK ==
  ASSUME ParaOK, pc # "done", pc \in Codecless => pc' \in Codecless,
         \A S \in {AnyCodec, Usable} : para \in Paras(Live, S) => para' \in Paras(Live, S)
  PROVE  ParaOK'
  BY ParasGrow DEF ParaOK

(* A failure shows ERROR and goes to release0; nothing else changes. *)
LEMMA FailOK ==
  ASSUME ParaOK, pc # "done", Fail
  PROVE  ParaOK'
<1>1. "ERROR" \in Live BY Published
<1>2. para' \in Paras(Live, AnyCodec) BY <1>1, StatusStays DEF Fail, ParaOK
<1>. QED BY <1>2, ParasGrow DEF ParaOK, Fail, Codecless

(* The player thread, from the start to the play loop. *)
LEMMA StartOK ==
  ASSUME ParaOK, QueueOK, Begin \/ Open \/ Typed \/ DecInit \/ WaitStart \/ Prepare
  PROVE  ParaOK'
<1>1. pc \in {"begin", "open", "typed", "decinit", "waitstart", "prepare"}
  BY DEF Begin, Open, Typed, DecInit, WaitStart, Prepare
<1>2. para \in Paras(Live, AnyCodec) BY <1>1 DEF ParaOK
<1>3. ASSUME para' \in Paras(Live, AnyCodec), pc' \in Codecless PROVE ParaOK'
  BY <1>3, ParasGrow DEF ParaOK
<1>4. CASE Begin
  <2>1. "INITING" \in Live BY Published DEF Opening
  <2>2. para' \in Paras(Live, AnyCodec)
    <3>1. ("loop_mode" \in Can) \in BOOLEAN OBVIOUS
    <3>2. ASSUME NEW b \in BOOLEAN
          PROVE  [para EXCEPT !.status = "INITING", !.loop = b] \in Paras(Live, AnyCodec)
      BY <1>2, <2>1 DEF Paras
    <3>. QED BY <1>4, <3>1, <3>2, Zenon DEF Begin
  <2>. QED BY <1>3, <1>4, <2>2 DEF Begin, Codecless
<1>5. CASE Open
  <2>1. "TYPE_REDY" \in Live BY Published DEF Opening
  <2>2. CASE Fail BY <2>2, <1>1, FailOK
  <2>. QED BY <1>2, <1>3, <1>5, <2>1, <2>2, StatusStays DEF Open, Codecless
<1>6. CASE Typed BY <1>2, <1>3, <1>6 DEF Typed, Codecless
<1>7. CASE DecInit
  <2>1. {"INITOK", "STOPED", "ERROR"} \subseteq Live BY Published DEF Opening
  <2>2. CASE Fail BY <2>2, <1>1, FailOK
  <2>3. CASE \E st \in {"INITOK", "STOPED", "ERROR"} :
               para' = [para EXCEPT !.status = st] /\ pc' \in Codecless
    BY <1>2, <1>3, <2>1, <2>3, StatusStays
  <2>. QED BY <1>7, <2>2, <2>3 DEF DecInit, Codecless
<1>8. CASE WaitStart
  <2>1. CASE queue = << >> BY <1>2, <1>3, <1>8, <2>1 DEF WaitStart, Codecless
  <2>2. ASSUME queue # << >> PROVE CheckMsg(para, Head(queue)) \subseteq Paras(Live, AnyCodec)
    <3>1. Head(queue) \in Command \cup {"STOP"} BY <2>2, HeadTailProperties DEF QueueOK
    <3>. QED BY <1>2, <3>1, CheckMsgStays
  <2>3. \A p \in Paras(Live, AnyCodec) : [p EXCEPT !.status = EndStatus(p)] \in Paras(Live, AnyCodec)
    BY Published, StatusStays DEF EndStatus
  <2>4. CASE queue # << >>
    BY <1>2, <1>3, <1>8, <2>2, <2>3, <2>4 DEF WaitStart, Codecless
  <2>. QED BY <2>1, <2>4
<1>9. CASE Prepare
  <2>1. CASE Fail BY <2>1, <1>1, FailOK
  <2>2. CASE para' = [para EXCEPT !.status = "START", !.codec = "running"] /\ pc' = "flag"
    <3>1. "START" \in Live /\ "running" \in Usable BY Published DEF Usable
    <3>2. para' \in Paras(Live, Usable) BY <1>2, <2>2, <3>1 DEF Paras
    <3>. QED BY <2>2, <3>2, ParasGrow DEF ParaOK
  <2>. QED BY <1>9, <2>1, <2>2 DEF Prepare
<1>. QED BY <1>4, <1>5, <1>6, <1>7, <1>8, <1>9

(* The player thread, in its two loops. *)
LEMMA PlayOK ==
  ASSUME ParaOK, QueueOK,
         \/ GetMessage \/ WaitForFrame \/ Decide \/ Read \/ Hold \/ Promote \/ Write
         \/ Written \/ WaitEnd \/ EndDecide \/ EndUpdate \/ Leave
  PROVE  ParaOK'
<1>1. pc \notin Codecless
  BY DEF GetMessage, WaitForFrame, Decide, Read, Hold, Promote, Write, Written, WaitEnd,
         EndDecide, EndUpdate, Leave, Codecless
<1>2. para \in Paras(Live, Usable) /\ pc # "done" BY <1>1 DEF ParaOK, Codecless
<1>3. ASSUME para' \in Paras(Live, Usable), pc' # "done" PROVE ParaOK'
  BY <1>3, ParasGrow DEF ParaOK
<1>4. ASSUME Fail PROVE ParaOK' BY <1>2, <1>4, FailOK
<1>5. Updated(para) \subseteq Paras(Live, Usable) BY <1>2, UpdatedStays
<1>6. CASE GetMessage
  <2>1. CASE queue = << >> BY <1>2, <1>3, <1>6, <2>1 DEF GetMessage, Decision
  <2>2. CASE queue # << >>
    <3>1. Head(queue) \in Command \cup {"STOP"} BY <2>2, HeadTailProperties DEF QueueOK
    <3>2. CheckMsg(para, Head(queue)) \subseteq Paras(Live, Usable) BY <1>2, <3>1, CheckMsgStays
    <3>. QED BY <1>3, <1>6, <2>2, <3>2 DEF GetMessage, Decision
  <2>. QED BY <2>1, <2>2
<1>7. CASE WaitForFrame BY <1>2, <1>3, <1>7 DEF WaitForFrame, ReadNext
<1>8. CASE Decide
  <2>1. Broken(para) \in Paras(Live, Usable) /\ GoesOn(para) \subseteq Paras(Live, Usable)
    BY <1>2, BrokenStays, GoesOnStays
  <2>2. [Broken(para) EXCEPT !.end = TRUE] \in Paras(Live, Usable) BY <2>1 DEF Paras
  <2>. QED BY <1>3, <1>8, <2>1, <2>2 DEF Decide, ReadNext
<1>9. CASE Read
  <2>1. [para EXCEPT !.read_end = TRUE] \in Paras(Live, Usable) BY <1>2 DEF Paras
  <2>. QED BY <1>2, <1>3, <1>4, <1>9, <2>1 DEF Read
<1>10. CASE Hold BY <1>2, <1>3, <1>10 DEF Hold
<1>11. CASE Promote BY <1>2, <1>3, <1>11, PromotedStays DEF Promote
<1>12. CASE Write
  <2>1. [para EXCEPT !.reset = TRUE, !.end = TRUE] \in Paras(Live, Usable) BY <1>2 DEF Paras
  <2>. QED BY <1>2, <1>3, <1>4, <1>12, <2>1 DEF Write
<1>13. CASE Written
  <2>1. ASSUME NEW u \in Updated(para), NEW d \in DecoderChecked(u), NEW p \in SubtitleChecked(d)
        PROVE  /\ p \in Paras(Live, Usable)
               /\ Updated([p EXCEPT !.end = TRUE]) \subseteq Paras(Live, Usable)
    <3>1. p \in Paras(Live, Usable) BY <1>5, DecoderCheckedStays, SubtitleCheckedStays
    <3>2. [p EXCEPT !.end = TRUE] \in Paras(Live, Usable) BY <3>1 DEF Paras
    <3>. QED BY <3>1, <3>2, UpdatedStays
  <2>. QED BY <1>3, <1>4, <1>13, <2>1 DEF Written
<1>14. CASE WaitEnd BY <1>2, <1>3, <1>14, DecoderCheckedStays DEF WaitEnd
<1>15. CASE EndDecide
  <2>1. Broken(para) \in Paras(Live, Usable) /\ GoesOn(para) \subseteq Paras(Live, Usable)
    BY <1>2, BrokenStays, GoesOnStays
  <2>2. ASSUME NEW p \in Paras(Live, Usable)
        PROVE  [p EXCEPT !.read_end = IF p.search \/ p.fast THEN FALSE ELSE @]
                 \in Paras(Live, Usable)
    <3>1. (IF p.search \/ p.fast THEN FALSE ELSE p.read_end) \in BOOLEAN BY DEF Paras
    <3>2. \A b \in BOOLEAN : [p EXCEPT !.read_end = b] \in Paras(Live, Usable) BY DEF Paras
    <3>. QED BY <3>1, <3>2, Zenon
  <2>. QED BY <1>3, <1>15, <2>1, <2>2 DEF EndDecide
<1>16. CASE EndUpdate BY <1>2, <1>3, <1>5, <1>16 DEF EndUpdate
<1>17. CASE Leave
  <2>1. [para EXCEPT !.status = "SEARCHING"] \in Paras(Live, Usable)
    BY <1>2, Published, StatusStays
  <2>2. Updated([para EXCEPT !.status = "SEARCHING"]) \subseteq Paras(Live, Usable)
    BY <2>1, UpdatedStays
  <2>. QED BY <1>2, <1>3, <1>17, <2>2 DEF Leave
<1>. QED BY <1>6, <1>7, <1>8, <1>9, <1>10, <1>11, <1>12, <1>13, <1>14, <1>15, <1>16, <1>17

(* The player thread, from a reset or a release on. *)
LEMMA EndOK ==
  ASSUME ParaOK, Reset \/ Release0 \/ Closing \/ Exit
  PROVE  ParaOK'
<1>1. pc \in {"reset", "release0", "closing", "exit"} BY DEF Reset, Release0, Closing, Exit
<1>2. para \in Paras(Live, AnyCodec) BY <1>1 DEF ParaOK
<1>3. ASSUME para' \in Paras(Live, AnyCodec), pc' \in Codecless PROVE ParaOK'
  BY <1>3, ParasGrow DEF ParaOK
<1>4. CASE Reset
  <2>1. Restarted(para) \subseteq Paras(Live, Usable) /\ Fresh(para) \in Paras(Live, Usable)
    BY <1>2, RestartedStays
  <2>2. CASE para' = [Fresh(para) EXCEPT !.status = "ERROR"] /\ pc' = "release0"
    BY <1>3, <2>1, <2>2, Published, StatusStays, ParasGrow DEF Codecless
  <2>3. ASSUME NEW p \in Restarted(para), para' = [p EXCEPT !.status = "PLAYEND"], pc' = "release0"
        PROVE  ParaOK'
    BY <1>3, <2>1, <2>3, Published, StatusStays, ParasGrow DEF Codecless
  <2>4. ASSUME NEW p \in Restarted(para), para' = Served(p), pc' = "flag"
        PROVE  ParaOK'
    <3>1. para' \in Paras(Live, Usable) BY <2>1, <2>4, ServedStays
    <3>. QED BY <2>4, <3>1, ParasGrow DEF ParaOK
  <2>. QED BY <1>4, <2>2, <2>3, <2>4 DEF Reset
<1>5. CASE Release0
  <2>1. [para EXCEPT !.status = "STOPED"] \in Paras(Live, AnyCodec)
    BY <1>2, Published, StatusStays
  <2>. QED BY <1>2, <1>3, <1>5, <2>1 DEF Release0, Codecless
<1>6. CASE Closing BY <1>2, <1>3, <1>6, UpdatedStays DEF Closing, Codecless
<1>7. CASE Exit
  <2>1. "EXIT" \in Status /\ "none" \in AnyCodec BY DEF Status, Stopped, AnyCodec
  <2>2. para' \in Paras(Status, AnyCodec) BY <1>2, <1>7, <2>1 DEF Exit, Paras
  <2>. QED BY <1>7, <2>2 DEF ParaOK, Exit, Codecless
<1>. QED BY <1>4, <1>5, <1>6, <1>7

(* The mate thread. *)
LEMMA MateKeepsPara ==
  ASSUME ParaOK, MateOK, MateThread
  PROVE  ParaOK'
<1>1. mate # "none" /\ pc' = pc
  BY DEF MateThread, MateStart, MateCommand, MateCommit, MateNotices, MateConcludes, notmate, Working
<1>2. pc # "done" BY <1>1 DEF MateOK, Mateless
<1>3. ASSUME NEW S \in {AnyCodec, Usable}, para \in Paras(Live, S)
      PROVE  para' \in Paras(Live, S)
  <2>1. ASSUME NEW st \in Live, NEW b \in BOOLEAN
        PROVE  Updated([para EXCEPT !.pause = b, !.status = st]) \subseteq Paras(Live, S)
    <3>1. [para EXCEPT !.pause = b, !.status = st] \in Paras(Live, S) BY <1>3 DEF Paras
    <3>. QED BY <3>1, UpdatedStays
  <2>2. ASSUME NEW k \in Codecs(para.codec, "running") \cup Codecs(para.codec, "paused")
        PROVE  [para EXCEPT !.codec = k] \in Paras(Live, S)
    <3>1. k \in S BY <1>3, CodecStays DEF Paras
    <3>. QED BY <1>3, <3>1 DEF Paras
  <2>3. ASSUME NEW b \in BOOLEAN PROVE [para EXCEPT !.loop = b] \in Paras(Live, S)
    BY <1>3 DEF Paras
  <2>4. CASE MateStart BY <1>3, <2>4 DEF MateStart
  <2>5. CASE MateCommand
    <3>1. (Head(queue) = "LOOP") \in BOOLEAN OBVIOUS
    <3>2. [para EXCEPT !.loop = (Head(queue) = "LOOP")] \in Paras(Live, S) BY <2>3, <3>1, Zenon
    <3>3. \/ \E k \in Codecs(para.codec, "running") \cup Codecs(para.codec, "paused") :
               para' = [para EXCEPT !.codec = k]
          \/ para' = [para EXCEPT !.loop = (Head(queue) = "LOOP")]
          \/ para' = para
      BY <2>5, Zenon DEF MateCommand
    <3>. QED BY <1>3, <2>2, <3>2, <3>3
  <2>6. CASE MateCommit BY <2>1, <2>6, Published DEF MateCommit
  <2>7. CASE MateNotices BY <1>3, <2>2, <2>7, NoticedStays DEF MateNotices
  <2>8. CASE MateConcludes
    BY <1>3, <2>8, Published, StatusStays, DeclaredStays DEF MateConcludes
  <2>. QED BY <2>4, <2>5, <2>6, <2>7, <2>8 DEF MateThread
<1>. QED BY <1>1, <1>2, <1>3, StaysOK

LEMMA ParaStep ==
  ASSUME PlayerInv, [Next]_vars
  PROVE  ParaOK'
<1>1. ASSUME para' = para, pc' = pc PROVE ParaOK' BY <1>1 DEF PlayerInv, ParaOK
<1>2. CASE PlayerThread BY <1>2, StartOK, PlayOK, EndOK DEF PlayerThread, PlayerInv
<1>3. CASE MateThread BY <1>3, MateKeepsPara DEF PlayerInv, FlowOK
<1>4. CASE Controller
  BY <1>1, <1>4 DEF Controller, Call, Interrupt, SendStop, Join, ExitJoin, notapp
<1>5. CASE \E c \in Command : SendCommand(c) BY <1>1, <1>5 DEF SendCommand, notapp
<1>6. CASE Gone \/ UNCHANGED vars BY <1>1, <1>6 DEF Gone, vars
<1>. QED BY <1>2, <1>3, <1>4, <1>5, <1>6 DEF Next

(* PlayerInv is an invariant of every player. *)
THEOREM PlayerInvariant == Spec => []PlayerInv
<1>1. ASSUME PlayerInv, [Next]_vars PROVE PlayerInv'
  BY <1>1, FlowStep, RestStep, QueueStep, ParaStep DEF PlayerInv
<1>. QED BY <1>1, InitInv, PTL DEF Spec

(* Type correctness: where the threads stand, what play_para_t and the     *)
(* ring hold, and that a player that plays has a decoder.                  *)
THEOREM PlayerTypeOK == Spec => []TypeOK
<1>1. ASSUME PlayerInv PROVE TypeOK
  <2>1. \A f \in Flag : para[f] \in BOOLEAN BY <1>1 DEF PlayerInv, ParaOK, Paras, Flag
  <2>2. /\ para.status \in {"NONE"} \cup Opening \cup Playing \cup Stopped
        /\ para.codec \in {"none", "running", "paused"}
        /\ para.codec = "none" => pc \in Codecless
    BY <1>1 DEF PlayerInv, ParaOK, Paras, Status, AnyCodec, Usable
  <2>. QED BY <1>1, <2>1, <2>2, Zenon DEF TypeOK, PlayerInv, FlowOK, RestOK, QueueOK
<1>. QED BY <1>1, PlayerInvariant, PTL

(* Nothing uses play_para_t after player_exit has freed it: the player     *)
(* thread is done, and its mate is gone with it.                           *)
THEOREM PlayerFreedIsQuiet == Spec => []FreedIsQuiet
<1>1. ASSUME PlayerInv PROVE FreedIsQuiet
  BY <1>1 DEF PlayerInv, FlowOK, FreedOK, MateOK, Mateless, FreedIsQuiet
<1>. QED BY <1>1, PlayerInvariant, PTL

(* PLAYER_EXIT is the last status that is ever published. *)
THEOREM PlayerExitIsFinal == Spec => ExitIsFinal
<1>1. ASSUME PlayerInv, [Next]_vars, para.status = "EXIT" PROVE para'.status = "EXIT"
  <2>1. pc = "done" BY <1>1 DEF PlayerInv, ParaOK, Paras, Live
  <2>2. mate = "none" BY <1>1, <2>1 DEF PlayerInv, FlowOK, MateOK, Mateless
  <2>3. ~PlayerThread
    BY <2>1 DEF PlayerThread, Begin, Open, Typed, DecInit, WaitStart, Prepare, GetMessage,
       WaitForFrame, Decide, Read, Hold, Promote, Write, Written, WaitEnd, EndDecide,
       EndUpdate, Leave, Reset, Release0, Closing, Exit
  <2>4. ~MateThread
    BY <2>2 DEF MateThread, MateStart, MateCommand, MateCommit, MateNotices, MateConcludes
  <2>5. para' = para
    BY <1>1, <2>3, <2>4 DEF Next, Controller, Call, Interrupt, SendStop, Join, ExitJoin,
       SendCommand, Gone, vars, notapp
  <2>. QED BY <1>1, <2>5
<1>2. PlayerInv /\ [Next]_vars => [para.status = "EXIT" => para'.status = "EXIT"]_vars
  BY <1>1
<1>. QED BY <1>2, PlayerInvariant, PTL DEF Spec, ExitIsFinal

(* When no mate is scheduled too late, the mate works only while the       *)
(* player thread is in ffmpeg or waits for it at the end.                  *)
THEOREM PlayerMateWorksAlone ==
  ASSUME "late_mate" \notin Can
  PROVE  Spec => []MateWorksAlone
<1>. DEFINE Waits == mate \in {"posted", "awake"} \cup Working => pc \in {"read", "hold", "release0"}
<1>1. Init => Waits BY DEF Init, Working
<1>2. ASSUME Waits, [Next]_vars PROVE Waits'
  <2>. USE DEF Working
  <2>1. CASE Read \/ Hold BY <2>1 DEF Read, Hold, MateSleeps, Fail
  <2>2. CASE WaitForFrame \/ Decide BY <1>2, <2>2 DEF WaitForFrame, Decide, ReadNext
  <2>3. CASE Prepare \/ Release0 BY <1>2, <2>3 DEF Prepare, Release0, Fail
  <2>4. CASE MateThread
    BY <1>2, <2>4 DEF MateThread, MateStart, MateCommand, MateCommit, MateNotices,
       MateConcludes, notmate
  <2>5. CASE Controller \/ \E c \in Command : SendCommand(c)
    BY <1>2, <2>5 DEF Controller, Call, Interrupt, SendStop, Join, ExitJoin, SendCommand, notapp
  <2>6. CASE Gone \/ UNCHANGED vars BY <1>2, <2>6 DEF Gone, vars
  <2>7. CASE Begin \/ Open \/ Typed \/ DecInit \/ WaitStart \/ GetMessage \/ Promote
    BY <1>2, <2>7 DEF Begin, Open, Typed, DecInit, WaitStart, GetMessage, Promote, Fail
  <2>8. CASE \/ Write \/ Written \/ WaitEnd \/ EndDecide \/ EndUpdate \/ Leave \/ Reset
             \/ Closing \/ Exit
    BY <1>2, <2>8 DEF Write, Written, WaitEnd, EndDecide, EndUpdate, Leave, Reset, Closing,
       Exit, Fail
  <2>. QED BY <1>2, <2>1, <2>2, <2>3, <2>4, <2>5, <2>6, <2>7, <2>8 DEF Next, PlayerThread
<1>3. Waits => MateWorksAlone BY DEF MateWorksAlone
<1>. QED BY <1>1, <1>2, <1>3, PTL DEF Spec
=============================================================================
