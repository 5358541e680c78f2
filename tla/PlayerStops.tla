----------------------------- MODULE PlayerStops -----------------------------
(***************************************************************************)
(* A player that took a stop stops: StopEnds, for every size of the ring   *)
(* and every behaviour of the environment but a decoder that asks for a    *)
(* reset and a late mate that takes a LOOP, each of which does start the   *)
(* player over.  It says so: StopReported, if besides the audio DSP does   *)
(* not report the end and no mate is late.  The STOP is not lost on the    *)
(* way: StopKept, as long as the ring cannot overflow.  And what           *)
(* player_stop found stopped stays so: StopIsFinal, for fewer commands,    *)
(* because the others do start such a player over.                         *)
(***************************************************************************)
EXTENDS PlayerProof

(* No decoder asks for a reset, and no late mate takes a LOOP. *)
Direct ==
  /\ "decoder_error" \notin Can
  /\ "late_mate" \notin Can \/ "LOOP" \notin Command

(* Nor does the audio DSP report the end, and no mate is late. *)
Calm == {"decoder_error", "pcm_end", "late_mate"} \cap Can = {}

MateInside == mate \in {"posted", "awake"} \cup Working => pc \in {"read", "hold"}

(* What most of the code does to a pending end and to what would start the *)
(* player over: it clears no end and asks for no reset, or even for none   *)
(* of what keeps a player going.                                           *)
Mild(q, p) ==
  /\ q.request_end = p.request_end
  /\ p.end => q.end
  /\ q.reset => p.reset
Eases(q, p) == Mild(q, p) /\ (q.search => p.search) /\ (q.fast => p.fast)

(* A reset that is asked for comes with an end and is next, so that no     *)
(* command is taken before it is carried out; and before it plays the      *)
(* player has no seek pending.                                             *)
Early == {"begin", "open", "typed", "decinit", "waitstart"}
Resetting == {"decide", "enddecide", "waitend", "leave", "reset"}
ResetNext(at, p) ==
  /\ p.reset => at \in Past \/ (at \in Resetting /\ p.end)
  /\ at \in Early => ~p.search

(* After a stop has been taken nothing is pending that could start the     *)
(* player over.                                                            *)
Ends(p) == p.request_end /\ p.end /\ ~p.reset /\ ~p.loop /\ ~p.search /\ ~p.fast
WayOut == {"decide", "enddecide", "waitend", "leave", "release0", "closing", "exit"}

StopInv ==
  /\ "late_mate" \notin Can => MateInside
  /\ pc # "done" => IF para.request_end THEN Ends(para) /\ pc \in WayOut
                                        ELSE ResetNext(pc, para)

(* Once its check_flag is through it shows STOPED. *)
StopShown ==
  para.request_end /\ pc \in WayOut \ {"decide", "enddecide"} => para.status = "STOPED"
-----------------------------------------------------------------------------
(* The updates, and a status that is published before one. *)
LEMMA UpdatedEases ==
  ASSUME NEW p \in Paras(Live, AnyCodec), NEW q \in Updated(p)
  PROVE  Eases(q, p) /\ q.loop = p.loop
<1>1. PICK b \in Buffered(p) : q \in Ended(b) BY DEF Updated
<1>2. b \in Paras(Live, AnyCodec) BY BufferedStays
<1>3. Eases(b, p) /\ b.loop = p.loop
  <2>1. CASE b = p BY <2>1 DEF Eases, Mild
  <2>2. ASSUME NEW c \in AnyCodec, NEW st, b = Showing(p, c, st)
        PROVE  Eases(b, p) /\ b.loop = p.loop
    BY <2>2 DEF Showing, Paras, Eases, Mild
  <2>. QED BY <1>1, <2>1, <2>2, BufferedShape
<1>4. CASE q = b BY <1>3, <1>4
<1>5. ASSUME NEW n \in Noticed(b), q = Declared(n) PROVE Eases(q, p) /\ q.loop = p.loop
  <2>1. n \in Paras(Live, AnyCodec) BY <1>2, NoticedStays
  <2>2. Eases(n, b) /\ n.loop = b.loop BY <1>2, <1>5 DEF Noticed, Paras, Eases, Mild
  <2>3. Eases(q, n) /\ q.loop = n.loop BY <1>5, <2>1 DEF Declared, Paras, Eases, Mild
  <2>. QED BY <1>3, <2>2, <2>3 DEF Eases, Mild
<1>. QED BY <1>1, <1>4, <1>5 DEF Ended

LEMMA PublishedEases ==
  ASSUME NEW p \in Paras(Live, AnyCodec), NEW c \in AnyCodec, NEW b \in BOOLEAN, NEW st \in Live,
         NEW r \in {[p EXCEPT !.codec = c, !.status = st], [p EXCEPT !.status = st],
                    [p EXCEPT !.pause = b, !.status = st]},
         NEW q \in {r} \cup Updated(r)
  PROVE  Eases(q, p) /\ q.loop = p.loop
<1>1. r \in Paras(Live, AnyCodec) /\ Eases(r, p) /\ r.loop = p.loop
  <2>1. CASE r = [p EXCEPT !.codec = c, !.status = st] BY <2>1 DEF Paras, Eases, Mild
  <2>2. CASE r = [p EXCEPT !.status = st] BY <2>2 DEF Paras, Eases, Mild
  <2>3. CASE r = [p EXCEPT !.pause = b, !.status = st] BY <2>3 DEF Paras, Eases, Mild
  <2>. QED BY <2>1, <2>2, <2>3
<1>2. q = r \/ (Eases(q, r) /\ q.loop = r.loop) BY <1>1, UpdatedEases
<1>. QED BY <1>1, <1>2 DEF Eases, Mild

LEMMA SubtitleEases ==
  ASSUME NEW p \in Paras(Live, AnyCodec), NEW q \in SubtitleChecked(p)
  PROVE  Eases(q, p) /\ q.loop = p.loop
<1>. DEFINE r == [p EXCEPT !.status = "FOUND_SUB"]
<1>1. CASE q = p BY <1>1 DEF Eases, Mild
<1>2. CASE q \in Updated(r)
  <2>1. "FOUND_SUB" \in Live BY Published
  <2>2. p.codec \in AnyCodec BY DEF Paras
  <2>. QED BY <1>2, <2>1, <2>2, PublishedEases
<1>. QED BY <1>1, <1>2 DEF SubtitleChecked

LEMMA PausedEases ==
  ASSUME NEW p \in Paras(Live, AnyCodec), NEW b \in BOOLEAN, NEW st \in Live,
         NEW q \in Updated([p EXCEPT !.pause = b, !.status = st])
  PROVE  Eases(q, p) /\ q.loop = p.loop
<1>. DEFINE r == [p EXCEPT !.pause = b, !.status = st]
<1>1. r \in Paras(Live, AnyCodec) /\ Eases(r, p) /\ r.loop = p.loop BY DEF Paras, Eases, Mild
<1>2. q \in Updated(r) OBVIOUS
<1>. HIDE DEF r
<1>3. Eases(q, r) /\ q.loop = r.loop BY <1>1, <1>2, UpdatedEases
<1>. QED BY <1>1, <1>3 DEF Eases, Mild

LEMMA GoesOnEases ==
  ASSUME NEW p \in Paras(Live, AnyCodec), NEW q \in GoesOn(p) \cup Promoted(p)
  PROVE  Eases(q, p)
<1>. DEFINE promoted == [p EXCEPT !.status = "RUNNING"]
<1>1. ASSUME NEW c \in AnyCodec, NEW st \in {"RUNNING", "PAUSE"},
             q \in Updated(Showing(p, c, st))
      PROVE  Eases(q, p)
  BY <1>1, Published, PublishedEases DEF Showing
<1>2. \A r \in Updated(promoted) : Eases(r, p)
  <2>1. p.codec \in AnyCodec BY DEF Paras
  <2>. QED BY <2>1, Published, PublishedEases
<1>3. Eases(p, p) BY DEF Eases, Mild
<1>4. CASE q \in GoesOn(p) BY <1>1, <1>3, <1>4, GoesOnShape
<1>5. CASE q \in Promoted(p)
  <2>1. q \in {p} \cup Updated(promoted) BY <1>5 DEF Promoted
  <2>. HIDE DEF promoted
  <2>. QED BY <1>2, <1>3, <2>1
<1>. QED BY <1>4, <1>5

(* The rest of check_flag when it breaks; winding may become a seek. *)
LEMMA BrokenMild ==
  ASSUME NEW p \in Paras(Live, AnyCodec)
  PROVE  Mild(Broken(p), p) /\ Broken(p).end = p.end
  BY DEF Broken, Paras, Mild

(* A command: a stop clears what could start the player over, and of the   *)
(* others only a seek to before the start asks for a reset, with an end.   *)
LEMMA CheckMsgAsks ==
  ASSUME NEW p \in Paras(Live, AnyCodec), NEW c \in Command \cup {"STOP"},
         NEW q \in CheckMsg(p, c)
  PROVE  IF c = "STOP"
         THEN q \in Stopping(p) /\ q.request_end /\ (~p.reset => Ends(q))
         ELSE /\ q.request_end = p.request_end
              /\ q.reset => p.reset \/ q.end
              /\ q.search => p.search \/ c = "SEARCH"
<1>1. CASE c = "STOP"
  <2>1. q \in Stopping(p) BY <1>1 DEF CheckMsg, SearchCommand, FastCommand
  <2>. QED BY <1>1, <2>1 DEF Stopping, Ends, Paras
<1>2. CASE c \in SearchCommand
  <2>. DEFINE b == IF p.status = "SEARCHING"
                   THEN [p EXCEPT !.fast = FALSE, !.f_step = FALSE] ELSE p
              e == [b EXCEPT !.end = TRUE, !.search = FALSE, !.status = "PLAYEND"]
  <2>1. /\ b \in Paras(Live, AnyCodec)
        /\ b.request_end = p.request_end /\ b.reset = p.reset /\ b.search = p.search
    BY DEF Paras
  <2>2. q \in Searched(p, c) /\ c # "STOP"
    BY <1>2 DEF CheckMsg, SearchCommand, FastCommand
  <2>3. CASE c \in {"SEARCH", "SEARCH_RESET"}
    <3>1. \/ q = [b EXCEPT !.search = TRUE, !.end = TRUE] /\ c = "SEARCH"
          \/ q = [b EXCEPT !.reset = TRUE, !.end = TRUE]
      BY <2>2, <2>3 DEF Searched
    <3>. HIDE DEF b
    <3>. QED BY <2>1, <2>2, <3>1 DEF Paras
  <2>4. CASE c = "SEARCH_END"
    <3>1. q \in Updated(e) BY <2>2, <2>4 DEF Searched
    <3>. HIDE DEF b
    <3>2. /\ e \in Paras(Live, AnyCodec) /\ ~e.search
          /\ e.request_end = b.request_end /\ e.reset = b.reset
      BY <2>1, Published DEF Paras
    <3>. HIDE DEF e
    <3>3. Eases(q, e) BY <3>1, <3>2, UpdatedEases
    <3>. QED BY <2>1, <2>2, <3>2, <3>3 DEF Eases, Mild
  <2>. QED BY <1>2, <2>3, <2>4 DEF SearchCommand
<1>3. CASE c \in FastCommand
  <2>1. q \in Fast(p, c) /\ c # "STOP" BY <1>3 DEF CheckMsg, FastCommand, SearchCommand
  <2>2. q.request_end = p.request_end /\ q.reset = p.reset /\ q.search = p.search
    BY <1>3, <2>1 DEF Fast, FastCommand, Paras
  <2>. QED BY <2>1, <2>2
<1>4. CASE c \in ProxyCommand
  <2>1. c # "STOP" /\ \E b \in BOOLEAN : q \in {p, [p EXCEPT !.pause = b], [p EXCEPT !.loop = b]}
    BY <1>4 DEF CheckMsg, ProxyCommand, SearchCommand, FastCommand
  <2>. QED BY <2>1 DEF Paras
<1>. QED BY <1>1, <1>2, <1>3, <1>4, PlayerAssumption

(* The reset keeps the stop, and serves the requests when it succeeds. *)
LEMMA RestartedKeeps ==
  ASSUME NEW p \in Paras(Live, AnyCodec), NEW q \in Restarted(p)
  PROVE  /\ Fresh(p).request_end = p.request_end
         /\ q.request_end = p.request_end
         /\ Served(q).request_end = p.request_end /\ ~Served(q).reset
<1>1. /\ Fresh(p) \in Paras(Live, AnyCodec) /\ q \in Paras(Live, AnyCodec)
      /\ Fresh(p).request_end = p.request_end
  <2>1. Fresh(p) \in Paras(Live, AnyCodec) /\ q \in Paras(Live, AnyCodec)
    BY RestartedStays, ParasGrow
  <2>2. Fresh(p).request_end = p.request_end BY DEF Fresh, Paras
  <2>. QED BY <2>1, <2>2
<1>2. q.request_end = Fresh(p).request_end
  <2>. DEFINE f == Fresh(p)
  <2>1. f \in Paras(Live, AnyCodec) BY <1>1
  <2>2. ASSUME q \in {f, [f EXCEPT !.end = TRUE], [f EXCEPT !.status = "FB_END"],
                      [f EXCEPT !.f_step = FALSE, !.init_ff_fr = FALSE, !.status = "FB_END"]}
        PROVE  q.request_end = f.request_end
    BY <2>1, <2>2 DEF Paras
  <2>3. ASSUME q = [f EXCEPT !.f_step = FALSE, !.status = "FF_END",
                             !.init_ff_fr = IF p.loop THEN FALSE ELSE @]
        PROVE  q.request_end = f.request_end
    BY <2>1, <2>3 DEF Paras
  <2>. HIDE DEF f
  <2>. QED BY <2>2, <2>3 DEF Restarted, f
<1>3. Served(q).request_end = q.request_end /\ ~Served(q).reset
  BY <1>1 DEF Served, Paras
<1>. QED BY <1>1, <1>2, <1>3

(* In a calm player no decoder interferes, and one that has stopped is     *)
(* left as it is.                                                          *)
LEMMA DecoderQuiet ==
  ASSUME "decoder_error" \notin Can, NEW p
  PROVE  DecoderChecked(p) = {p}
  BY DEF DecoderChecked

LEMMA StoppedQuiet ==
  ASSUME "pcm_end" \notin Can, NEW p, p.end, p.status = "STOPED"
  PROVE  Updated(p) = {p}
<1>1. Buffered(p) = {p} BY DEF Buffered
<1>2. Ended(p) = {p} BY DEF Ended, EndNoticed
<1>. QED BY <1>1, <1>2 DEF Updated

LEMMA EndsShown ==
  ASSUME NEW p \in Paras(Live, AnyCodec), Ends(p)
  PROVE  /\ Ends([p EXCEPT !.status = "STOPED"])
         /\ EndStatus(p) = "STOPED"
         /\ Breaks(p)
         /\ Broken(p) = [p EXCEPT !.status = "STOPED"]
         /\ Leaves(p)
<1>1. Ends([p EXCEPT !.status = "STOPED"]) BY DEF Ends, Paras
<1>2. EndStatus(p) = "STOPED" BY DEF Ends, EndStatus
<1>. QED BY <1>1, <1>2 DEF Ends, Breaks, Broken, Leaves

LEMMA EasedEnds ==
  ASSUME NEW p, NEW q, Ends(p), Eases(q, p), q.loop => p.loop,
         q.request_end \in BOOLEAN, q.end \in BOOLEAN
  PROVE  Ends(q)
  BY DEF Ends, Eases, Mild
-----------------------------------------------------------------------------
(* The mate is at work only inside a read or a hold. *)
LEMMA MateInsideStep ==
  ASSUME "late_mate" \notin Can, MateInside, [Next]_vars
  PROVE  MateInside'
<1>. USE DEF MateInside, Working
<1>1. CASE Read \/ Hold BY <1>1 DEF Read, Hold, MateSleeps
<1>2. CASE WaitForFrame \/ Decide BY <1>2 DEF WaitForFrame, Decide, ReadNext
<1>3. CASE Prepare \/ Release0 BY <1>3 DEF Prepare, Release0, Fail
<1>4. CASE MateThread
  BY <1>4 DEF MateThread, MateStart, MateCommand, MateCommit, MateNotices, MateConcludes, notmate
<1>5. CASE Controller \/ \E c \in Command : SendCommand(c)
  BY <1>5 DEF Controller, Call, Interrupt, SendStop, Join, ExitJoin, SendCommand, notapp
<1>6. CASE Gone \/ UNCHANGED vars BY <1>6 DEF Gone, vars
<1>7. CASE Begin \/ Open \/ Typed \/ DecInit \/ WaitStart \/ GetMessage \/ Promote
  BY <1>7 DEF Begin, Open, Typed, DecInit, WaitStart, GetMessage, Promote, Fail
<1>8. CASE \/ Write \/ Written \/ WaitEnd \/ EndDecide \/ EndUpdate \/ Leave \/ Reset
           \/ Closing \/ Exit
  BY <1>8 DEF Write, Written, WaitEnd, EndDecide, EndUpdate, Leave, Reset, Closing, Exit, Fail
<1>. QED BY <1>1, <1>2, <1>3, <1>4, <1>5, <1>6, <1>7, <1>8 DEF Next, PlayerThread

(* The mate never asks for a reset nor takes back a stop or an end; only a *)
(* LOOP it takes may keep a player going.                                  *)
LEMMA MateEases ==
  ASSUME para \in Paras(Live, AnyCodec), QueueOK, MateThread
  PROVE  Eases(para', para) /\ ("LOOP" \notin Command => (para'.loop => para.loop))
<1>1. ASSUME NEW c \in AnyCodec, para' = [para EXCEPT !.codec = c]
      PROVE  Eases(para', para) /\ para'.loop = para.loop
  BY <1>1 DEF Eases, Mild, Paras
<1>2. Codecs(para.codec, "running") \subseteq AnyCodec /\ Codecs(para.codec, "paused") \subseteq AnyCodec
  BY CodecStays DEF Paras
<1>3. CASE UNCHANGED para BY <1>3 DEF Eases, Mild
<1>4. CASE MateStart BY <1>3, <1>4 DEF MateStart
<1>5. CASE MateCommand
  <2>1. CASE \E c \in AnyCodec : para' = [para EXCEPT !.codec = c] BY <1>1, <2>1
  <2>2. CASE Head(queue) \in {"LOOP", "NOLOOP"} /\ queue # << >>
             /\ para' = [para EXCEPT !.loop = (Head(queue) = "LOOP")]
    <3>1. Head(queue) \in Command \cup {"STOP"} BY <2>2, HeadTailProperties DEF QueueOK
    <3>2. Eases(para', para) /\ para'.loop = (Head(queue) = "LOOP")
      BY <2>2 DEF Eases, Mild, Paras
    <3>. QED BY <3>1, <3>2
  <2>. QED BY <1>2, <1>3, <1>5, <2>1, <2>2 DEF MateCommand
<1>6. CASE MateCommit
  <2>1. "PAUSE" \in Live /\ "RUNNING" \in Live BY Published
  <2>2. ASSUME NEW b \in BOOLEAN, NEW st \in Live,
               para' \in Updated([para EXCEPT !.pause = b, !.status = st])
        PROVE  Eases(para', para) /\ para'.loop = para.loop
    BY <2>2, PausedEases
  <2>3. CASE para' \in Updated([para EXCEPT !.pause = TRUE, !.status = "PAUSE"])
    BY <2>1, <2>2, <2>3
  <2>4. CASE para' \in Updated([para EXCEPT !.pause = FALSE, !.status = "RUNNING"])
    BY <2>1, <2>2, <2>4
  <2>. QED BY <1>6, <2>3, <2>4 DEF MateCommit
<1>7. CASE MateNotices
  <2>1. CASE \E c \in AnyCodec : para' = [para EXCEPT !.codec = c] BY <1>1, <2>1
  <2>2. CASE para' \in Noticed(para) BY <2>2 DEF Noticed, Eases, Mild, Paras
  <2>. QED BY <1>2, <1>7, <2>1, <2>2 DEF MateNotices
<1>8. CASE MateConcludes
  BY <1>8 DEF MateConcludes, Declared, Eases, Mild, Paras
<1>. QED BY <1>4, <1>5, <1>6, <1>7, <1>8 DEF MateThread

(* Only taking a STOP sets request_end, and nothing clears it. *)
LEMMA RequestStays ==
  ASSUME para \in Paras(Live, AnyCodec), PlayerThread, ~WaitStart, ~GetMessage
  PROVE  para'.request_end = para.request_end
<1>1. ASSUME NEW st, para' = [para EXCEPT !.status = st]
      PROVE  para'.request_end = para.request_end
  BY <1>1 DEF Paras
<1>2. CASE Begin \/ Open \/ Typed \/ DecInit \/ Prepare
  BY <1>2 DEF Begin, Open, Typed, DecInit, Prepare, Fail, Paras
<1>3. CASE WaitForFrame \/ Hold BY <1>3 DEF WaitForFrame, Hold
<1>4. CASE Decide
  <2>1. CASE para' \in {Broken(para), [Broken(para) EXCEPT !.end = TRUE]}
    <3>1. Broken(para) \in Paras(Live, AnyCodec) /\ Broken(para).request_end = para.request_end
      BY BrokenStays, BrokenMild DEF Mild
    <3>. QED BY <2>1, <3>1 DEF Paras
  <2>2. CASE para' \in GoesOn(para) BY <2>2, GoesOnEases DEF Eases, Mild
  <2>. QED BY <1>4, <2>1, <2>2 DEF Decide
<1>5. CASE Read \/ Write BY <1>5 DEF Read, Write, Fail, Paras
<1>6. CASE Promote BY <1>6, GoesOnEases DEF Promote, Eases, Mild
<1>7. CASE Written
  <2>1. ASSUME NEW u \in Updated(para), NEW d \in DecoderChecked(u), NEW p \in SubtitleChecked(d),
               para' = p \/ para' \in Updated([p EXCEPT !.end = TRUE])
        PROVE  para'.request_end = para.request_end
    <3>1. u \in Paras(Live, AnyCodec) /\ u.request_end = para.request_end
      BY UpdatedStays, UpdatedEases DEF Eases, Mild
    <3>2. /\ p \in Paras(Live, AnyCodec) /\ p.request_end = d.request_end
          /\ d.request_end = u.request_end
      <4>1. d \in Paras(Live, AnyCodec) /\ d.request_end = u.request_end
        BY <3>1, DecoderCheckedStays DEF DecoderChecked, Paras
      <4>. QED BY <4>1, SubtitleCheckedStays, SubtitleEases DEF Eases, Mild
    <3>3. /\ [p EXCEPT !.end = TRUE] \in Paras(Live, AnyCodec)
          /\ [p EXCEPT !.end = TRUE].request_end = p.request_end
      BY <3>2 DEF Paras
    <3>. QED BY <2>1, <3>1, <3>2, <3>3, UpdatedEases DEF Eases, Mild
  <2>. QED BY <1>1, <1>7, <2>1 DEF Written, Fail
<1>8. CASE WaitEnd BY <1>8 DEF WaitEnd, DecoderChecked, Paras
<1>9. CASE EndDecide
  <2>1. Broken(para) \in Paras(Live, AnyCodec) /\ Broken(para).request_end = para.request_end
    BY BrokenStays, BrokenMild DEF Mild
  <2>2. \A q \in GoesOn(para) : q.request_end = para.request_end BY GoesOnEases DEF Eases, Mild
  <2>3. ASSUME NEW p \in Paras(Live, AnyCodec), NEW b
        PROVE  [p EXCEPT !.read_end = b].request_end = p.request_end
    BY DEF Paras
  <2>4. CASE Breaks(para)
    <3>1. \E b : para' = [Broken(para) EXCEPT !.read_end = b]
      BY <1>9, <2>4 DEF EndDecide
    <3>. QED BY <2>1, <2>3, <3>1
  <2>5. CASE ~Breaks(para) BY <1>9, <2>2, <2>5 DEF EndDecide
  <2>. QED BY <2>4, <2>5
<1>10. CASE EndUpdate \/ Closing BY <1>10, UpdatedEases DEF EndUpdate, Closing, Eases, Mild
<1>11. CASE Leave
  <2>1. CASE para' = para BY <2>1
  <2>2. CASE para' \in Updated([para EXCEPT !.status = "SEARCHING"])
    <3>1. Eases(para', para) BY <2>2, PublishedEases, Published DEF AnyCodec
    <3>. QED BY <3>1 DEF Eases, Mild
  <2>. QED BY <1>11, <2>1, <2>2 DEF Leave
<1>12. CASE Reset
  <2>1. Fresh(para).request_end = para.request_end /\ Fresh(para) \in Paras(Live, AnyCodec)
    BY RestartedKeeps, RestartedStays, ParasGrow DEF Restarted
  <2>2. CASE para' = [Fresh(para) EXCEPT !.status = "ERROR"] BY <2>1, <2>2 DEF Paras
  <2>3. ASSUME NEW p \in Restarted(para), para' \in {[p EXCEPT !.status = "PLAYEND"], Served(p)}
        PROVE  para'.request_end = para.request_end
    <3>1. p \in Paras(Live, AnyCodec) BY RestartedStays, ParasGrow
    <3>. QED BY <2>3, <3>1, RestartedKeeps DEF Paras
  <2>. QED BY <1>12, <2>2, <2>3 DEF Reset
<1>13. CASE Release0 \/ Exit BY <1>13 DEF Release0, Exit, Paras
<1>. QED BY <1>2, <1>3, <1>4, <1>5, <1>6, <1>7, <1>8, <1>9, <1>10, <1>11, <1>12, <1>13
  DEF PlayerThread
-----------------------------------------------------------------------------
(* The first state. *)
LEMMA StopInit == Init => StopInv
  BY DEF Init, StopInv, MateInside, Working, ResetNext, Early, Past

(* How a reset that is asked for comes next. *)
LEMMA MildNext ==
  ASSUME ResetNext(pc, para), Mild(para', para), pc' \notin Early,
         para.reset => pc' \in Past \/ (para.end /\ pc' \in Resetting)
  PROVE  ResetNext(pc, para)'
  BY DEF ResetNext, Mild

LEMMA PastNext == ASSUME pc' \in Past PROVE ResetNext(pc, para)'
  BY DEF ResetNext, Past, Early

(* The player thread until it plays. *)
LEMMA StartNext ==
  ASSUME para \in Paras(Live, AnyCodec), ResetNext(pc, para),
         Begin \/ Open \/ Typed \/ DecInit \/ Prepare
  PROVE  ResetNext(pc, para)'
<1>1. pc \in Early \cup {"prepare"} /\ ~para.reset /\ (pc \in Early => ~para.search)
  BY DEF Begin, Open, Typed, DecInit, Prepare, Early, ResetNext, Past, Resetting
<1>2. CASE Begin \/ Open \/ Typed \/ DecInit
  <2>1. ~para'.reset /\ ~para'.search
    BY <1>1, <1>2 DEF Begin, Open, Typed, DecInit, Fail, Paras, Early
  <2>. QED BY <2>1 DEF ResetNext
<1>3. CASE Prepare
  <2>1. ~para'.reset /\ pc' \notin Early
    BY <1>1, <1>3 DEF Prepare, Fail, Paras, Early
  <2>. QED BY <2>1 DEF ResetNext
<1>. QED BY <1>2, <1>3

(* The play loop, where no reset is pending but in Decide. *)
LEMMA PlayNext ==
  ASSUME "decoder_error" \notin Can, para \in Paras(Live, AnyCodec), ResetNext(pc, para),
         \/ WaitForFrame \/ Decide \/ Read \/ Hold \/ Promote \/ Write \/ Written \/ EndUpdate
  PROVE  ResetNext(pc, para)'
<1>1. ASSUME pc # "decide" PROVE ~para.reset
  <2>1. pc \in {"flag", "endflag", "read", "hold", "promote", "write", "written", "endupdate"}
    BY <1>1 DEF WaitForFrame, Decide, Read, Hold, Promote, Write, Written, EndUpdate
  <2>. QED BY <2>1 DEF ResetNext, Past, Resetting
<1>2. pc' \notin Early
  BY DEF WaitForFrame, Decide, Read, Hold, Promote, Write, Written, EndUpdate, ReadNext,
     Fail, Early
<1>3. ASSUME Mild(para', para), ~para.reset PROVE ResetNext(pc, para)'
  BY <1>2, <1>3, MildNext
<1>4. ASSUME Fail PROVE ResetNext(pc, para)'
  BY <1>4, PastNext DEF Fail, Past
<1>5. Mild(para, para) BY DEF Mild
<1>6. CASE WaitForFrame \/ Hold BY <1>1, <1>3, <1>5, <1>6 DEF WaitForFrame, Hold
<1>7. CASE Decide
  <2>1. CASE para.reset
    <3>1. para.end BY <1>7, <2>1 DEF Decide, ResetNext, Past
    <3>2. para' = Broken(para) /\ pc' = "waitend" BY <1>7, <3>1 DEF Decide, Breaks
    <3>3. Mild(para', para) BY <3>2, BrokenMild
    <3>. QED BY <1>2, <3>1, <3>2, <3>3, MildNext DEF Resetting
  <2>2. CASE ~para.reset
    <3>1. CASE para' \in GoesOn(para) BY <1>3, <2>2, <3>1, GoesOnEases DEF Eases
    <3>2. CASE para' \in {Broken(para), [Broken(para) EXCEPT !.end = TRUE]}
      <4>1. Broken(para) \in Paras(Live, AnyCodec) /\ Mild(Broken(para), para)
        BY BrokenStays, BrokenMild
      <4>2. Mild([Broken(para) EXCEPT !.end = TRUE], para) BY <4>1 DEF Mild, Paras
      <4>. QED BY <1>3, <2>2, <3>2, <4>1, <4>2
    <3>. QED BY <1>7, <3>1, <3>2 DEF Decide
  <2>. QED BY <2>1, <2>2
<1>8. CASE Read
  <2>1. Mild([para EXCEPT !.read_end = TRUE], para) BY DEF Mild, Paras
  <2>2. ~para.reset BY <1>1, <1>8 DEF Read
  <2>. QED BY <1>3, <1>4, <1>5, <1>8, <2>1, <2>2 DEF Read
<1>9. CASE Promote
  BY <1>1, <1>3, <1>9, GoesOnEases DEF Promote, Eases
<1>10. CASE Write BY <1>1, <1>3, <1>4, <1>5, <1>10 DEF Write
<1>11. CASE Written
  <2>1. ~para.reset BY <1>1, <1>11 DEF Written
  <2>2. ASSUME NEW u \in Updated(para), NEW d \in DecoderChecked(u), NEW p \in SubtitleChecked(d),
               para' = p \/ para' \in Updated([p EXCEPT !.end = TRUE])
        PROVE  ~para'.reset
    <3>0. d = u /\ u \in Paras(Live, AnyCodec) /\ ~u.reset
      BY <2>1, DecoderQuiet, UpdatedStays, UpdatedEases DEF Eases, Mild
    <3>1. p \in Paras(Live, AnyCodec) /\ ~p.reset
      BY <3>0, SubtitleCheckedStays, SubtitleEases DEF Eases, Mild
    <3>2. [p EXCEPT !.end = TRUE] \in Paras(Live, AnyCodec) /\ ~[p EXCEPT !.end = TRUE].reset
      BY <3>1 DEF Paras
    <3>3. \A q \in Updated([p EXCEPT !.end = TRUE]) : ~q.reset
      BY <3>2, UpdatedEases DEF Eases, Mild
    <3>. QED BY <2>2, <3>1, <3>3
  <2>3. CASE Fail BY <1>4, <2>3
  <2>4. CASE ~Fail
    <3>1. ~para'.reset BY <1>11, <2>2, <2>4 DEF Written
    <3>. QED BY <1>2, <3>1 DEF ResetNext
  <2>. QED BY <2>3, <2>4
<1>12. CASE EndUpdate
  <2>1. Mild(para', para) BY <1>5, <1>12, UpdatedEases DEF EndUpdate, Eases
  <2>. QED BY <1>1, <1>3, <1>12, <2>1 DEF EndUpdate
<1>. QED BY <1>6, <1>7, <1>8, <1>9, <1>10, <1>11, <1>12

(* From the wait for the end on: a reset that is pending is carried out. *)
LEMMA EndNext ==
  ASSUME "decoder_error" \notin Can, para \in Paras(Live, AnyCodec), ResetNext(pc, para),
         WaitEnd \/ EndDecide \/ Leave \/ Reset \/ Release0 \/ Closing \/ Exit
  PROVE  ResetNext(pc, para)'
<1>1. pc' \notin Early
  BY DEF WaitEnd, EndDecide, Leave, Reset, Release0, Closing, Exit, Early
<1>2. ASSUME pc \in {"waitend", "enddecide", "leave"}, para.reset PROVE para.end
  BY <1>2 DEF ResetNext, Past
<1>3. CASE WaitEnd
  <2>1. para' = para BY <1>3, DecoderQuiet DEF WaitEnd
  <2>2. para.reset => para.end /\ pc' = "leave" BY <1>2, <1>3 DEF WaitEnd
  <2>. QED BY <1>1, <2>1, <2>2, MildNext DEF Mild, Resetting
<1>4. CASE EndDecide
  <2>1. Broken(para) \in Paras(Live, AnyCodec) /\ Mild(Broken(para), para)
    BY BrokenStays, BrokenMild
  <2>2. ASSUME NEW p \in Paras(Live, AnyCodec), NEW b, Mild(p, para)
        PROVE  Mild([p EXCEPT !.read_end = b], para)
    BY <2>2 DEF Mild, Paras
  <2>3. Mild(para', para)
    <3>1. CASE Breaks(para)
      <4>1. \E b : para' = [Broken(para) EXCEPT !.read_end = b]
        BY <1>4, <3>1 DEF EndDecide
      <4>. QED BY <2>1, <2>2, <4>1
    <3>2. CASE ~Breaks(para) BY <1>4, <3>2, GoesOnEases DEF EndDecide, Eases
    <3>. QED BY <3>1, <3>2
  <2>4. para.reset => para.end /\ pc' = "leave" BY <1>2, <1>4 DEF EndDecide, Breaks
  <2>. QED BY <1>1, <2>3, <2>4, MildNext DEF Resetting
<1>5. CASE Leave
  <2>1. CASE pc' = "release0" BY <2>1, PastNext DEF Past
  <2>2. CASE pc' = "reset"
    <3>1. Mild(para', para)
      <4>1. CASE para' = para BY <4>1 DEF Mild
      <4>2. CASE para' \in Updated([para EXCEPT !.status = "SEARCHING"])
        BY <4>2, PublishedEases, Published DEF Eases, AnyCodec
      <4>. QED BY <1>5, <2>2, <4>1, <4>2 DEF Leave
    <3>2. para.reset => para.end BY <1>2, <1>5 DEF Leave
    <3>. QED BY <1>1, <2>2, <3>1, <3>2, MildNext DEF Resetting
  <2>. QED BY <1>5, <2>1, <2>2 DEF Leave
<1>6. CASE Reset
  <2>1. CASE pc' = "release0" BY <2>1, PastNext DEF Past
  <2>2. CASE \E p \in Restarted(para) : para' = Served(p)
    BY <1>1, <2>2, RestartedKeeps DEF ResetNext
  <2>. QED BY <1>6, <2>1, <2>2 DEF Reset
<1>7. CASE Release0 \/ Closing \/ Exit
  BY <1>7, PastNext DEF Release0, Closing, Exit, Past
<1>. QED BY <1>3, <1>4, <1>5, <1>6, <1>7

(* Taking a command: a STOP that is taken clears the way out, and shows    *)
(* STOPED at once where the player has not begun to play.                  *)
LEMMA TakingNext ==
  ASSUME para \in Paras(Live, AnyCodec), QueueOK, ~para.request_end, ResetNext(pc, para),
         WaitStart \/ GetMessage
  PROVE  IF para'.request_end
         THEN /\ Ends(para')
              /\ pc' \in {"decide", "enddecide"}
                 \/ (pc' = "release0" /\ para'.status = "STOPED")
         ELSE ResetNext(pc, para)'
<1>1. /\ pc \in {"waitstart", "flag", "endflag"}
      /\ ~para.reset
      /\ pc = "waitstart" => ~para.search
  <2>1. pc \in {"waitstart", "flag", "endflag"} BY DEF WaitStart, GetMessage
  <2>. QED BY <2>1 DEF ResetNext, Past, Resetting, Early
<1>2. ASSUME queue # << >> PROVE Head(queue) \in Command \cup {"STOP"}
  BY <1>2, HeadTailProperties DEF QueueOK
<1>3. CASE GetMessage
  <2>1. pc' \in {"decide", "enddecide"} BY <1>3 DEF GetMessage, Decision
  <2>2. CASE queue = << >>
    <3>1. para' = para BY <1>3, <2>2 DEF GetMessage
    <3>. QED BY <1>1, <2>1, <3>1 DEF ResetNext, Early
  <2>3. CASE queue # << >>
    <3>1. para' \in CheckMsg(para, Head(queue)) BY <1>3, <2>3 DEF GetMessage
    <3>2. CASE Head(queue) = "STOP" BY <1>1, <1>2, <2>1, <2>3, <3>1, <3>2, CheckMsgAsks
    <3>3. CASE Head(queue) # "STOP"
      <4>1. para'.request_end = para.request_end /\ (para'.reset => para'.end)
        BY <1>1, <1>2, <2>3, <3>1, <3>3, CheckMsgAsks
      <4>. QED BY <2>1, <4>1 DEF ResetNext, Resetting, Early
    <3>. QED BY <3>2, <3>3
  <2>. QED BY <2>2, <2>3
<1>4. CASE WaitStart
  <2>0. pc = "waitstart" BY <1>4 DEF WaitStart
  <2>1. ASSUME para' = para, pc' \in {"waitstart", "prepare"} PROVE ResetNext(pc, para)'
    BY <1>1, <2>0, <2>1 DEF ResetNext
  <2>2. ASSUME pc' = "release0" PROVE ResetNext(pc, para)'
    BY <2>2, PastNext DEF Past
  <2>3. CASE queue = << >> \/ Head(queue) = "START"
    <3>1. para' = para /\ pc' \in {"waitstart", "prepare"} BY <1>4, <2>0, <2>3 DEF WaitStart
    <3>. QED BY <2>1, <3>1
  <2>4. ASSUME queue # << >>, Head(queue) # "START",
               NEW p \in IF Head(queue) = "SEARCH" THEN {para} ELSE CheckMsg(para, Head(queue)),
               IF p.end /\ ~p.search
               THEN para' = [p EXCEPT !.status = EndStatus(p)] /\ pc' = "release0"
               ELSE para' = p /\ pc' = pc
        PROVE  IF para'.request_end
               THEN /\ Ends(para')
                    /\ pc' \in {"decide", "enddecide"}
                       \/ (pc' = "release0" /\ para'.status = "STOPED")
               ELSE ResetNext(pc, para)'
    <3>1. CASE Head(queue) = "STOP"
      <4>1. Ends(p) /\ p \in Paras(Live, AnyCodec)
        BY <1>1, <1>2, <2>4, <3>1, CheckMsgAsks, CheckMsgStays
      <4>2. para' = [p EXCEPT !.status = "STOPED"] /\ pc' = "release0"
        BY <2>4, <4>1, EndsShown DEF Ends
      <4>. QED BY <4>1, <4>2, EndsShown DEF Ends, Paras
    <3>2. CASE Head(queue) # "STOP"
      <4>1. /\ p \in Paras(Live, AnyCodec)
            /\ ~p.request_end
            /\ p.reset => p.end
            /\ ~p.search
        <5>1. CASE Head(queue) = "SEARCH" BY <1>1, <2>0, <2>4, <5>1
        <5>2. CASE Head(queue) # "SEARCH"
          BY <1>1, <1>2, <2>0, <2>4, <3>2, <5>2, CheckMsgAsks, CheckMsgStays
        <5>. QED BY <5>1, <5>2
      <4>2. CASE p.end
        <5>1. pc' = "release0" /\ ~para'.request_end BY <2>4, <4>1, <4>2 DEF Paras
        <5>. QED BY <2>2, <5>1
      <4>3. CASE ~p.end BY <2>4, <4>1, <4>3 DEF ResetNext
      <4>. QED BY <4>2, <4>3
    <3>. QED BY <3>1, <3>2
  <2>. QED BY <1>4, <2>3, <2>4 DEF WaitStart
<1>. QED BY <1>3, <1>4

(* Once it is taken the player thread goes straight to its end. *)
LEMMA LeftPlaces ==
  /\ DOMAIN Left = {"decide", "enddecide", "waitend", "leave", "reset", "release0",
                    "closing", "exit", "done"}
  /\ Left["decide"] = 6 /\ Left["enddecide"] = 6 /\ Left["waitend"] = 5 /\ Left["leave"] = 4
  /\ Left["reset"] = 3 /\ Left["release0"] = 3 /\ Left["closing"] = 2 /\ Left["exit"] = 1
  /\ Left["done"] = 0
  BY DEF Left

LEMMA WayOutStep ==
  ASSUME para \in Paras(Live, AnyCodec), Ends(para), pc \in WayOut, PlayerThread
  PROVE  /\ Nearer /\ pc' # "reset"
         /\ pc' = "done" \/ (pc' \in WayOut /\ Ends(para'))
<1>. DEFINE p == [para EXCEPT !.status = "STOPED"]
<1>1. /\ Breaks(para) /\ Broken(para) = p /\ Leaves(para)
      /\ Ends(p) /\ ~p.search /\ ~p.fast /\ p.read_end = para.read_end
      /\ para.end
  <2>1. p.read_end = para.read_end BY DEF Paras
  <2>. QED BY <2>1, EndsShown DEF Ends
<1>2. CASE pc = "decide"
  <2>1. Decide
    BY <1>2 DEF PlayerThread, Begin, Open, Typed, DecInit, WaitStart, Prepare, GetMessage,
       WaitForFrame, Read, Hold, Promote, Write, Written, WaitEnd, EndDecide, EndUpdate,
       Leave, Reset, Release0, Closing, Exit
  <2>2. para' = p /\ pc' = "waitend" BY <1>1, <2>1 DEF Decide
  <2>. QED BY <1>1, <1>2, <2>2, LeftPlaces DEF Nearer, WayOut
<1>3. CASE pc = "enddecide"
  <2>1. EndDecide
    BY <1>3 DEF PlayerThread, Begin, Open, Typed, DecInit, WaitStart, Prepare, GetMessage,
       WaitForFrame, Decide, Read, Hold, Promote, Write, Written, WaitEnd, EndUpdate,
       Leave, Reset, Release0, Closing, Exit
  <2>2. [p EXCEPT !.read_end = p.read_end] = p BY DEF Paras
  <2>3. para' = p /\ pc' = "leave" BY <1>1, <2>1, <2>2 DEF EndDecide
  <2>. QED BY <1>1, <1>3, <2>3, LeftPlaces DEF Nearer, WayOut
<1>4. CASE pc \in {"waitend", "leave", "release0", "closing", "exit"}
  <2>1. WaitEnd \/ Leave \/ Release0 \/ Closing \/ Exit
    BY <1>4 DEF PlayerThread, Begin, Open, Typed, DecInit, WaitStart, Prepare, GetMessage,
       WaitForFrame, Decide, Read, Hold, Promote, Write, Written, EndDecide, EndUpdate, Reset
  <2>2. CASE WaitEnd
    <3>1. pc = "waitend" /\ pc' = "leave" /\ para' = para BY <1>1, <2>2 DEF WaitEnd
    <3>. QED BY <3>1, LeftPlaces DEF Nearer, WayOut
  <2>3. CASE Leave
    <3>1. pc = "leave" /\ pc' = "release0" /\ para' = para BY <1>1, <2>3 DEF Leave
    <3>. QED BY <3>1, LeftPlaces DEF Nearer, WayOut
  <2>4. CASE Release0
    <3>1. pc = "release0" /\ pc' = "closing" BY <2>4 DEF Release0
    <3>2. Ends(para') BY <1>1, <2>4 DEF Release0
    <3>. QED BY <3>1, <3>2, LeftPlaces DEF Nearer, WayOut
  <2>5. CASE Closing
    <3>1. pc = "closing" /\ pc' = "exit" /\ para' \in Updated(para) BY <2>5 DEF Closing
    <3>2. Eases(para', para) /\ para'.loop = para.loop BY <3>1, UpdatedEases
    <3>3. para' \in Paras(Live, AnyCodec) BY <3>1, UpdatedStays
    <3>4. Ends(para') BY <3>2, <3>3, EasedEnds DEF Paras
    <3>. QED BY <3>1, <3>4, LeftPlaces DEF Nearer, WayOut
  <2>6. CASE Exit
    <3>1. pc = "exit" /\ pc' = "done" BY <2>6 DEF Exit
    <3>. QED BY <3>1, LeftPlaces DEF Nearer
  <2>. QED BY <2>1, <2>2, <2>3, <2>4, <2>5, <2>6
<1>. QED BY <1>2, <1>3, <1>4 DEF WayOut

(* A mate step finds a player that has not taken a stop, or, when it is    *)
(* late, one whose loop mode it cannot switch on.                          *)
LEMMA MateStop ==
  ASSUME Direct, PlayerInv, PlayerInv', StopInv, MateThread
  PROVE  pc' = pc /\ (pc # "done" => IF para'.request_end THEN Ends(para') /\ pc \in WayOut
                                                         ELSE ResetNext(pc, para'))
<1>1. mate \in {"posted", "awake"} \cup Working /\ pc' = pc
  BY DEF MateThread, MateStart, MateCommand, MateCommit, MateNotices, MateConcludes,
     notmate, Working
<1>2. SUFFICES ASSUME pc # "done"
               PROVE  IF para'.request_end THEN Ends(para') /\ pc \in WayOut
                                           ELSE ResetNext(pc, para')
  BY <1>1
<1>3. para \in Paras(Live, AnyCodec) /\ para' \in Paras(Live, AnyCodec)
  BY <1>1, <1>2 DEF PlayerInv, ParaOK
<1>4. Eases(para', para) /\ ("LOOP" \notin Command => (para'.loop => para.loop))
  BY <1>3, MateEases DEF PlayerInv
<1>5. CASE para.request_end
  <2>1. Ends(para) /\ pc \in WayOut BY <1>2, <1>5 DEF StopInv
  <2>2. "LOOP" \notin Command
    BY <1>1, <2>1 DEF Direct, StopInv, MateInside, WayOut
  <2>3. Ends(para') BY <1>3, <1>4, <2>1, <2>2, EasedEnds DEF Paras
  <2>. QED BY <2>1, <2>3 DEF Ends
<1>6. CASE ~para.request_end
  <2>1. ResetNext(pc, para) /\ ~para'.request_end
    BY <1>2, <1>4, <1>6 DEF StopInv, Eases, Mild
  <2>. QED BY <1>4, <2>1 DEF ResetNext, Eases, Mild
<1>. QED BY <1>5, <1>6

(* Every step. *)
LEMMA StopStep ==
  ASSUME Direct, PlayerInv, PlayerInv', StopInv, [Next]_vars
  PROVE  StopInv'
<1>1. ("late_mate" \notin Can => MateInside)' BY MateInsideStep DEF StopInv
<1>2. ASSUME UNCHANGED <<para, pc>> PROVE StopInv'
  BY <1>1, <1>2 DEF StopInv
<1>3. CASE PlayerThread
  <2>1. pc # "done"
    BY <1>3 DEF PlayerThread, Begin, Open, Typed, DecInit, WaitStart, Prepare, GetMessage,
       WaitForFrame, Decide, Read, Hold, Promote, Write, Written, WaitEnd, EndDecide,
       EndUpdate, Leave, Reset, Release0, Closing, Exit
  <2>2. para \in Paras(Live, AnyCodec) BY <2>1 DEF PlayerInv, ParaOK
  <2>3. CASE para.request_end
    <3>1. Ends(para) /\ pc \in WayOut BY <2>1, <2>3 DEF StopInv
    <3>2. pc' = "done" \/ (pc' \in WayOut /\ Ends(para')) BY <1>3, <2>2, <3>1, WayOutStep
    <3>. QED BY <1>1, <3>2 DEF StopInv, Ends
  <2>4. CASE ~para.request_end
    <3>1. ResetNext(pc, para) BY <2>1, <2>4 DEF StopInv
    <3>2. CASE WaitStart \/ GetMessage
      <4>1. IF para'.request_end THEN Ends(para') /\ pc' \in WayOut ELSE ResetNext(pc, para)'
        BY <2>2, <2>4, <3>1, <3>2, TakingNext DEF PlayerInv, WayOut
      <4>. QED BY <1>1, <4>1 DEF StopInv
    <3>3. CASE ~(WaitStart \/ GetMessage)
      <4>1. ~para'.request_end BY <1>3, <2>2, <2>4, <3>3, RequestStays
      <4>2. ResetNext(pc, para)'
        BY <1>3, <2>2, <3>1, <3>3, StartNext, PlayNext, EndNext DEF PlayerThread, Direct
      <4>. QED BY <1>1, <4>1, <4>2 DEF StopInv
    <3>. QED BY <3>2, <3>3
  <2>. QED BY <2>3, <2>4
<1>4. CASE MateThread BY <1>1, <1>4, MateStop DEF StopInv
<1>5. CASE Controller \/ \E c \in Command : SendCommand(c)
  BY <1>2, <1>5 DEF Controller, Call, Interrupt, SendStop, Join, ExitJoin, SendCommand, notapp
<1>6. CASE Gone \/ UNCHANGED vars BY <1>2, <1>6 DEF Gone, vars
<1>. QED BY <1>3, <1>4, <1>5, <1>6 DEF Next

(* StopInv is an invariant of every direct player: a reset that is asked   *)
(* for is the next thing it does, so that no stop is taken before it, and  *)
(* a stop that was taken is on its straight way out.                       *)
THEOREM StopInvariant ==
  ASSUME Direct
  PROVE  Spec => []StopInv
<1>1. ASSUME PlayerInv, PlayerInv', StopInv, [Next]_vars PROVE StopInv'
  BY <1>1, StopStep
<1>. QED BY <1>1, StopInit, PlayerInvariant, PTL DEF Spec

(* Only the player thread moves, and only by its own steps. *)
LEMMA WhoMoves ==
  ASSUME [Next]_vars, pc' # pc
  PROVE  PlayerThread
<1>1. CASE MateThread
  BY <1>1 DEF MateThread, MateStart, MateCommand, MateCommit, MateNotices, MateConcludes, notmate
<1>2. CASE Controller \/ \E c \in Command : SendCommand(c)
  BY <1>2 DEF Controller, Call, Interrupt, SendStop, Join, ExitJoin, SendCommand, notapp
<1>3. CASE Gone \/ UNCHANGED vars BY <1>3 DEF Gone, vars
<1>. QED BY <1>1, <1>2, <1>3 DEF Next

(* A direct player that took a stop goes straight to its end, whatever     *)
(* command came before the stop, whatever the audio DSP and ffmpeg do.     *)
THEOREM PlayerStopEnds ==
  ASSUME Direct
  PROVE  Spec => StopEnds
<1>1. ASSUME PlayerInv, StopInv, [Next]_vars, para.request_end, pc' # pc
      PROVE  Nearer /\ pc' # "reset"
  <2>1. PlayerThread BY <1>1, WhoMoves
  <2>2. pc # "done"
    BY <2>1 DEF PlayerThread, Begin, Open, Typed, DecInit, WaitStart, Prepare, GetMessage,
       WaitForFrame, Decide, Read, Hold, Promote, Write, Written, WaitEnd, EndDecide,
       EndUpdate, Leave, Reset, Release0, Closing, Exit
  <2>3. para \in Paras(Live, AnyCodec) BY <1>1, <2>2 DEF PlayerInv, ParaOK
  <2>4. Ends(para) /\ pc \in WayOut BY <1>1, <2>2 DEF StopInv
  <2>. QED BY <2>1, <2>3, <2>4, WayOutStep
<1>2. PlayerInv /\ StopInv /\ [Next]_vars
        => [para.request_end /\ pc' # pc => Nearer /\ pc' # "reset"]_vars
  BY <1>1
<1>. QED BY <1>2, StopInvariant, PlayerInvariant, PTL DEF Spec, StopEnds
-----------------------------------------------------------------------------
(* The status a calm player shows on its way out. *)
LEMMA ShownStep ==
  ASSUME Calm, PlayerInv, StopInv, StopShown, [Next]_vars
  PROVE  StopShown'
<1>1. ASSUME UNCHANGED <<para, pc>> PROVE StopShown' BY <1>1 DEF StopShown
<1>2. CASE PlayerThread
  <2>1. pc # "done"
    BY <1>2 DEF PlayerThread, Begin, Open, Typed, DecInit, WaitStart, Prepare, GetMessage,
       WaitForFrame, Decide, Read, Hold, Promote, Write, Written, WaitEnd, EndDecide,
       EndUpdate, Leave, Reset, Release0, Closing, Exit
  <2>2. para \in Paras(Live, AnyCodec) BY <2>1 DEF PlayerInv, ParaOK
  <2>3. CASE ~para.request_end
    <3>1. CASE WaitStart \/ GetMessage
      <4>1. ResetNext(pc, para) BY <2>1, <2>3 DEF StopInv
      <4>. QED BY <2>2, <2>3, <3>1, <4>1, TakingNext DEF PlayerInv, StopShown
    <3>2. CASE ~(WaitStart \/ GetMessage)
      BY <1>2, <2>2, <2>3, <3>2, RequestStays DEF StopShown
    <3>. QED BY <3>1, <3>2
  <2>4. CASE para.request_end
    <3>1. Ends(para) /\ pc \in WayOut BY <2>1, <2>4 DEF StopInv
    <3>2. Decide \/ EndDecide \/ WaitEnd \/ Leave \/ Release0 \/ Closing \/ Exit
      BY <1>2, <3>1 DEF WayOut, PlayerThread, Begin, Open, Typed, DecInit, WaitStart, Prepare,
         GetMessage, WaitForFrame, Read, Hold, Promote, Write, Written, EndUpdate, Reset
    <3>3. Breaks(para) /\ Broken(para) = [para EXCEPT !.status = "STOPED"] /\ Leaves(para)
      BY <2>2, <3>1, EndsShown
    <3>4. CASE Decide \/ EndDecide
      <4>. DEFINE p == [para EXCEPT !.status = "STOPED"]
      <4>1. p.status = "STOPED" /\ \A b : [p EXCEPT !.read_end = b].status = "STOPED"
        BY <2>2 DEF Paras
      <4>2. para' = p \/ \E b : para' = [p EXCEPT !.read_end = b]
        BY <3>1, <3>3, <3>4 DEF Decide, EndDecide, Ends
      <4>. QED BY <4>1, <4>2 DEF StopShown
    <3>5. CASE WaitEnd \/ Leave \/ Release0 \/ Closing
      <4>1. para.status = "STOPED"
        BY <2>4, <3>1, <3>5 DEF StopShown, WaitEnd, Leave, Release0, Closing
      <4>2. Updated(para) = {para} BY <3>1, <4>1, StoppedQuiet DEF Calm, Ends
      <4>3. para' = para
        BY <3>1, <3>3, <3>5, <4>1, <4>2 DEF WaitEnd, Leave, Release0, Closing, Ends
      <4>. QED BY <4>1, <4>3 DEF StopShown
    <3>6. CASE Exit BY <3>6 DEF Exit, StopShown, WayOut
    <3>. QED BY <3>2, <3>4, <3>5, <3>6
  <2>. QED BY <2>3, <2>4
<1>3. CASE MateThread
  <2>1. mate \in {"posted", "awake"} \cup Working /\ pc' = pc
    BY <1>3 DEF MateThread, MateStart, MateCommand, MateCommit, MateNotices, MateConcludes,
       notmate, Working
  <2>2. pc \in {"read", "hold"} BY <2>1 DEF StopInv, MateInside, Calm
  <2>. QED BY <2>1, <2>2 DEF StopShown, WayOut
<1>4. CASE Controller \/ \E c \in Command : SendCommand(c)
  BY <1>1, <1>4 DEF Controller, Call, Interrupt, SendStop, Join, ExitJoin, SendCommand, notapp
<1>5. CASE Gone \/ UNCHANGED vars BY <1>1, <1>5 DEF Gone, vars
<1>. QED BY <1>2, <1>3, <1>4, <1>5 DEF Next

(* A player that took a stop ends as STOPED, whatever the file, the ring   *)
(* and the other threads do, if the player is calm.                        *)
THEOREM PlayerStopReported ==
  ASSUME Calm
  PROVE  Spec => []StopReported
<1>1. Direct BY DEF Calm, Direct
<1>2. Init => StopShown BY DEF Init, StopShown
<1>3. ASSUME PlayerInv, StopInv, StopShown, [Next]_vars PROVE StopShown' BY <1>3, ShownStep
<1>4. StopShown => StopReported BY DEF StopShown, StopReported, WayOut
<1>5. Spec => []StopInv BY <1>1, StopInvariant
<1>. QED BY <1>2, <1>3, <1>4, <1>5, PlayerInvariant, PTL DEF Spec
-----------------------------------------------------------------------------
(***************************************************************************)
(* The STOP of a player_stop or a player_exit is not lost on its way.      *)
(***************************************************************************)

(* The ring holds at most what was sent, and the STOP of the one that      *)
(* waits; player_stop_async counts what it is about to send.               *)
Room ==
  Len(queue) + (IF op = "stop_async" THEN 1 ELSE 0) <= sent + (IF ctl = "join" THEN 1 ELSE 0)

KeptInv ==
  /\ op = "stop_async" => ctl \in {"interrupt", "send"}
  /\ ctl = "idle" => op = "none"
  /\ Room
  /\ StopKept
-----------------------------------------------------------------------------
(* A STOP stays in the ring when another command is put behind it or takes *)
(* the place of the oldest one, and when the oldest one, another command,  *)
(* is taken.                                                               *)
LEMMA HasStopStays ==
  ASSUME NEW C, NEW q \in Seq(C), NEW c \in C
  PROVE  /\ HasStop(Append(q, "STOP"))
         /\ HasStop(q) => HasStop(Append(q, c))
         /\ HasStop(q) /\ q # << >> /\ Head(q) # "STOP"
              => HasStop(Tail(q)) /\ HasStop(<< c >> \o Tail(q))
<1>1. Len(q) \in Nat BY LenProperties
<1>2. HasStop(Append(q, "STOP"))
  <2>1. q \in Seq(C \cup {"STOP"}) BY SeqMonotonic
  <2>2. /\ Len(Append(q, "STOP")) = Len(q) + 1
        /\ Append(q, "STOP")[Len(q) + 1] = "STOP"
    BY <2>1, AppendProperties
  <2>. QED BY <1>1, <2>2 DEF HasStop
<1>3. ASSUME HasStop(q) PROVE HasStop(Append(q, c))
  <2>1. PICK i \in 1 .. Len(q) : q[i] = "STOP" BY <1>3 DEF HasStop
  <2>2. Len(Append(q, c)) = Len(q) + 1 /\ Append(q, c)[i] = q[i] BY AppendProperties
  <2>. QED BY <1>1, <2>1, <2>2 DEF HasStop
<1>4. ASSUME HasStop(q), q # << >>, Head(q) # "STOP"
      PROVE  HasStop(Tail(q)) /\ HasStop(<< c >> \o Tail(q))
  <2>1. PICK i \in 1 .. Len(q) : q[i] = "STOP" BY <1>4 DEF HasStop
  <2>2. i # 1 BY <1>4, <2>1
  <2>3. Tail(q) \in Seq(C) /\ Len(Tail(q)) = Len(q) - 1 /\ Tail(q)[i - 1] = q[i]
    BY <1>1, <1>4, <2>1, <2>2, HeadTailProperties
  <2>4. i - 1 \in 1 .. Len(Tail(q)) BY <1>1, <2>1, <2>2, <2>3
  <2>5. << c >> \in Seq(C) /\ Len(<< c >>) = 1 OBVIOUS
  <2>6. /\ Len(<< c >> \o Tail(q)) = 1 + Len(Tail(q))
        /\ (<< c >> \o Tail(q))[i] = Tail(q)[i - 1]
    BY <1>1, <2>1, <2>2, <2>3, <2>5, ConcatProperties
  <2>7. i \in 1 .. Len(<< c >> \o Tail(q)) BY <1>1, <2>1, <2>3, <2>6
  <2>8. HasStop(<< c >> \o Tail(q)) BY <2>1, <2>3, <2>6, <2>7 DEF HasStop
  <2>9. HasStop(Tail(q)) BY <2>1, <2>3, <2>4 DEF HasStop
  <2>. QED BY <2>8, <2>9
<1>. QED BY <1>2, <1>3, <1>4

LEMMA KeptInit == Init => KeptInv
  BY PlayerAssumption DEF Init, KeptInv, Room, StopKept

(* A stop that was taken stays taken, and a player past its loops stays    *)
(* there.                                                                  *)
LEMMA TakenStays ==
  ASSUME PlayerInv, [Next]_vars, para.request_end \/ pc \in Past
  PROVE  para'.request_end \/ pc' \in Past
<1>1. CASE pc \in Past
  <2>1. CASE PlayerThread
    <3>1. Release0 \/ Closing \/ Exit
      BY <1>1, <2>1 DEF Past, PlayerThread, Begin, Open, Typed, DecInit, WaitStart, Prepare,
         GetMessage, WaitForFrame, Decide, Read, Hold, Promote, Write, Written, WaitEnd,
         EndDecide, EndUpdate, Leave, Reset
    <3>. QED BY <3>1 DEF Release0, Closing, Exit, Past
  <2>. QED BY <1>1, <2>1, WhoMoves
<1>2. CASE pc \notin Past
  <2>1. para.request_end /\ para \in Paras(Live, AnyCodec)
    BY <1>2 DEF PlayerInv, ParaOK, Past
  <2>2. CASE WaitStart \/ GetMessage
    <3>1. ASSUME queue # << >>, NEW p \in CheckMsg(para, Head(queue))
          PROVE  p.request_end /\ p \in Paras(Live, AnyCodec)
      <4>1. Head(queue) \in Command \cup {"STOP"}
        BY <3>1, HeadTailProperties DEF PlayerInv, QueueOK
      <4>2. CASE Head(queue) = "STOP" BY <2>1, <3>1, <4>1, <4>2, CheckMsgAsks, CheckMsgStays
      <4>3. CASE Head(queue) # "STOP" BY <2>1, <3>1, <4>1, <4>3, CheckMsgAsks, CheckMsgStays
      <4>. QED BY <4>2, <4>3
    <3>2. CASE GetMessage BY <2>1, <3>1, <3>2 DEF GetMessage
    <3>3. CASE WaitStart
      <4>1. CASE queue = << >> \/ Head(queue) = "START"
        BY <2>1, <3>3, <4>1 DEF WaitStart
      <4>2. CASE queue # << >> /\ Head(queue) # "START"
        <5>1. PICK p \in IF Head(queue) = "SEARCH" THEN {para} ELSE CheckMsg(para, Head(queue)) :
                para' = p \/ para' = [p EXCEPT !.status = EndStatus(p)]
          BY <3>3, <4>2 DEF WaitStart
        <5>2. p.request_end /\ p \in Paras(Live, AnyCodec) BY <2>1, <3>1, <4>2, <5>1
        <5>. QED BY <5>1, <5>2 DEF Paras
      <4>. QED BY <4>1, <4>2
    <3>. QED BY <2>2, <3>2, <3>3
  <2>3. CASE PlayerThread /\ ~WaitStart /\ ~GetMessage BY <2>1, <2>3, RequestStays
  <2>4. CASE MateThread BY <2>1, <2>4, MateEases DEF PlayerInv, Eases, Mild
  <2>5. CASE Controller \/ \E c \in Command : SendCommand(c)
    BY <2>1, <2>5 DEF Controller, Call, Interrupt, SendStop, Join, ExitJoin, SendCommand, notapp
  <2>6. CASE Gone \/ UNCHANGED vars BY <2>1, <2>6 DEF Gone, vars
  <2>. QED BY <2>2, <2>3, <2>4, <2>5, <2>6 DEF Next
<1>. QED BY <1>1, <1>2

(* What the player thread and the mate do to the ring: at most they take   *)
(* the oldest command, or make room on the way to release0.  A STOP they   *)
(* take is a stop taken.                                                   *)
LEMMA ReadersKeep ==
  ASSUME PlayerInv, PlayerThread \/ MateThread
  PROVE  /\ UNCHANGED <<ctl, op, sent>>
         /\ \/ queue' = queue
            \/ /\ queue # << >> /\ queue' = Tail(queue)
               /\ Head(queue) = "STOP" => para'.request_end
            \/ queue' \in AfterStop(queue) /\ pc' \in Past
<1>1. CASE MateThread
  BY <1>1 DEF MateThread, MateStart, MateCommand, MateCommit, MateNotices, MateConcludes,
     notmate, Ring!Take, ProxyCommand
<1>2. CASE Begin \/ Open \/ Typed \/ Prepare \/ WaitForFrame \/ Decide \/ Read \/ Hold \/ Promote
  BY <1>2 DEF Begin, Open, Typed, Prepare, WaitForFrame, Decide, Read, Hold, Promote, others
<1>3. CASE Write \/ Written \/ WaitEnd \/ EndDecide \/ EndUpdate \/ Leave \/ Reset \/ Closing \/ Exit
  BY <1>3 DEF Write, Written, WaitEnd, EndDecide, EndUpdate, Leave, Reset, Closing, Exit, others
<1>4. CASE DecInit BY <1>4 DEF DecInit, others, Past
<1>5. CASE Release0 BY <1>5 DEF Release0, others, Past
<1>6. ASSUME queue # << >>, Head(queue) = "STOP", NEW p \in CheckMsg(para, Head(queue)),
             para \in Paras(Live, AnyCodec)
      PROVE  p.request_end /\ p \in Paras(Live, AnyCodec)
  BY <1>6, CheckMsgAsks, CheckMsgStays
<1>7. ASSUME pc # "done" PROVE para \in Paras(Live, AnyCodec) BY <1>7 DEF PlayerInv, ParaOK
<1>8. CASE GetMessage
  <2>1. para \in Paras(Live, AnyCodec) BY <1>7, <1>8 DEF GetMessage
  <2>2. CASE queue = << >> BY <1>8, <2>2 DEF GetMessage, others
  <2>3. CASE queue # << >>
    <3>1. /\ UNCHANGED <<ctl, op, sent>> /\ queue' = Tail(queue)
          /\ para' \in CheckMsg(para, Head(queue))
      BY <1>8, <2>3 DEF GetMessage, others, Ring!Take
    <3>. QED BY <1>6, <2>1, <2>3, <3>1
  <2>. QED BY <2>2, <2>3
<1>9. CASE WaitStart
  <2>1. para \in Paras(Live, AnyCodec) BY <1>7, <1>9 DEF WaitStart
  <2>2. CASE queue = << >> BY <1>9, <2>2 DEF WaitStart, others
  <2>3. CASE queue # << >>
    <3>1. UNCHANGED <<ctl, op, sent>> /\ queue' = Tail(queue)
      BY <1>9, <2>3 DEF WaitStart, others, Ring!Take
    <3>2. ASSUME Head(queue) = "STOP" PROVE para'.request_end
      <4>1. PICK p \in CheckMsg(para, Head(queue)) :
              para' = p \/ para' = [p EXCEPT !.status = EndStatus(p)]
        BY <1>9, <2>3, <3>2 DEF WaitStart
      <4>2. p.request_end /\ p \in Paras(Live, AnyCodec) BY <1>6, <2>1, <2>3, <3>2, <4>1
      <4>. QED BY <4>1, <4>2 DEF Paras
    <3>. QED BY <2>3, <3>1, <3>2
  <2>. QED BY <2>2, <2>3
<1>. QED BY <1>1, <1>2, <1>3, <1>4, <1>5, <1>8, <1>9 DEF PlayerThread

(* Every step, of a ring that does not overflow. *)
LEMMA KeptStep ==
  ASSUME MaxCommands < MESSAGE_MAX, PlayerInv, KeptInv, [Next]_vars
  PROVE  KeptInv'
<1>. DEFINE C == Command \cup {"STOP"}
<1>1. /\ queue \in Seq(C) /\ Len(queue) \in Nat /\ sent \in Nat /\ sent <= MaxCommands
      /\ MaxCommands \in Nat /\ MESSAGE_MAX \in Nat
  BY LenProperties, PlayerAssumption DEF PlayerInv, QueueOK, RestOK
<1>2. ASSUME queue # << >> PROVE Tail(queue) \in Seq(C) /\ Len(Tail(queue)) = Len(queue) - 1
  BY <1>1, <1>2, HeadTailProperties
<1>3. ASSUME ctl = "join", ctl' = "join", HasStop(queue) => HasStop(queue') \/ para'.request_end
                                                           \/ pc' \in Past
      PROVE  StopKept'
  BY <1>3, TakenStays DEF KeptInv, StopKept
<1>4. CASE PlayerThread \/ MateThread
  <2>1. UNCHANGED <<ctl, op, sent>> BY <1>4, ReadersKeep
  <2>2. CASE queue' = queue
    <3>1. StopKept' BY <1>3, <2>1, <2>2 DEF StopKept
    <3>. QED BY <2>1, <2>2, <3>1 DEF KeptInv, Room
  <2>3. CASE /\ queue # << >> /\ queue' = Tail(queue)
             /\ Head(queue) = "STOP" => para'.request_end
    <3>1. HasStop(queue) => HasStop(queue') \/ para'.request_end
      BY <1>1, <2>3, HasStopStays
    <3>2. StopKept' BY <1>3, <2>1, <3>1 DEF StopKept
    <3>. QED BY <1>1, <1>2, <2>1, <2>3, <3>2 DEF KeptInv, Room
  <2>4. CASE queue' \in AfterStop(queue) /\ pc' \in Past
    <3>1. Len(queue') <= Len(queue) /\ Len(queue') \in Nat
      BY <1>1, <2>4, AfterStopKeeps, LenProperties
    <3>2. StopKept' BY <2>4 DEF StopKept
    <3>. QED BY <1>1, <2>1, <3>1, <3>2 DEF KeptInv, Room
  <2>. QED BY <1>4, <2>2, <2>3, <2>4, ReadersKeep
<1>5. CASE \E c \in Command : SendCommand(c)
  <2>1. PICK c \in Command : SendCommand(c) BY <1>5
  <2>2. sent < MaxCommands /\ sent' = sent + 1 /\ UNCHANGED <<pc, para, ctl, op>>
    BY <2>1 DEF SendCommand, notapp
  <2>3. Len(queue) < MESSAGE_MAX BY <1>1, <2>2 DEF KeptInv, Room
  <2>4. CASE queue' = Append(queue, c)
    <3>1. Len(queue') = Len(queue) + 1 BY <1>1, <2>4, AppendProperties
    <3>2. HasStop(queue) => HasStop(queue') BY <1>1, <2>4, HasStopStays
    <3>3. StopKept' BY <1>3, <2>2, <3>2 DEF StopKept
    <3>. QED BY <1>1, <2>2, <3>1, <3>3 DEF KeptInv, Room
  <2>5. CASE /\ queue # << >> /\ Head(queue) \in SearchCommand
             /\ queue' = << c >> \o Tail(queue)
    <3>1. Len(queue') = Len(queue)
      <4>1. << c >> \in Seq(C) /\ Len(<< c >>) = 1 OBVIOUS
      <4>. QED BY <1>1, <1>2, <2>5, <4>1, ConcatProperties
    <3>2. HasStop(queue) => HasStop(queue') BY <1>1, <2>5, HasStopStays DEF SearchCommand
    <3>3. StopKept' BY <1>3, <2>2, <3>2 DEF StopKept
    <3>. QED BY <1>1, <2>2, <3>1, <3>3 DEF KeptInv, Room
  <2>. QED BY <1>1, <2>1, <2>3, <2>4, <2>5 DEF SendCommand, Ring!Put, Ring!Amend
<1>6. CASE SendStop
  <2>1. /\ ctl = "send" /\ UNCHANGED <<pc, para, sent>>
        /\ ctl' = IF op = "stop_async" THEN "idle" ELSE "join"
        /\ op' = IF op = "stop_async" THEN "none" ELSE op
    BY <1>6 DEF SendStop, notapp
  <2>2. Len(queue) < MESSAGE_MAX BY <1>1, <2>1 DEF KeptInv, Room
  <2>3. queue' = Append(queue, "STOP") BY <1>1, <1>6, <2>2 DEF SendStop, Ring!Put
  <2>4. Len(queue') = Len(queue) + 1 /\ HasStop(queue')
    <3>1. "STOP" \in C OBVIOUS
    <3>2. Len(queue') = Len(queue) + 1 BY <1>1, <2>3, <3>1, AppendProperties
    <3>3. HasStop(queue') BY <1>1, <2>3, <3>1, HasStopStays
    <3>. QED BY <3>2, <3>3
  <2>5. CASE op = "stop_async"
    <3>1. ctl' = "idle" /\ op' = "none" /\ sent' = sent BY <2>1, <2>5
    <3>. QED BY <1>1, <2>1, <2>4, <2>5, <3>1 DEF KeptInv, Room, StopKept
  <2>6. CASE op # "stop_async"
    <3>1. ctl' = "join" /\ op' = op /\ sent' = sent BY <2>1, <2>6
    <3>. QED BY <1>1, <2>1, <2>4, <2>6, <3>1 DEF KeptInv, Room, StopKept
  <2>. QED BY <2>5, <2>6
<1>7. CASE Join
  <2>1. Len(queue') = 0 BY <1>7 DEF Join
  <2>. QED BY <1>1, <1>7, <2>1 DEF Join, KeptInv, Room, StopKept, notapp
<1>8. CASE Interrupt \/ ExitJoin
  BY <1>1, <1>8 DEF Interrupt, ExitJoin, KeptInv, Room, StopKept, notapp
<1>9. CASE \E o \in {"stop", "stop_async", "exit"} : Call(o)
  <2>1. PICK o \in {"stop", "stop_async", "exit"} : Call(o) BY <1>9
  <2>2. /\ ctl = "idle" /\ op = "none" /\ UNCHANGED queue
        /\ sent' = IF o = "stop_async" THEN sent + 1 ELSE sent
    BY <2>1 DEF Call, KeptInv
  <2>3. /\ ctl' \in {"exitjoin", "idle", "interrupt"}
        /\ ctl' = "interrupt" => op' = o
        /\ ctl' = "exitjoin" => op' = "exit"
        /\ ctl' = "idle" => op' = "none"
    <3>1. CASE para.status \in Stopped BY <2>1, <3>1 DEF Call
    <3>2. CASE para.status \notin Stopped BY <2>1, <3>2 DEF Call
    <3>. QED BY <3>1, <3>2
  <2>. QED BY <1>1, <2>1, <2>2, <2>3 DEF KeptInv, Room, StopKept
<1>10. CASE Gone \/ UNCHANGED vars
  BY <1>10 DEF Gone, vars, KeptInv, Room, StopKept
<1>. QED BY <1>4, <1>5, <1>6, <1>7, <1>8, <1>9, <1>10 DEF Next, Controller

(* When the ring has room for all that is sent, the STOP a player_stop or  *)
(* a player_exit waits for is in the ring until it is taken, whatever else *)
(* the player, the mate and the other senders do; a ring that overflows    *)
(* may give it up.                                                         *)
THEOREM PlayerStopKept ==
  ASSUME MaxCommands < MESSAGE_MAX
  PROVE  Spec => []StopKept
<1>1. ASSUME PlayerInv, KeptInv, [Next]_vars PROVE KeptInv' BY <1>1, KeptStep
<1>2. KeptInv => StopKept BY DEF KeptInv
<1>. QED BY <1>1, <1>2, KeptInit, PlayerInvariant, PTL DEF Spec
-----------------------------------------------------------------------------
(***************************************************************************)
(* What player_stop found stopped, or has stopped, stays so.               *)
(***************************************************************************)

(* A calm player to which nobody sends what starts it over or ends it from *)
(* outside: the loop mode, winding, or a seek past the end.                *)
Quiet == Calm /\ {"LOOP", "FF", "SEARCH_END", "SEARCH_RESET"} \cap Command = {}

Plain == {p \in Paras(Live, AnyCodec) : ~p.fast /\ ~p.reset}

(* The end is pending, and nothing that would start the player over. *)
Over(p) == p.end /\ ~p.loop /\ ~p.search /\ ~p.fast /\ ~p.reset

Unended == {"begin", "open", "typed", "decinit", "waitstart", "prepare", "flag", "endflag"}
Deciding == {"decide", "enddecide"}
Midway == {"read", "hold", "promote", "write", "written", "endupdate"}
Gate == {"waitend", "leave", "reset"}

(* Where an end and a seek may be pending: a seek that is taken is carried *)
(* straight to the reset, an end without a seek is one without the loop.   *)
EndsOnce(at, p) ==
  /\ at \in Unended => ~p.end /\ ~p.search
  /\ at \in Deciding => (p.search => p.end) /\ (p.end => p.search \/ ~p.loop)
  /\ at \in Midway => ~p.search
  /\ at \in Gate => (p.search => p.end)

(* A stopped status is shown, and success returned, only past that point. *)
FinalAt(at, p) == Over(p) /\ at \in (Midway \cup Gate) \ {"reset"}

FinalShown ==
  pc \notin Past =>
    /\ para \in Plain
    /\ EndsOnce(pc, para)
    /\ stop_ok \/ para.status \in Stopped => FinalAt(pc, para)

FinalInv == MateInside /\ (mate = "ending" => para.end) /\ FinalShown
-----------------------------------------------------------------------------
(* An update clears no end, sets no seek, and declares the end only where  *)
(* none was pending and the player does not loop.                          *)
LEMMA UpdatedOver ==
  ASSUME Calm, NEW p \in Plain, NEW q \in Updated(p)
  PROVE  /\ q \in Plain
         /\ q.loop = p.loop
         /\ q.search => p.search
         /\ p.end => q.end /\ q.search = p.search /\ (q.status \in Stopped => p.status \in Stopped)
         /\ p.status \notin Stopped /\ q.status \in Stopped => Over(q)
<1>. DEFINE Same(a, b) == /\ a.loop = b.loop /\ a.search = b.search /\ a.end = b.end
                          /\ a.fast = b.fast /\ a.reset = b.reset
<1>1. PICK b \in Buffered(p) : q \in Ended(b) BY DEF Updated
<1>2. b \in Paras(Live, AnyCodec) BY BufferedStays DEF Plain
<1>3. Same(b, p) /\ (b.status \in Stopped => p.status \in Stopped)
                 /\ (p.status \in Stopped => b = p)
  <2>. SUFFICES ASSUME b # p PROVE Same(b, p) /\ b.status \notin Stopped /\ p.status \notin Stopped
    OBVIOUS
  <2>1. PICK c \in AnyCodec, st \in {"RUNNING", "BUFFERING"} : b = Showing(p, c, st)
    BY <1>1, BufferedShape DEF Plain
  <2>2. p.status \in {"RUNNING", "BUFFERING"} BY <1>1 DEF Buffered
  <2>. QED BY <2>1, <2>2 DEF Showing, Plain, Paras, Stopped
<1>4. CASE q = b BY <1>2, <1>3, <1>4 DEF Plain, Over
<1>5. ASSUME EndNoticed(b), NEW n \in Noticed(b), q = Declared(n)
      PROVE  /\ ~p.end /\ q \in Plain /\ q.loop = p.loop /\ q.end
             /\ q.search => p.search
             /\ p.status \notin Stopped /\ q.status \in Stopped => Over(q)
  <2>1. ~p.end BY <1>3, <1>5 DEF EndNoticed, Calm
  <2>2. /\ n \in Paras(Live, AnyCodec) /\ n.end /\ n.loop = p.loop /\ ~n.fast /\ ~n.reset
        /\ n.search => p.search
        /\ n.status = b.status
    BY <1>2, <1>3, <1>5 DEF Noticed, Plain, Paras
  <2>3. CASE p.loop
    <3>1. q = n BY <1>5, <2>2, <2>3 DEF Declared
    <3>. QED BY <1>3, <2>1, <2>2, <3>1 DEF Plain
  <2>4. CASE ~p.loop
    <3>1. q \in Paras(Live, AnyCodec) BY <1>5, <2>2, DeclaredStays
    <3>2. /\ q.end /\ q.loop = p.loop /\ ~q.fast /\ ~q.reset /\ ~q.search
      BY <1>5, <2>2, <2>4 DEF Declared, Paras
    <3>. QED BY <2>1, <2>4, <3>1, <3>2 DEF Plain, Over
  <2>. QED BY <2>3, <2>4
<1>. QED BY <1>1, <1>4, <1>5 DEF Ended

(* What check_msg makes of a player without an end and a seek pending. *)
LEMMA CheckMsgOnce ==
  ASSUME Quiet, NEW p \in Plain, ~p.end, ~p.search, NEW c \in Command \cup {"STOP"},
         NEW q \in CheckMsg(p, c)
  PROVE  /\ q \in Plain
         /\ q.status = p.status
         /\ q.search => q.end /\ c = "SEARCH"
         /\ q.end => q.search \/ ~q.loop
<1>1. q \in Paras(Live, AnyCodec) BY CheckMsgStays DEF Plain
<1>2. CASE c = "STOP"
  <2>1. q \in Stopping(p) BY <1>2 DEF CheckMsg, SearchCommand, FastCommand
  <2>. QED BY <1>1, <2>1 DEF Stopping, Plain, Paras
<1>3. CASE c \in SearchCommand
  <2>1. c = "SEARCH" BY <1>3 DEF SearchCommand, Quiet, Calm
  <2>2. q \in Searched(p, c) BY <1>3 DEF CheckMsg, SearchCommand, FastCommand
  <2>3. CASE p.status = "SEARCHING"
    <3>1. q = [[p EXCEPT !.fast = FALSE, !.f_step = FALSE] EXCEPT !.search = TRUE, !.end = TRUE]
      BY <2>1, <2>2, <2>3 DEF Searched
    <3>. QED BY <1>1, <2>1, <3>1 DEF Plain, Paras
  <2>4. CASE p.status # "SEARCHING"
    <3>1. q = [p EXCEPT !.search = TRUE, !.end = TRUE] BY <2>1, <2>2, <2>4 DEF Searched
    <3>. QED BY <1>1, <2>1, <3>1 DEF Plain, Paras
  <2>. QED BY <2>3, <2>4
<1>4. CASE c \in FastCommand
  <2>1. c = "FF_OFF" BY <1>4 DEF FastCommand, Quiet
  <2>2. q \in Fast(p, c) BY <1>4 DEF CheckMsg, FastCommand, SearchCommand
  <2>3. q = p \/ q = [p EXCEPT !.init_ff_fr = FALSE, !.f_step = FALSE]
    BY <2>1, <2>2 DEF Fast
  <2>. QED BY <1>1, <2>3 DEF Plain, Paras
<1>5. CASE c \in ProxyCommand
  <2>1. \E b \in BOOLEAN : q \in {p, [p EXCEPT !.pause = b], [p EXCEPT !.loop = b]}
    BY <1>5 DEF CheckMsg, ProxyCommand, SearchCommand, FastCommand
  <2>. QED BY <1>1, <2>1 DEF Plain, Paras
<1>. QED BY <1>2, <1>3, <1>4, <1>5, PlayerAssumption

(* What the rest of check_flag makes of it. *)
LEMMA BrokenOver ==
  ASSUME NEW p \in Plain, p.end, p.search \/ ~p.loop, p.status \notin Stopped
  PROVE  /\ Broken(p) \in Plain /\ Broken(p).end
         /\ Broken(p).status \in Stopped => Over(Broken(p))
<1>1. Broken(p) \in Paras(Live, AnyCodec) BY BrokenStays DEF Plain
<1>2. CASE p.search BY <1>1, <1>2 DEF Broken, Plain
<1>3. CASE ~p.search
  <2>1. Broken(p) = [p EXCEPT !.status = EndStatus(p)] BY <1>3 DEF Broken, Plain
  <2>. QED BY <1>1, <1>3, <2>1 DEF Plain, Over, Paras
<1>. QED BY <1>2, <1>3

(* What a step that publishes a status and updates leaves as it was.       *)
Follows(q, p) ==
  /\ q \in Plain
  /\ q.loop = p.loop
  /\ q.search => p.search
  /\ p.end => q.end /\ q.search = p.search
  /\ q.status \in Stopped => Over(q)

LEMMA PublishedFollows ==
  ASSUME Calm, NEW p \in Plain, NEW c \in AnyCodec, NEW b \in BOOLEAN,
         NEW st \in Live \ Stopped,
         NEW r \in {[p EXCEPT !.codec = c, !.status = st], [p EXCEPT !.status = st],
                    [p EXCEPT !.pause = b, !.status = st]}
  PROVE  /\ Follows(r, p) /\ r.status = st
         /\ \A q \in Updated(r) : Follows(q, p) /\ (p.end => q.status \notin Stopped)
<1>1. /\ r \in Plain /\ r.status = st /\ r.end = p.end /\ r.search = p.search
      /\ r.loop = p.loop
  <2>1. CASE r = [p EXCEPT !.codec = c, !.status = st] BY <2>1 DEF Plain, Paras
  <2>2. CASE r = [p EXCEPT !.status = st] BY <2>2 DEF Plain, Paras
  <2>3. CASE r = [p EXCEPT !.pause = b, !.status = st] BY <2>3 DEF Plain, Paras
  <2>. QED BY <2>1, <2>2, <2>3
<1>2. ASSUME NEW q \in Updated(r)
      PROVE  Follows(q, p) /\ (p.end => q.status \notin Stopped)
  <2>1. /\ q \in Plain /\ q.loop = r.loop
        /\ q.search => r.search
        /\ r.end => q.end /\ q.search = r.search /\ (q.status \in Stopped => r.status \in Stopped)
        /\ r.status \notin Stopped /\ q.status \in Stopped => Over(q)
    BY <1>1, <1>2, UpdatedOver
  <2>. QED BY <1>1, <2>1 DEF Follows
<1>. QED BY <1>1, <1>2 DEF Follows

LEMMA GoesOnFollows ==
  ASSUME Calm, NEW p \in Plain, p.status \in Stopped => Over(p),
         NEW q \in GoesOn(p) \cup Promoted(p)
  PROVE  Follows(q, p)
<1>. DEFINE promoted == [p EXCEPT !.status = "RUNNING"]
<1>1. {"PAUSE", "RUNNING"} \subseteq Live \ Stopped BY Published DEF Stopped
<1>2. ASSUME NEW c \in AnyCodec, NEW st \in {"RUNNING", "PAUSE"},
             q \in Updated(Showing(p, c, st))
      PROVE  Follows(q, p)
  BY <1>1, <1>2, PublishedFollows DEF Showing
<1>3. \A r \in Updated(promoted) : Follows(r, p)
  <2>1. p.codec \in AnyCodec BY DEF Plain, Paras
  <2>. QED BY <1>1, <2>1, PublishedFollows
<1>4. Follows(p, p) BY DEF Follows
<1>5. CASE q \in GoesOn(p)
  <2>1. p \in Paras(Live, AnyCodec) BY DEF Plain
  <2>. QED BY <1>2, <1>4, <1>5, <2>1, GoesOnShape
<1>6. CASE q \in Promoted(p)
  <2>1. q \in {p} \cup Updated(promoted) BY <1>6 DEF Promoted
  <2>. HIDE DEF promoted
  <2>. QED BY <1>3, <1>4, <2>1
<1>. QED BY <1>5, <1>6

LEMMA UpdatedFollows ==
  ASSUME Calm, NEW p \in Plain, p.status \in Stopped => Over(p), NEW q \in Updated(p)
  PROVE  Follows(q, p)
<1>1. /\ q \in Plain /\ q.loop = p.loop
      /\ q.search => p.search
      /\ p.end => q.end /\ q.search = p.search /\ (q.status \in Stopped => p.status \in Stopped)
      /\ p.status \notin Stopped /\ q.status \in Stopped => Over(q)
  BY UpdatedOver
<1>2. Over(p) => Over(q) BY <1>1 DEF Over, Plain
<1>. QED BY <1>1, <1>2 DEF Follows

LEMMA SubtitleFollows ==
  ASSUME Calm, NEW p \in Plain, p.status \in Stopped => Over(p), NEW q \in SubtitleChecked(p)
  PROVE  Follows(q, p)
<1>. DEFINE r == [p EXCEPT !.status = "FOUND_SUB"]
<1>1. CASE q = p BY <1>1 DEF Follows
<1>2. CASE q \in Updated(r)
  <2>1. "FOUND_SUB" \in Live \ Stopped BY Published DEF Stopped
  <2>2. p.codec \in AnyCodec BY DEF Plain, Paras
  <2>. QED BY <1>2, <2>1, <2>2, PublishedFollows
<1>. QED BY <1>1, <1>2 DEF SubtitleChecked

LEMMA FollowsOver ==
  ASSUME NEW p, NEW q, Follows(q, p), Over(p)
  PROVE  Over(q)
  BY DEF Follows, Over, Plain
-----------------------------------------------------------------------------
(* The places a step may lead to. *)
LEMMA FinalMidway ==
  ASSUME para' \in Plain, ~para'.search, pc' \in (Midway \cup Gate) \ {"reset"},
         stop_ok' \/ para'.status \in Stopped => Over(para')
  PROVE  FinalShown'
  BY DEF FinalShown, FinalAt, EndsOnce, Unended, Deciding, Midway, Gate

LEMMA FinalElsewhere ==
  ASSUME para' \in Plain, EndsOnce(pc, para)', ~stop_ok', para'.status \notin Stopped
  PROVE  FinalShown'
  BY DEF FinalShown

LEMMA FinalPast == ASSUME pc' \in Past PROVE FinalShown'
  BY DEF FinalShown

(* The first state. *)
LEMMA FinalInit == Init => FinalInv
<1>. SUFFICES ASSUME Init PROVE FinalInv OBVIOUS
<1>1. para \in Paras(Live, AnyCodec) BY InitInv DEF Init, PlayerInv, ParaOK
<1>2. para \in Plain BY <1>1 DEF Init, Plain
<1>3. EndsOnce(pc, para) BY DEF Init, EndsOnce, Unended, Deciding, Midway, Gate
<1>4. ~stop_ok /\ para.status \notin Stopped BY DEF Init, Stopped
<1>. QED BY <1>2, <1>3, <1>4 DEF Init, FinalInv, FinalShown, MateInside, Working

(* The player thread until it plays: nothing ends it but what leads to     *)
(* release0.                                                               *)
LEMMA StartFinal ==
  ASSUME Quiet, PlayerInv, FinalInv,
         Begin \/ Open \/ Typed \/ DecInit \/ WaitStart \/ Prepare
  PROVE  FinalShown'
<1>1. pc \in Unended \ {"flag", "endflag"} /\ stop_ok' = stop_ok
  BY DEF Begin, Open, Typed, DecInit, WaitStart, Prepare, Unended, others
<1>2. para \in Plain /\ ~para.end /\ ~para.search /\ ~stop_ok /\ para.status \notin Stopped
  BY <1>1 DEF FinalInv, FinalShown, FinalAt, EndsOnce, Unended, Past, Midway, Gate
<1>3. ASSUME para' \in Plain, ~para'.end, ~para'.search, para'.status \notin Stopped,
             pc' \in Unended
      PROVE  FinalShown'
  BY <1>1, <1>2, <1>3 DEF FinalShown, EndsOnce, Unended, Deciding, Midway, Gate
<1>4. ASSUME NEW st \in {"INITING", "TYPE_REDY", "INITOK"}, NEW b \in BOOLEAN,
             NEW p \in {[para EXCEPT !.status = st], [para EXCEPT !.status = st, !.loop = b]}
      PROVE  p \in Plain /\ ~p.end /\ ~p.search /\ p.status \notin Stopped
  BY <1>2, <1>4, Published DEF Plain, Paras, Opening, Stopped
<1>5. CASE Begin
  <2>1. ("loop_mode" \in Can) \in BOOLEAN OBVIOUS
  <2>2. ASSUME NEW b \in BOOLEAN, para' = [para EXCEPT !.status = "INITING", !.loop = b]
        PROVE  FinalShown'
    BY <1>3, <1>4, <1>5, <2>2 DEF Begin, Unended
  <2>. QED BY <1>5, <2>1, <2>2, Zenon DEF Begin
<1>6. CASE Open
  <2>1. CASE para' = [para EXCEPT !.status = "TYPE_REDY"] /\ pc' = "typed"
    BY <1>3, <1>4, <2>1 DEF Unended
  <2>2. CASE Fail BY <2>2, FinalPast DEF Fail, Past
  <2>. QED BY <1>6, <2>1, <2>2 DEF Open
<1>7. CASE Typed BY <1>2, <1>3, <1>7, FinalPast DEF Typed, Unended, Past
<1>8. CASE DecInit
  <2>1. CASE para' = [para EXCEPT !.status = "INITOK"] /\ pc' \in {"waitstart", "prepare"}
    BY <1>3, <1>4, <2>1 DEF Unended
  <2>2. CASE pc' = "release0" BY <2>2, FinalPast DEF Past
  <2>. QED BY <1>8, <2>1, <2>2 DEF DecInit, Fail
<1>9. CASE WaitStart
  <2>1. CASE pc' = "release0" BY <2>1, FinalPast DEF Past
  <2>2. CASE para' = para /\ pc' \in {"waitstart", "prepare"}
    BY <1>2, <1>3, <2>2 DEF Unended
  <2>3. CASE /\ queue # << >> /\ Head(queue) \notin {"START", "SEARCH"}
             /\ pc' = "waitstart" /\ para' \in CheckMsg(para, Head(queue))
             /\ ~(para'.end /\ ~para'.search)
    <3>1. Head(queue) \in Command \cup {"STOP"}
      BY <2>3, HeadTailProperties DEF PlayerInv, QueueOK
    <3>2. /\ para' \in Plain /\ para'.status = para.status
          /\ para'.search => para'.end /\ Head(queue) = "SEARCH"
      BY <1>2, <2>3, <3>1, CheckMsgOnce
    <3>. QED BY <1>2, <1>3, <2>3, <3>2 DEF Unended
  <2>4. CASE queue # << >>
    <3>1. CASE Head(queue) = "START" BY <1>9, <2>2, <2>4, <3>1 DEF WaitStart
    <3>2. CASE Head(queue) # "START"
      <4>1. CASE Head(queue) = "SEARCH"
        BY <1>2, <1>9, <2>1, <2>2, <2>4, <4>1 DEF WaitStart
      <4>2. CASE Head(queue) # "SEARCH"
        BY <1>9, <2>1, <2>3, <2>4, <3>2, <4>2 DEF WaitStart
      <4>. QED BY <4>1, <4>2
    <3>. QED BY <3>1, <3>2
  <2>. QED BY <1>9, <2>2, <2>4 DEF WaitStart
<1>10. CASE Prepare
  <2>1. CASE Fail BY <2>1, FinalPast DEF Fail, Past
  <2>2. CASE para' = [para EXCEPT !.status = "START", !.codec = "running"] /\ pc' = "flag"
    <3>1. para' \in Plain /\ ~para'.end /\ ~para'.search /\ para'.status \notin Stopped
      BY <1>2, <2>2, Published DEF Plain, Paras, AnyCodec, Usable, Stopped
    <3>. QED BY <1>3, <2>2, <3>1 DEF Unended
  <2>. QED BY <1>10, <2>1, <2>2 DEF Prepare
<1>. QED BY <1>5, <1>6, <1>7, <1>8, <1>9, <1>10

(* check_flag, in both loops. *)
LEMMA FlagFinal ==
  ASSUME Quiet, PlayerInv, FinalInv, GetMessage \/ WaitForFrame \/ Decide \/ EndDecide
  PROVE  FinalShown'
<1>1. pc \in {"flag", "endflag"} \cup Deciding /\ stop_ok' = stop_ok
  BY DEF GetMessage, WaitForFrame, Decide, EndDecide, Deciding, others
<1>2. para \in Plain /\ EndsOnce(pc, para) /\ ~stop_ok /\ para.status \notin Stopped
  BY <1>1 DEF FinalInv, FinalShown, FinalAt, Deciding, Past, Midway, Gate
<1>3. ASSUME pc \in {"flag", "endflag"} PROVE ~para.end /\ ~para.search
  BY <1>2, <1>3 DEF EndsOnce, Unended
<1>4. ASSUME pc \in Deciding
      PROVE  /\ para.search => para.end
             /\ para.end => para.search \/ ~para.loop
             /\ Breaks(para) <=> para.end
  BY <1>2, <1>4 DEF EndsOnce, Plain, Breaks
<1>5. CASE GetMessage
  <2>1. pc' \in Deciding BY <1>5 DEF GetMessage, Decision, Deciding
  <2>2. /\ para' \in Plain /\ para'.status = para.status
        /\ para'.search => para'.end
        /\ para'.end => para'.search \/ ~para'.loop
    <3>1. CASE queue = << >> BY <1>2, <1>3, <1>5, <3>1 DEF GetMessage
    <3>2. CASE queue # << >>
      <4>1. Head(queue) \in Command \cup {"STOP"}
        BY <3>2, HeadTailProperties DEF PlayerInv, QueueOK
      <4>2. para' \in CheckMsg(para, Head(queue)) BY <1>5, <3>2 DEF GetMessage
      <4>. QED BY <1>2, <1>3, <1>5, <4>1, <4>2, CheckMsgOnce DEF GetMessage
    <3>. QED BY <3>1, <3>2
  <2>3. EndsOnce(pc, para)'
    BY <2>1, <2>2 DEF EndsOnce, Unended, Deciding, Midway, Gate
  <2>. QED BY <1>1, <1>2, <2>2, <2>3, FinalElsewhere
<1>6. CASE WaitForFrame
  <2>1. pc' \in Midway /\ para' = para
    BY <1>6 DEF WaitForFrame, ReadNext, Midway
  <2>. QED BY <1>1, <1>2, <1>3, <1>6, <2>1, FinalMidway DEF WaitForFrame, Midway
<1>7. CASE Decide
  <2>1. pc \in Deciding BY <1>7 DEF Decide, Deciding
  <2>2. CASE para.end
    <3>1. para' = Broken(para) /\ pc' = "waitend" BY <1>4, <1>7, <2>1, <2>2 DEF Decide
    <3>2. /\ para' \in Plain /\ para'.end
          /\ para'.status \in Stopped => Over(para')
      BY <1>2, <1>4, <2>1, <2>2, <3>1, BrokenOver
    <3>. QED BY <1>1, <1>2, <3>1, <3>2
         DEF FinalShown, FinalAt, EndsOnce, Unended, Deciding, Midway, Gate
  <2>3. CASE ~para.end
    <3>1. para' \in GoesOn(para) /\ pc' \in Midway
      BY <1>4, <1>7, <2>1, <2>3 DEF Decide, ReadNext, Midway
    <3>2. Follows(para', para) BY <1>2, <3>1, GoesOnFollows DEF Quiet
    <3>3. para' \in Plain /\ ~para'.search /\ (para'.status \in Stopped => Over(para'))
      BY <1>4, <2>1, <2>3, <3>2 DEF Follows
    <3>. QED BY <1>1, <1>2, <3>1, <3>3, FinalMidway DEF Midway
  <2>. QED BY <2>2, <2>3
<1>8. CASE EndDecide
  <2>1. pc \in Deciding BY <1>8 DEF EndDecide, Deciding
  <2>2. CASE para.end
    <3>. DEFINE p == Broken(para)
    <3>1. /\ para' = [p EXCEPT !.read_end = IF p.search \/ p.fast THEN FALSE ELSE @]
          /\ pc' = "leave"
      BY <1>4, <1>8, <2>1, <2>2 DEF EndDecide
    <3>2. /\ p \in Plain /\ p.end
          /\ p.status \in Stopped => Over(p)
      BY <1>2, <1>4, <2>1, <2>2, BrokenOver
    <3>3. (IF p.search \/ p.fast THEN FALSE ELSE p.read_end) \in BOOLEAN
      BY <3>2 DEF Plain, Paras
    <3>. HIDE DEF p
    <3>4. \A b \in BOOLEAN : LET q == [p EXCEPT !.read_end = b]
                             IN  /\ q \in Plain /\ q.end
                                 /\ q.status \in Stopped => Over(q)
      BY <3>2 DEF Plain, Paras, Over
    <3>5. /\ para' \in Plain /\ para'.end
          /\ para'.status \in Stopped => Over(para')
      BY <3>1, <3>3, <3>4, Zenon
    <3>. QED BY <1>1, <1>2, <3>1, <3>5
         DEF FinalShown, FinalAt, EndsOnce, Unended, Deciding, Midway, Gate
  <2>3. CASE ~para.end
    <3>1. para' \in GoesOn(para) /\ pc' \in {"waitend", "endupdate"}
      BY <1>4, <1>8, <2>1, <2>3 DEF EndDecide
    <3>2. Follows(para', para) BY <1>2, <3>1, GoesOnFollows DEF Quiet
    <3>3. para' \in Plain /\ ~para'.search /\ (para'.status \in Stopped => Over(para'))
      BY <1>4, <2>1, <2>3, <3>2 DEF Follows
    <3>. QED BY <1>1, <1>2, <3>1, <3>3, FinalMidway DEF Midway, Gate
  <2>. QED BY <2>2, <2>3
<1>. QED BY <1>5, <1>6, <1>7, <1>8

(* Between check_flag and the wait for the end no seek is pending, and     *)
(* what is over stays over.                                                *)
LEMMA PlayFinal ==
  ASSUME Quiet, PlayerInv, FinalInv,
         Read \/ Hold \/ Promote \/ Write \/ Written \/ EndUpdate
  PROVE  FinalShown'
<1>1. pc \in Midway /\ stop_ok' = stop_ok
  BY DEF Read, Hold, Promote, Write, Written, EndUpdate, Midway, others
<1>2. /\ para \in Plain /\ ~para.search
      /\ stop_ok \/ para.status \in Stopped => Over(para)
  BY <1>1 DEF FinalInv, FinalShown, FinalAt, EndsOnce, Midway, Past
<1>3. ASSUME Follows(para', para), pc' \in (Midway \cup Gate) \ {"reset"} PROVE FinalShown'
  <2>1. stop_ok => Over(para') BY <1>2, <1>3, FollowsOver
  <2>. QED BY <1>1, <1>2, <1>3, <2>1, FinalMidway DEF Follows
<1>4. Follows(para, para) BY <1>2 DEF Follows
<1>5. ASSUME Fail PROVE FinalShown' BY <1>5, FinalPast DEF Fail, Past
<1>6. \A q \in Updated(para) : Follows(q, para) BY <1>2, UpdatedFollows DEF Quiet
<1>7. CASE Read
  <2>1. Follows([para EXCEPT !.read_end = TRUE], para)
    BY <1>2 DEF Follows, Over, Plain, Paras
  <2>. QED BY <1>3, <1>4, <1>5, <1>7, <2>1 DEF Read, Midway
<1>8. CASE Hold BY <1>3, <1>4, <1>8 DEF Hold, Midway
<1>9. CASE Promote BY <1>2, <1>3, <1>9, GoesOnFollows DEF Promote, Quiet, Midway
<1>10. CASE Write BY <1>3, <1>4, <1>5, <1>10 DEF Write, Midway, Gate, Quiet, Calm
<1>11. CASE Written
  <2>1. CASE Fail BY <1>5, <2>1
  <2>2. CASE ~Fail
    <3>1. PICK v \in Updated(para) : \E d \in DecoderChecked(v) : \E p \in SubtitleChecked(d) :
            /\ \/ para' = p
               \/ p.fast /\ para' \in Updated([p EXCEPT !.end = TRUE])
            /\ pc' = IF para'.end THEN "waitend" ELSE "flag"
      BY <1>11, <2>2 DEF Written
    <3>2. PICK u \in SubtitleChecked(v) :
            /\ \/ para' = u
               \/ u.fast /\ para' \in Updated([u EXCEPT !.end = TRUE])
            /\ pc' = IF para'.end THEN "waitend" ELSE "flag"
      <4>1. DecoderChecked(v) = {v} BY DecoderQuiet DEF Quiet, Calm
      <4>. QED BY <3>1, <4>1
    <3>3. Follows(u, para) /\ ~u.fast
      <4>1. Follows(v, para) /\ v \in Plain BY <1>6 DEF Follows
      <4>2. Follows(u, v) BY <4>1, SubtitleFollows DEF Quiet, Follows
      <4>. QED BY <4>1, <4>2 DEF Follows, Plain
    <3>4. para' = u /\ pc' = IF para'.end THEN "waitend" ELSE "flag"
      BY <3>1, <3>2, <3>3
    <3>5. CASE para'.end BY <1>3, <3>3, <3>4, <3>5 DEF Gate
    <3>6. CASE ~para'.end
      <4>1. ~stop_ok /\ para'.status \notin Stopped
        BY <1>2, <3>3, <3>4, <3>6, FollowsOver DEF Follows, Over
      <4>2. para' \in Plain /\ ~para'.search BY <1>2, <3>3, <3>4 DEF Follows
      <4>3. EndsOnce(pc, para)'
        BY <3>4, <3>6, <4>2 DEF EndsOnce, Unended, Deciding, Midway, Gate
      <4>. QED BY <1>1, <4>1, <4>2, <4>3, FinalElsewhere
    <3>. QED BY <3>5, <3>6
  <2>. QED BY <2>1, <2>2
<1>12. CASE EndUpdate BY <1>3, <1>4, <1>6, <1>12 DEF EndUpdate, Gate
<1>. QED BY <1>7, <1>8, <1>9, <1>10, <1>11, <1>12

(* From the wait for the end on. *)
LEMMA EndFinal ==
  ASSUME Quiet, PlayerInv, FinalInv,
         WaitEnd \/ Leave \/ Reset \/ Release0 \/ Closing \/ Exit
  PROVE  FinalShown'
<1>1. stop_ok' = stop_ok
  BY DEF WaitEnd, Leave, Reset, Release0, Closing, Exit, others
<1>2. ASSUME pc \in Gate
      PROVE  /\ para \in Plain
             /\ para.search => para.end
             /\ stop_ok \/ para.status \in Stopped => Over(para) /\ pc # "reset"
  BY <1>2 DEF FinalInv, FinalShown, FinalAt, EndsOnce, Gate, Past
<1>3. CASE WaitEnd
  <2>1. pc = "waitend" BY <1>3 DEF WaitEnd
  <2>2. CASE para.end
    <3>1. para' = para /\ pc' = "leave" BY <1>3, <2>2 DEF WaitEnd
    <3>. QED BY <1>1, <1>2, <2>1, <2>2, <3>1
         DEF FinalShown, FinalAt, EndsOnce, Unended, Deciding, Midway, Gate
  <2>3. CASE ~para.end
    <3>1. para' = para /\ pc' = "endflag" BY <1>3, <2>3, DecoderQuiet DEF WaitEnd, Quiet, Calm
    <3>2. ~stop_ok /\ para.status \notin Stopped BY <1>2, <2>1, <2>3 DEF Over, Gate
    <3>. QED BY <1>1, <1>2, <2>1, <2>3, <3>1, <3>2
         DEF FinalShown, EndsOnce, Unended, Deciding, Midway, Gate
  <2>. QED BY <2>2, <2>3
<1>4. CASE Leave
  <2>1. CASE pc' = "release0" BY <2>1, FinalPast DEF Past
  <2>2. CASE pc' = "reset"
    <3>1. pc = "leave" /\ ~Leaves(para) BY <1>4, <2>2 DEF Leave
    <3>2. /\ para \in Plain
          /\ para.search => para.end
          /\ ~stop_ok /\ para.status \notin Stopped
      BY <1>2, <3>1 DEF Over, Leaves, Gate
    <3>3. /\ para' \in Plain /\ para'.status \notin Stopped
          /\ para'.search => para'.end
      <4>1. CASE para' = para BY <3>2, <4>1
      <4>2. CASE para' \in Updated([para EXCEPT !.status = "SEARCHING"])
        <5>1. /\ Follows(para', para)
              /\ para.end => para'.status \notin Stopped
          <6>1. "SEARCHING" \in Live \ Stopped BY Published DEF Stopped
          <6>2. \A r \in Updated([para EXCEPT !.status = "SEARCHING"]) :
                  Follows(r, para) /\ (para.end => r.status \notin Stopped)
            BY <3>2, <6>1, PublishedFollows DEF Quiet, AnyCodec
          <6>. QED BY <4>2, <6>2
        <5>2. para.loop => para'.status \notin Stopped BY <5>1 DEF Follows, Over
        <5>3. para.end \/ para.loop BY <3>1, <3>2 DEF Leaves, Plain
        <5>. QED BY <3>2, <5>1, <5>2, <5>3 DEF Follows
      <4>. QED BY <1>4, <2>2, <4>1, <4>2 DEF Leave
    <3>. QED BY <1>1, <2>2, <3>2, <3>3
         DEF FinalShown, EndsOnce, Unended, Deciding, Midway, Gate
  <2>. QED BY <1>4, <2>1, <2>2 DEF Leave
<1>5. CASE Reset
  <2>1. CASE pc' = "release0" BY <2>1, FinalPast DEF Past
  <2>2. CASE pc' = "flag"
    <3>1. pc = "reset" /\ para \in Plain /\ ~stop_ok /\ para.status \notin Stopped
      BY <1>2, <1>5 DEF Reset, Gate
    <3>2. Restarted(para) = {Fresh(para)} BY <3>1 DEF Restarted, Plain
    <3>. DEFINE p == Fresh(para)
    <3>3. para' = Served(p) BY <1>5, <2>2, <3>2 DEF Reset
    <3>4. p \in Paras(Live, Usable) BY <3>1, RestartedStays DEF Plain
    <3>5. p.status = para.status /\ ~p.fast BY <3>1 DEF Fresh, Plain, Paras
    <3>. HIDE DEF p
    <3>6. para' \in Paras(Live, AnyCodec) BY <3>3, <3>4, ServedStays, ParasGrow
    <3>7. /\ para'.status \in {"SEARCHOK", para.status} /\ ~para'.search /\ ~para'.end
          /\ ~para'.fast /\ ~para'.reset
      BY <3>3, <3>4, <3>5 DEF Served, Paras
    <3>. QED BY <1>1, <2>2, <3>1, <3>6, <3>7
         DEF FinalShown, EndsOnce, Plain, Stopped, Unended, Deciding, Midway, Gate
  <2>. QED BY <1>5, <2>1, <2>2 DEF Reset
<1>6. CASE Release0 \/ Closing \/ Exit
  BY <1>6, FinalPast DEF Release0, Closing, Exit, Past
<1>. QED BY <1>3, <1>4, <1>5, <1>6

(* The mate, which works while the player thread reads or holds. *)
LEMMA MateFinal ==
  ASSUME Quiet, PlayerInv, FinalInv, MateThread
  PROVE  FinalShown' /\ (mate' = "ending" => para'.end)
<1>1. /\ mate \in {"posted", "awake"} \cup Working
      /\ pc' = pc /\ stop_ok' = stop_ok
  BY DEF MateThread, MateStart, MateCommand, MateCommit, MateNotices, MateConcludes, notmate,
     Working
<1>2. pc \in {"read", "hold"} BY <1>1 DEF FinalInv, MateInside
<1>3. /\ para \in Plain /\ ~para.search
      /\ stop_ok \/ para.status \in Stopped => Over(para)
  BY <1>2 DEF FinalInv, FinalShown, FinalAt, EndsOnce, Midway, Past
<1>4. ASSUME para' \in Plain, ~para'.search, Over(para) => Over(para'),
             para'.status \in Stopped => Over(para') \/ para' = para \/ para'.status = para.status
      PROVE  FinalShown'
  BY <1>1, <1>2, <1>3, <1>4, FinalMidway DEF Midway
<1>5. ASSUME Follows(para', para) PROVE FinalShown'
  <2>1. Over(para) => Over(para') BY <1>5, FollowsOver
  <2>. QED BY <1>3, <1>4, <1>5, <2>1 DEF Follows
<1>6. ASSUME NEW c \in AnyCodec, para' = [para EXCEPT !.codec = c] PROVE FinalShown'
  <2>1. para' \in Plain /\ ~para'.search /\ para'.status = para.status /\ (Over(para) => Over(para'))
    BY <1>3, <1>6 DEF Plain, Paras, Over
  <2>. QED BY <1>4, <2>1
<1>7. /\ Codecs(para.codec, "running") \subseteq AnyCodec
      /\ Codecs(para.codec, "paused") \subseteq AnyCodec
  <2>1. para.codec \in AnyCodec BY <1>3 DEF Plain, Paras
  <2>. QED BY <2>1, CodecStays
<1>8. {"PAUSE", "RUNNING", "BUFFERING"} \subseteq Live \ Stopped BY Published DEF Stopped
<1>9. CASE MateStart BY <1>3, <1>4, <1>9 DEF MateStart
<1>10. CASE MateCommand
  <2>1. mate' # "ending" BY <1>10 DEF MateCommand
  <2>2. CASE \E c \in AnyCodec : para' = [para EXCEPT !.codec = c]
    BY <1>6, <2>1, <2>2
  <2>3. CASE para' = para BY <1>3, <1>4, <2>1, <2>3
  <2>4. CASE Head(queue) \in {"LOOP", "NOLOOP"} /\ Head(queue) \in ProxyCommand
             /\ queue # << >> /\ para' = [para EXCEPT !.loop = (Head(queue) = "LOOP")]
    <3>1. Head(queue) \in Command \cup {"STOP"}
      BY <2>4, HeadTailProperties DEF PlayerInv, QueueOK
    <3>2. Head(queue) # "LOOP" BY <2>4, <3>1 DEF Quiet
    <3>3. para' = [para EXCEPT !.loop = FALSE] BY <2>4, <3>2
    <3>4. /\ para' \in Plain /\ ~para'.search /\ para'.status = para.status
          /\ Over(para) => Over(para')
      BY <1>3, <3>3 DEF Plain, Paras, Over
    <3>. QED BY <1>4, <2>1, <3>4
  <2>. QED BY <1>7, <1>10, <2>2, <2>3, <2>4 DEF MateCommand
<1>11. CASE MateCommit
  <2>1. CASE para' \in Updated([para EXCEPT !.pause = TRUE, !.status = "PAUSE"])
    BY <1>3, <1>5, <1>8, <1>11, <2>1, PublishedFollows DEF MateCommit, Quiet, AnyCodec
  <2>2. CASE para' \in Updated([para EXCEPT !.pause = FALSE, !.status = "RUNNING"])
    BY <1>3, <1>5, <1>8, <1>11, <2>2, PublishedFollows DEF MateCommit, Quiet, AnyCodec
  <2>. QED BY <1>11, <2>1, <2>2 DEF MateCommit
<1>12. CASE MateNotices
  <2>1. CASE mate' # "ending" /\ \E c \in AnyCodec : para' = [para EXCEPT !.codec = c]
    BY <1>6, <2>1
  <2>2. CASE para' \in Noticed(para)
    <3>1. /\ para' \in Plain /\ ~para'.search /\ para'.end /\ para'.status = para.status
          /\ Over(para) => Over(para')
      BY <1>3, <2>2 DEF Noticed, Plain, Paras, Over
    <3>. QED BY <1>4, <3>1
  <2>. QED BY <1>7, <1>12, <2>1, <2>2 DEF MateNotices
<1>13. CASE MateConcludes
  <2>1. CASE para' \in {[para EXCEPT !.status = "BUFFERING"], [para EXCEPT !.status = "RUNNING"]}
    <3>1. \A st \in Live \ Stopped : Follows([para EXCEPT !.status = st], para)
      BY <1>3, PublishedFollows DEF Quiet, AnyCodec
    <3>. QED BY <1>5, <1>8, <1>13, <2>1, <3>1 DEF MateConcludes
  <2>2. CASE mate = "ending" /\ para' = Declared(para)
    <3>1. para.end /\ mate' # "ending" BY <1>13, <2>2 DEF FinalInv, MateConcludes
    <3>2. CASE para.loop BY <1>3, <1>4, <2>2, <3>1, <3>2 DEF Declared
    <3>3. CASE ~para.loop
      <4>1. para' \in Paras(Live, AnyCodec) BY <1>3, <2>2, DeclaredStays DEF Plain
      <4>2. Over(para') /\ ~para'.search
        BY <1>3, <2>2, <3>1, <3>3 DEF Declared, Plain, Paras, Over
      <4>. QED BY <1>4, <3>1, <4>1, <4>2 DEF Plain, Over
    <3>. QED BY <3>2, <3>3
  <2>. QED BY <1>13, <2>1, <2>2 DEF MateConcludes
<1>. QED BY <1>9, <1>10, <1>11, <1>12, <1>13 DEF MateThread

(* The application.  player_stop returns success for a player that shows a *)
(* stopped status, or after the thread has ended.                          *)
LEMMA ApplicationFinal ==
  ASSUME FinalInv, Controller \/ \E c \in Command : SendCommand(c)
  PROVE  FinalShown'
<1>1. para' = para /\ pc' = pc
  BY DEF Controller, Call, Interrupt, SendStop, Join, ExitJoin, SendCommand, notapp
<1>2. stop_ok' => stop_ok \/ para.status \in Stopped \/ pc = "done"
  BY DEF Controller, Call, Interrupt, SendStop, Join, ExitJoin, SendCommand
<1>3. EndsOnce(pc, para)' <=> EndsOnce(pc, para) BY <1>1 DEF EndsOnce
<1>4. FinalAt(pc, para)' <=> FinalAt(pc, para) BY <1>1 DEF FinalAt, Over
<1>. QED BY <1>1, <1>2, <1>3, <1>4 DEF FinalInv, FinalShown, Past

(* Every step. *)
LEMMA FinalStep ==
  ASSUME Quiet, PlayerInv, FinalInv, [Next]_vars
  PROVE  FinalInv'
<1>1. MateInside' BY MateInsideStep DEF FinalInv, Quiet, Calm
<1>2. ASSUME PlayerThread PROVE FinalShown' /\ (mate' = "ending" => para'.end)
  <2>1. FinalShown'
    BY <1>2, StartFinal, FlagFinal, PlayFinal, EndFinal DEF PlayerThread
  <2>2. mate' # "ending"
    <3>1. CASE Read \/ Hold
      BY <3>1 DEF Read, Hold, MateSleeps
    <3>2. ASSUME ~(Read \/ Hold) PROVE pc \notin {"read", "hold"} /\ mate' \in {mate, "asleep", "posted", "none"}
      BY <1>2, <3>2 DEF PlayerThread, Begin, Open, Typed, DecInit, WaitStart, Prepare,
         GetMessage, WaitForFrame, Decide, Promote, Write, Written, WaitEnd, EndDecide,
         EndUpdate, Leave, Reset, Release0, Closing, Exit, ReadNext, others
    <3>. QED BY <3>1, <3>2 DEF FinalInv, MateInside, Working
  <2>. QED BY <2>1, <2>2
<1>3. ASSUME MateThread PROVE FinalShown' /\ (mate' = "ending" => para'.end)
  BY <1>3, MateFinal
<1>4. ASSUME Controller \/ \E c \in Command : SendCommand(c)
      PROVE  FinalShown' /\ (mate' = "ending" => para'.end)
  <2>1. para' = para /\ mate' = mate
    BY <1>4 DEF Controller, Call, Interrupt, SendStop, Join, ExitJoin, SendCommand, notapp
  <2>. QED BY <1>4, <2>1, ApplicationFinal DEF FinalInv
<1>5. ASSUME Gone \/ UNCHANGED vars PROVE FinalShown' /\ (mate' = "ending" => para'.end)
  BY <1>5 DEF Gone, vars, FinalInv, FinalShown, FinalAt, Over, EndsOnce
<1>. QED BY <1>1, <1>2, <1>3, <1>4, <1>5 DEF Next, FinalInv

(* FinalInv is an invariant of every quiet player: a stopped status, and a *)
(* player_stop that has returned, are only seen where nothing is left that *)
(* would start the player over.                                            *)
THEOREM FinalInvariant ==
  ASSUME Quiet
  PROVE  Spec => []FinalInv
<1>1. ASSUME PlayerInv, FinalInv, [Next]_vars PROVE FinalInv'
  BY <1>1, FinalStep
<1>. QED BY <1>1, FinalInit, PlayerInvariant, PTL DEF Spec

(* After player_stop has returned success, for the status it saw or for    *)
(* the thread it joined, a quiet player does not come to the reset again.  *)
THEOREM PlayerStopIsFinal ==
  ASSUME Quiet
  PROVE  Spec => StopIsFinal
<1>1. ASSUME FinalInv, [Next]_vars, stop_ok PROVE pc' # "reset" \/ UNCHANGED vars
  <2>1. pc # "reset" /\ (pc = "leave" => Leaves(para))
    BY <1>1 DEF FinalInv, FinalShown, FinalAt, Over, Leaves, Past
  <2>2. CASE PlayerThread
    <3>1. CASE \/ Begin \/ Open \/ Typed \/ DecInit \/ WaitStart \/ Prepare
               \/ GetMessage \/ WaitForFrame \/ Decide \/ Read
      BY <3>1 DEF Begin, Open, Typed, DecInit, WaitStart, Prepare, GetMessage, Decision,
         WaitForFrame, Decide, ReadNext, Read, Fail
    <3>2. CASE \/ Hold \/ Promote \/ Write \/ Written \/ WaitEnd \/ EndDecide \/ EndUpdate
               \/ Reset \/ Release0 \/ Closing \/ Exit
      BY <3>2 DEF Hold, Promote, Write, Written, WaitEnd, EndDecide, EndUpdate, Reset,
         Release0, Closing, Exit, Fail
    <3>3. CASE Leave BY <2>1, <3>3 DEF Leave
    <3>. QED BY <2>2, <3>1, <3>2, <3>3 DEF PlayerThread
  <2>3. CASE MateThread
    BY <2>1, <2>3 DEF MateThread, MateStart, MateCommand, MateCommit, MateNotices,
       MateConcludes, notmate
  <2>4. CASE Controller \/ \E c \in Command : SendCommand(c)
    BY <2>1, <2>4 DEF Controller, Call, Interrupt, SendStop, Join, ExitJoin, SendCommand, notapp
  <2>5. CASE Gone \/ UNCHANGED vars BY <2>5 DEF Gone
  <2>. QED BY <1>1, <2>2, <2>3, <2>4, <2>5 DEF Next
<1>2. FinalInv /\ [Next]_vars => [stop_ok => pc' # "reset"]_vars
  BY <1>1
<1>. QED BY <1>2, FinalInvariant, PTL DEF Spec, StopIsFinal
=============================================================================
