----------------------------- MODULE PlayerPause -----------------------------
(***************************************************************************)
(* A player shows what its decoder does: PauseHolds for every size of the  *)
(* ring and every behaviour of the environment but a late mate, a decoder  *)
(* that refuses to pause or resume and subtitles found while playing, and  *)
(* for commands without winding, which leaves a pause for buffering alone. *)
(* And it carries out a seek that it has taken: SearchHeld, if besides the *)
(* audio DSP does not report the end.                                      *)
(***************************************************************************)
EXTENDS PlayerStops

(* Nobody winds, and the mate is scheduled in time; codec_pause and        *)
(* codec_resume do not fail, and no new subtitles are shown.               *)
Unwound == "FF" \notin Command /\ "late_mate" \notin Can
Even == Unwound /\ {"codec_error", "subtitle"} \cap Can = {}

Held == {"PAUSE", "BUFFERING"}

(* The status and the decoder agree; a pause that is shown is wanted; and, *)
(* when all is settled, a decoder is not paused for nothing.               *)
Agree(p) ==
  /\ p.status \in Held => p.codec = "paused"
  /\ p.status = "RUNNING" => p.codec = "running"
Kept(p) == p.status = "PAUSE" => p.pause
Settled(p) == Agree(p) /\ Kept(p) /\ (p.codec = "paused" => p.status \in Held)

(* Between check_msg and the rest of check_flag.  A stop has resumed the   *)
(* decoder, a resume has cleared the wish, and an end may be pending; what *)
(* check_flag does next covers each of these.                              *)
Taken(p) ==
  /\ p.status = "RUNNING" => p.codec = "running"
  /\ p.status \in Held /\ p.codec # "paused" => p.end /\ ~p.search
  /\ p.status = "PAUSE" /\ ~p.pause /\ p.end => ~p.search
  /\ p.codec = "paused" /\ ~p.end => p.status \in Held

(* While the mate is in the middle of a change, which one it is. *)
Changing(p) ==
  CASE mate = "pausing"   -> p.codec = "paused" /\ p.status # "PAUSE"
    [] mate = "resuming"  -> p.codec = "running" /\ p.status \in {"PAUSE", "SEARCHOK"}
    [] mate = "starving"  -> p.codec = "paused" /\ p.status = "RUNNING"
    [] mate = "refilling" -> p.codec = "running" /\ p.status = "BUFFERING"
    [] mate = "ending"    -> Settled(p) /\ p.status \notin Held
    [] OTHER              -> Settled(p)

Resting == {"begin", "open", "typed", "decinit", "waitstart", "prepare", "reset"}
Settling == {"flag", "endflag", "promote", "write", "written", "endupdate"}
Ending == {"leave", "release0", "closing", "exit"}

(* What holds of p where the player thread stands at at. *)
Shows(at, p) ==
  /\ at \in Resting => p.status \notin Held \cup {"RUNNING"}
  /\ at \in Settling => Settled(p)
  /\ at \in {"flag", "endflag"} /\ p.status = "PAUSE" => ~p.end
  /\ at \in {"decide", "enddecide"} => Taken(p)
  /\ at \in {"read", "hold"} => Changing(p)
  /\ at = "waitend" => Agree(p) /\ Kept(p) /\ (p.end \/ Settled(p))
  /\ at \in Ending => Agree(p) /\ Kept(p)
  /\ at = "done" => p.status = "EXIT"

PauseShown == ~para.fast /\ Shows(pc, para)

PauseInv == MateInside /\ PauseShown
-----------------------------------------------------------------------------
Pausable == {p \in Paras(Live, AnyCodec) : ~p.fast /\ Agree(p) /\ Kept(p)}
Steady == {p \in Pausable : Settled(p)}

(* The decoder does what it is told, and no subtitles are shown. *)
LEMMA EvenCodecs ==
  ASSUME Even, NEW p, NEW c, NEW to
  PROVE  /\ Codecs(c, to) = {CodecTo(c, to)}
         /\ SubtitleChecked(p) = {p}
  BY DEF Even, Codecs, SubtitleChecked

(* An update leaves a player that agrees with its decoder so, and a        *)
(* settled one settled: whatever it buffers for is over by the time the    *)
(* file has been read to its end.                                          *)
LEMMA BufferedAgrees ==
  ASSUME Even, NEW p \in Pausable, NEW q \in Buffered(p)
  PROVE  /\ q \in Pausable
         /\ p \in Steady => q \in Steady
         /\ q.status = "BUFFERING" => ~q.read_end
         /\ p.status \notin {"RUNNING", "BUFFERING"} => q = p
<1>1. q \in Paras(Live, AnyCodec) BY BufferedStays DEF Pausable
<1>2. CASE q = [p EXCEPT !.codec = CodecTo(p.codec, "paused"), !.status = "BUFFERING"]
               /\ p.status = "RUNNING" /\ ~p.read_end
  BY <1>1, <1>2 DEF Pausable, Steady, Agree, Kept, Settled, Paras, CodecTo, Held
<1>3. CASE q = [p EXCEPT !.codec = CodecTo(p.codec, "running"), !.status = "RUNNING"]
               /\ p.status = "BUFFERING"
  BY <1>1, <1>3 DEF Pausable, Steady, Agree, Kept, Settled, Paras, CodecTo, Held
<1>4. CASE q = p /\ (p.status = "BUFFERING" => ~p.read_end) BY <1>4
<1>5. ASSUME q \in Starved(p)
      PROVE  q = [p EXCEPT !.codec = CodecTo(p.codec, "paused"), !.status = "BUFFERING"]
  <2>1. PICK c \in Codecs(p.codec, "paused") : q = [p EXCEPT !.codec = c, !.status = "BUFFERING"]
    BY <1>5 DEF Starved
  <2>2. c = CodecTo(p.codec, "paused") BY EvenCodecs
  <2>. QED BY <2>1, <2>2
<1>6. ASSUME q \in Refilled(p)
      PROVE  q = [p EXCEPT !.codec = CodecTo(p.codec, "running"), !.status = "RUNNING"]
  <2>1. PICK c \in Codecs(p.codec, "running") : q = [p EXCEPT !.codec = c, !.status = "RUNNING"]
    BY <1>6 DEF Refilled
  <2>2. c = CodecTo(p.codec, "running") BY EvenCodecs
  <2>. QED BY <2>1, <2>2
<1>7. \/ q \in Starved(p) /\ p.status = "RUNNING" /\ ~p.read_end
      \/ q \in Refilled(p) /\ p.status = "BUFFERING"
      \/ q = p /\ (p.status = "BUFFERING" => ~p.read_end)
  BY DEF Buffered
<1>. QED BY <1>2, <1>3, <1>4, <1>5, <1>6, <1>7

LEMMA EndedAgrees ==
  ASSUME NEW p \in Pausable, p.status = "BUFFERING" => ~p.read_end, NEW q \in Ended(p)
  PROVE  /\ q \in Pausable
         /\ p \in Steady => q \in Steady
         /\ q.status \in {p.status, "PLAYEND"}
<1>1. q \in Paras(Live, AnyCodec) BY EndedStays DEF Pausable
<1>2. CASE q = p BY <1>2
<1>3. ASSUME EndNoticed(p), NEW n \in Noticed(p), q = Declared(n)
      PROVE  /\ q \in Pausable
             /\ p \in Steady => q \in Steady
             /\ q.status \in {p.status, "PLAYEND"}
  <2>1. p.status \notin Held BY <1>3 DEF EndNoticed, Held
  <2>2. n.status = p.status /\ n.codec = p.codec /\ n.fast = p.fast /\ n.pause = p.pause
        /\ n \in Paras(Live, AnyCodec)
    BY <1>3 DEF Noticed, Pausable, Paras
  <2>3. /\ q.codec = p.codec /\ ~q.fast /\ q.pause = p.pause
        /\ q.status \in {p.status, "PLAYEND"}
    BY <1>3, <2>2 DEF Declared, Pausable, Paras
  <2>. QED BY <1>1, <2>1, <2>3 DEF Pausable, Steady, Agree, Kept, Settled, Held
<1>. QED BY <1>2, <1>3 DEF Ended

LEMMA UpdatedAgrees ==
  ASSUME Even, NEW p \in Pausable, NEW q \in Updated(p)
  PROVE  /\ q \in Pausable
         /\ p \in Steady => q \in Steady
         /\ p.status \notin {"RUNNING", "BUFFERING"} => q.status \in {p.status, "PLAYEND"}
<1>1. PICK b \in Buffered(p) : q \in Ended(b) BY DEF Updated
<1>2. /\ b \in Pausable
      /\ p \in Steady => b \in Steady
      /\ b.status = "BUFFERING" => ~b.read_end
      /\ p.status \notin {"RUNNING", "BUFFERING"} => b = p
  BY BufferedAgrees
<1>3. /\ q \in Pausable
      /\ b \in Steady => q \in Steady
      /\ q.status \in {b.status, "PLAYEND"}
  BY <1>1, <1>2, EndedAgrees
<1>. QED BY <1>2, <1>3

(* An update after which the end is pending. *)
LEMMA UpdatedEnds ==
  ASSUME NEW p \in Paras(Live, AnyCodec), p.end, p.status = "PLAYEND", NEW q \in Updated(p)
  PROVE  q.end /\ q.status = "PLAYEND" /\ (p.fast \/ ~q.fast)
<1>1. Buffered(p) = {p} BY DEF Buffered
<1>2. \A n \in Noticed(p) : Declared(n).end /\ Declared(n).status = "PLAYEND"
                            /\ (p.fast \/ ~Declared(n).fast)
  BY ZenonT(40) DEF Noticed, Declared, Paras
<1>3. Updated(p) = Ended(p) BY <1>1 DEF Updated
<1>4. CASE q = p BY <1>4
<1>5. CASE q \in {Declared(n) : n \in Noticed(p)} BY <1>2, <1>5
<1>. QED BY <1>3, <1>4, <1>5 DEF Ended

(* What check_msg makes of a settled player. *)
LEMMA CheckMsgTakes ==
  ASSUME Even, NEW p \in Steady, p.status = "PAUSE" => ~p.end,
         NEW c \in Command \cup {"STOP"}, NEW q \in CheckMsg(p, c)
  PROVE  Taken(q) /\ ~q.fast
<1>. USE DEF Steady, Pausable, Settled, Agree, Kept, Taken, Held, Paras, AnyCodec, Usable
<1>1. CASE c = "STOP"
  <2>1. q \in Stopping(p) BY <1>1 DEF CheckMsg, SearchCommand, FastCommand
  <2>2. Unpaused(p) = {IF p.pause THEN CodecTo(p.codec, "running") ELSE p.codec}
    BY EvenCodecs DEF Unpaused
  <2>. DEFINE k == IF p.pause THEN CodecTo(p.codec, "running") ELSE p.codec
  <2>3. q = [p EXCEPT !.end = TRUE, !.loop = FALSE, !.search = FALSE, !.request_end = TRUE,
                      !.codec = k, !.pause = FALSE, !.fast = FALSE]
    BY <2>1, <2>2 DEF Stopping
  <2>. QED BY <2>3 DEF CodecTo
<1>2. CASE c \in SearchCommand
  <2>. DEFINE r == IF p.status = "SEARCHING"
                   THEN [p EXCEPT !.fast = FALSE, !.f_step = FALSE] ELSE p
              e == [r EXCEPT !.end = TRUE, !.search = FALSE, !.status = "PLAYEND"]
  <2>1. r \in Steady /\ r.status = p.status /\ r.end = p.end
    <3>1. CASE p.status = "SEARCHING"
      <4>. DEFINE s == [p EXCEPT !.fast = FALSE, !.f_step = FALSE]
      <4>1. s \in Paras(Live, AnyCodec) BY DEF Pausable
      <4>2. /\ s.status = p.status /\ s.end = p.end /\ s.codec = p.codec
            /\ s.pause = p.pause /\ ~s.fast
        OBVIOUS
      <4>3. r = s BY <3>1
      <4>. HIDE DEF s
      <4>. QED BY <3>1, <4>1, <4>2, <4>3
    <3>2. CASE p.status # "SEARCHING" BY <3>2
    <3>. QED BY <3>1, <3>2
  <2>2. q \in Searched(p, c) BY <1>2 DEF CheckMsg, SearchCommand, FastCommand
  <2>3. CASE c = "SEARCH"
    <3>1. q = [r EXCEPT !.search = TRUE, !.end = TRUE] BY <2>2, <2>3 DEF Searched
    <3>. HIDE DEF r
    <3>. QED BY <2>1, <3>1
  <2>4. CASE c = "SEARCH_RESET"
    <3>1. q = [r EXCEPT !.reset = TRUE, !.end = TRUE] BY <2>2, <2>4 DEF Searched
    <3>. HIDE DEF r
    <3>. QED BY <2>1, <3>1
  <2>5. CASE c = "SEARCH_END"
    <3>1. q \in Updated(e) BY <2>2, <2>5 DEF Searched
    <3>2. e \in Paras(Live, AnyCodec) /\ e.end /\ e.status = "PLAYEND" /\ ~e.fast
      <4>. HIDE DEF r
      <4>. QED BY <2>1, Published
    <3>. HIDE DEF e
    <3>3. q.end /\ q.status = "PLAYEND" /\ ~q.fast BY <3>1, <3>2, UpdatedEnds
    <3>. QED BY <3>3
  <2>. QED BY <1>2, <2>3, <2>4, <2>5 DEF SearchCommand
<1>3. CASE c \in FastCommand
  <2>1. c = "FF_OFF" BY <1>3 DEF FastCommand, Even, Unwound
  <2>2. q \in Fast(p, c) BY <1>3 DEF CheckMsg, FastCommand, SearchCommand
  <2>3. q = p \/ q = [p EXCEPT !.init_ff_fr = FALSE, !.f_step = FALSE]
    BY <2>1, <2>2 DEF Fast
  <2>. QED BY <2>3
<1>4. CASE c \in ProxyCommand
  <2>1. \E b \in BOOLEAN : q \in {p, [p EXCEPT !.pause = b], [p EXCEPT !.loop = b]}
    BY <1>4 DEF CheckMsg, ProxyCommand, SearchCommand, FastCommand
  <2>. QED BY <2>1
<1>. QED BY <1>1, <1>2, <1>3, <1>4, PlayerAssumption

(* And of one that does not play yet. *)
LEMMA CheckMsgAtRest ==
  ASSUME Even, NEW p \in Paras(Live, AnyCodec), ~p.fast, p.status \notin Held \cup {"RUNNING"},
         NEW c \in Command \cup {"STOP"}, NEW q \in CheckMsg(p, c)
  PROVE  ~q.fast /\ q.status \notin Held \cup {"RUNNING"}
<1>. USE DEF Held, Paras
<1>1. CASE c = "STOP"
  <2>1. q \in Stopping(p) BY <1>1 DEF CheckMsg, SearchCommand, FastCommand
  <2>. QED BY <2>1 DEF Stopping
<1>2. CASE c \in SearchCommand
  <2>. DEFINE r == IF p.status = "SEARCHING"
                   THEN [p EXCEPT !.fast = FALSE, !.f_step = FALSE] ELSE p
              e == [r EXCEPT !.end = TRUE, !.search = FALSE, !.status = "PLAYEND"]
  <2>1. r \in Paras(Live, AnyCodec) /\ r.status = p.status /\ ~r.fast OBVIOUS
  <2>2. q \in Searched(p, c) BY <1>2 DEF CheckMsg, SearchCommand, FastCommand
  <2>3. CASE c # "SEARCH_END"
    <3>1. \/ q = [r EXCEPT !.search = TRUE, !.end = TRUE]
          \/ q = [r EXCEPT !.reset = TRUE, !.end = TRUE]
      BY <1>2, <2>2, <2>3 DEF Searched, SearchCommand
    <3>. HIDE DEF r
    <3>. QED BY <2>1, <3>1
  <2>4. CASE c = "SEARCH_END"
    <3>1. q \in Updated(e) BY <2>2, <2>4 DEF Searched
    <3>2. e \in Paras(Live, AnyCodec) /\ e.end /\ e.status = "PLAYEND" /\ ~e.fast
      <4>. HIDE DEF r
      <4>. QED BY <2>1, Published
    <3>. HIDE DEF e
    <3>3. q.end /\ q.status = "PLAYEND" /\ ~q.fast BY <3>1, <3>2, UpdatedEnds
    <3>. QED BY <3>3
  <2>. QED BY <2>3, <2>4
<1>3. CASE c \in FastCommand
  <2>1. c = "FF_OFF" BY <1>3 DEF FastCommand, Even, Unwound
  <2>2. q \in Fast(p, c) BY <1>3 DEF CheckMsg, FastCommand, SearchCommand
  <2>3. q = p \/ q = [p EXCEPT !.init_ff_fr = FALSE, !.f_step = FALSE]
    BY <2>1, <2>2 DEF Fast
  <2>. QED BY <2>3
<1>4. CASE c \in ProxyCommand
  <2>1. \E b \in BOOLEAN : q \in {p, [p EXCEPT !.pause = b], [p EXCEPT !.loop = b]}
    BY <1>4 DEF CheckMsg, ProxyCommand, SearchCommand, FastCommand
  <2>. QED BY <2>1
<1>. QED BY <1>1, <1>2, <1>3, <1>4, PlayerAssumption

(* What the rest of check_flag makes of it. *)
LEMMA BrokenAgrees ==
  ASSUME NEW p \in Paras(Live, Usable), ~p.fast, Taken(p), p.end
  PROVE  Broken(p) \in Pausable /\ Broken(p).end
<1>1. Broken(p) \in Paras(Live, AnyCodec) BY BrokenStays, ParasGrow
<1>2. CASE p.search
  BY <1>1, <1>2 DEF Broken, Taken, Pausable, Agree, Kept, Paras, Held
<1>3. CASE ~p.search
  <2>1. Broken(p) = [p EXCEPT !.status = EndStatus(p)] BY <1>3 DEF Broken
  <2>2. EndStatus(p) \in {"STOPED", "PLAYEND"} BY DEF EndStatus
  <2>3. Broken(p).status = EndStatus(p) /\ ~Broken(p).fast /\ Broken(p).end
    BY <2>1 DEF Paras
  <2>. QED BY <1>1, <2>2, <2>3 DEF Pausable, Agree, Kept, Held
<1>. QED BY <1>2, <1>3

LEMMA GoesOnSettles ==
  ASSUME Even, NEW p \in Paras(Live, Usable), ~p.fast, Taken(p), ~p.end
  PROVE  GoesOn(p) \subseteq Steady
<1>. DEFINE held == [p EXCEPT !.codec = CodecTo(@, "paused"), !.status = "PAUSE"]
            runs == [p EXCEPT !.codec = CodecTo(@, "running"), !.status = "RUNNING"]
<1>0. ASSUME NEW q \in GoesOn(p)
      PROVE  /\ p.pause /\ p.status # "PAUSE" => q \in Updated(held)
             /\ ~p.pause /\ p.status \in {"PAUSE", "SEARCHOK"} => q \in Updated(runs)
  <2>1. CASE p.pause /\ p.status # "PAUSE"
    <3>1. PICK k \in Codecs(p.codec, "paused") : q \in Updated(Showing(p, k, "PAUSE"))
      BY <2>1 DEF GoesOn, Showing
    <3>2. k = CodecTo(p.codec, "paused") BY EvenCodecs
    <3>. QED BY <2>1, <3>1, <3>2 DEF Showing
  <2>2. CASE ~p.pause /\ p.status \in {"PAUSE", "SEARCHOK"}
    <3>1. PICK k \in Codecs(p.codec, "running") : q \in Updated(Showing(p, k, "RUNNING"))
      BY <2>2 DEF GoesOn, Showing
    <3>2. k = CodecTo(p.codec, "running") BY EvenCodecs
    <3>. QED BY <2>2, <3>1, <3>2 DEF Showing
  <2>. QED BY <2>1, <2>2
<1>1. held \in Paras(Live, AnyCodec) /\ runs \in Paras(Live, AnyCodec)
  BY Published, ParasGrow DEF Paras, CodecTo, Usable, AnyCodec
<1>2. CASE p.pause /\ p.status # "PAUSE"
  <2>1. held \in Steady
    BY <1>1, <1>2 DEF Steady, Pausable, Agree, Kept, Settled, Paras, Usable, CodecTo, Held
  <2>. QED BY <1>0, <1>2, <2>1, UpdatedAgrees DEF Steady
<1>3. CASE ~p.pause /\ p.status \in {"PAUSE", "SEARCHOK"}
  <2>1. runs \in Steady
    BY <1>1, <1>3 DEF Steady, Pausable, Agree, Kept, Settled, Paras, Usable, CodecTo, Held
  <2>. QED BY <1>0, <1>3, <2>1, UpdatedAgrees DEF Steady
<1>4. CASE ~(p.pause /\ p.status # "PAUSE") /\ ~(~p.pause /\ p.status \in {"PAUSE", "SEARCHOK"})
  <2>1. GoesOn(p) = {p} BY <1>4 DEF GoesOn
  <2>2. p \in Steady
    BY <1>4, ParasGrow DEF Steady, Pausable, Agree, Kept, Settled, Taken, Paras, Held
  <2>. QED BY <2>1, <2>2
<1>. QED BY <1>2, <1>3, <1>4

(* The flags that Steady and Pausable do not look at. *)
LEMMA FlagsAgree ==
  ASSUME NEW p \in Pausable, NEW b \in BOOLEAN, NEW st \in Live,
         st \notin Held \cup {"RUNNING"}
  PROVE  /\ \A q \in {[p EXCEPT !.read_end = b], [p EXCEPT !.loop = b], [p EXCEPT !.end = b],
                      [p EXCEPT !.reset = TRUE, !.end = TRUE]} :
              q \in Pausable /\ (p \in Steady => q \in Steady) /\ q.status = p.status
         /\ [p EXCEPT !.status = st] \in Pausable
<1>1. ASSUME NEW q \in Paras(Live, AnyCodec), q.status = p.status, q.codec = p.codec,
             q.pause = p.pause, q.fast = p.fast
      PROVE  q \in Pausable /\ (p \in Steady => q \in Steady) /\ q.status = p.status
  BY <1>1 DEF Pausable, Steady, Agree, Kept, Settled
<1>2. [p EXCEPT !.status = st] \in Pausable BY DEF Pausable, Agree, Kept, Paras, Held
<1>3. ASSUME NEW q \in {[p EXCEPT !.read_end = b], [p EXCEPT !.loop = b], [p EXCEPT !.end = b],
                        [p EXCEPT !.reset = TRUE, !.end = TRUE]}
      PROVE  /\ q \in Paras(Live, AnyCodec) /\ q.status = p.status /\ q.codec = p.codec
             /\ q.pause = p.pause /\ q.fast = p.fast
  BY <1>3, ZenonT(40) DEF Pausable, Paras
<1>. QED BY <1>1, <1>2, <1>3

LEMMA PromotedSettles ==
  ASSUME Even, NEW p \in Steady, p \in Paras(Live, Usable)
  PROVE  Promoted(p) \subseteq Steady
<1>. DEFINE runs == [p EXCEPT !.status = "RUNNING"]
<1>1. CASE p.status \notin {"RUNNING", "BUFFERING", "PAUSE"}
  <2>1. runs \in Paras(Live, AnyCodec) BY Published, ParasGrow DEF Paras
  <2>2. runs \in Steady
    BY <1>1, <2>1 DEF Steady, Pausable, Agree, Kept, Settled, Paras, Usable, Held
  <2>. QED BY <2>2, UpdatedAgrees DEF Promoted, Steady
<1>2. CASE p.status \in {"RUNNING", "BUFFERING", "PAUSE"} BY <1>2 DEF Promoted
<1>. QED BY <1>1, <1>2
-----------------------------------------------------------------------------
(* One lemma for the ways a step may lead to each group of places. *)
LEMMA ShowsSteady ==
  ASSUME para' \in Steady, pc' \in Settling \cup {"waitend"} \cup Ending,
         pc' \in {"flag", "endflag"} /\ para'.status = "PAUSE" => ~para'.end
  PROVE  PauseShown'
  BY DEF PauseShown, Shows, Steady, Pausable, Settled, Resting, Settling, Ending

LEMMA ShowsRead ==
  ASSUME para' \in Steady, pc' \in {"read", "hold"}, mate' \notin Working
  PROVE  PauseShown'
<1>1. Changing(para)' BY DEF Changing, Steady, Working
<1>. QED BY <1>1 DEF PauseShown, Shows, Steady, Pausable, Resting, Settling, Ending

LEMMA ShowsAtRest ==
  ASSUME ~para'.fast, para'.status \notin Held \cup {"RUNNING"}, pc' \in Resting \cup Ending
  PROVE  PauseShown'
  BY DEF PauseShown, Shows, Agree, Kept, Held, Resting, Settling, Ending

LEMMA ShowsEnding ==
  ASSUME para' \in Pausable, pc' \in {"waitend"} \cup Ending, pc' = "waitend" => para'.end
  PROVE  PauseShown'
  BY DEF PauseShown, Shows, Pausable, Resting, Settling, Ending

(* A failure shows ERROR. *)
LEMMA FailShows ==
  ASSUME para \in Paras(Live, AnyCodec), ~para.fast, Fail
  PROVE  PauseShown'
<1>1. para'.status = "ERROR" /\ ~para'.fast BY DEF Fail, Paras
<1>. QED BY <1>1, ShowsAtRest DEF Fail, Held, Ending

(* Where the thread stands says which of the sets play_para_t is in. *)
LEMMA WhereItStands ==
  ASSUME PlayerInv, PauseInv
  PROVE  /\ pc # "done" => para \in Paras(Live, AnyCodec) /\ ~para.fast
         /\ pc \notin Codecless => para \in Paras(Live, Usable)
         /\ pc \in Settling => para \in Steady
         /\ pc \in {"flag", "endflag"} /\ para.status = "PAUSE" => ~para.end
         /\ pc \in {"read", "hold"} /\ mate \notin Working => para \in Steady
         /\ pc \in {"waitend"} \cup Ending => para \in Pausable
         /\ pc = "waitend" /\ ~para.end => para \in Steady
         /\ pc \notin {"read", "hold"} => mate \notin Working
<1>1. pc # "done" => para \in Paras(Live, AnyCodec) BY DEF PlayerInv, ParaOK
<1>2. pc \notin Codecless => para \in Paras(Live, Usable) BY DEF PlayerInv, ParaOK
<1>3. pc \in {"read", "hold"} /\ mate \notin Working => Settled(para)
  BY DEF PauseInv, PauseShown, Shows, Changing, Working
<1>. QED BY <1>1, <1>2, <1>3
  DEF PauseInv, PauseShown, Shows, Steady, Pausable, Settled, Settling, Ending, MateInside
-----------------------------------------------------------------------------
(* The first state. *)
LEMMA PauseInit == Init => PauseInv
  BY DEF Init, PauseInv, PauseShown, Shows, MateInside, Working, Resting, Settling, Ending, Held

(* The player thread until it plays. *)
LEMMA StartShows ==
  ASSUME Even, PlayerInv, PauseInv,
         Begin \/ Open \/ Typed \/ DecInit \/ WaitStart \/ Prepare
  PROVE  PauseShown'
<1>1. pc \in Resting \ {"reset"}
  BY DEF Begin, Open, Typed, DecInit, WaitStart, Prepare, Resting
<1>2. para \in Paras(Live, AnyCodec) /\ ~para.fast
  BY <1>1, WhereItStands DEF Resting
<1>3. para.status \notin Held \cup {"RUNNING"} BY <1>1 DEF PauseInv, PauseShown, Shows
<1>4. ASSUME NEW st \in Live \ (Held \cup {"RUNNING"}), para' = [para EXCEPT !.status = st],
             pc' \in Resting \cup Ending
      PROVE  PauseShown'
  <2>1. para'.status = st /\ para'.fast = para.fast BY <1>2, <1>4 DEF Paras
  <2>. QED BY <1>2, <1>4, <2>1, ShowsAtRest
<1>5. ASSUME para' = para, pc' \in Resting \cup Ending PROVE PauseShown'
  BY <1>2, <1>3, <1>5, ShowsAtRest
<1>6. ASSUME Fail PROVE PauseShown' BY <1>2, <1>6, FailShows
<1>7. {"INITING", "TYPE_REDY", "INITOK", "STOPED", "ERROR", "PLAYEND"}
        \subseteq Live \ (Held \cup {"RUNNING"})
  BY Published DEF Held, Opening
<1>8. CASE Begin
  <2>1. para'.status = "INITING" /\ para'.fast = para.fast BY <1>2, <1>8 DEF Begin, Paras
  <2>. QED BY <1>2, <1>8, <2>1, ShowsAtRest DEF Begin, Resting, Held
<1>9. CASE Open BY <1>4, <1>6, <1>7, <1>9 DEF Open, Resting
<1>10. CASE Typed BY <1>5, <1>10 DEF Typed, Resting, Ending
<1>11. CASE DecInit BY <1>4, <1>6, <1>7, <1>11 DEF DecInit, Resting, Ending
<1>12. CASE WaitStart
  <2>1. CASE queue = << >> BY <1>1, <1>5, <1>12, <2>1 DEF WaitStart
  <2>2. CASE queue # << >> /\ Head(queue) \in {"START", "SEARCH"}
    <3>1. para' = para \/ para' = [para EXCEPT !.status = EndStatus(para)]
      BY <1>12, <2>2 DEF WaitStart
    <3>2. pc' \in {"prepare", "release0", "waitstart"} BY <1>12, <2>2 DEF WaitStart
    <3>. QED BY <1>4, <1>5, <1>7, <3>1, <3>2 DEF EndStatus, Resting, Ending
  <2>3. CASE queue # << >> /\ Head(queue) \notin {"START", "SEARCH"}
    <3>1. Head(queue) \in Command \cup {"STOP"}
      BY <2>3, HeadTailProperties DEF PlayerInv, QueueOK
    <3>2. PICK p \in CheckMsg(para, Head(queue)) :
             para' \in {p, [p EXCEPT !.status = EndStatus(p)]}
      BY <1>12, <2>3 DEF WaitStart
    <3>3. p.status \notin Held \cup {"RUNNING"} /\ ~p.fast /\ p \in Paras(Live, AnyCodec)
      BY <1>2, <1>3, <3>1, CheckMsgAtRest, CheckMsgStays
    <3>4. para'.status \notin Held \cup {"RUNNING"} /\ ~para'.fast
      BY <3>2, <3>3 DEF EndStatus, Paras, Held
    <3>5. pc' \in {"release0", "waitstart"} BY <1>12, <2>3 DEF WaitStart
    <3>. QED BY <3>4, <3>5, ShowsAtRest DEF Resting, Ending
  <2>. QED BY <2>1, <2>2, <2>3
<1>13. CASE Prepare
  <2>1. CASE Fail BY <1>6, <2>1
  <2>2. CASE para' = [para EXCEPT !.status = "START", !.codec = "running"] /\ pc' = "flag"
    <3>1. para' \in Steady
      BY <1>2, <2>2, Published
      DEF Steady, Pausable, Settled, Agree, Kept, Paras, AnyCodec, Usable, Held
    <3>2. para'.status = "START" BY <1>2, <2>2 DEF Paras
    <3>. QED BY <2>2, <3>1, <3>2, ShowsSteady DEF Settling
  <2>. QED BY <1>13, <2>1, <2>2 DEF Prepare
<1>. QED BY <1>8, <1>9, <1>10, <1>11, <1>12, <1>13

(* check_flag, in both loops. *)
LEMMA FlagShows ==
  ASSUME Even, PlayerInv, PauseInv, GetMessage \/ WaitForFrame \/ Decide \/ EndDecide
  PROVE  PauseShown'
<1>1. CASE GetMessage
  <2>1. para \in Steady /\ (para.status = "PAUSE" => ~para.end)
    BY <1>1, WhereItStands DEF GetMessage, Settling
  <2>2. Taken(para') /\ ~para'.fast
    <3>1. CASE queue = << >>
      BY <1>1, <2>1, <3>1
      DEF GetMessage, Steady, Pausable, Settled, Agree, Kept, Taken, Held
    <3>2. CASE queue # << >>
      <4>1. Head(queue) \in Command \cup {"STOP"}
        BY <3>2, HeadTailProperties DEF PlayerInv, QueueOK
      <4>. QED BY <1>1, <2>1, <3>2, <4>1, CheckMsgTakes DEF GetMessage
    <3>. QED BY <3>1, <3>2
  <2>3. pc' \in {"decide", "enddecide"} BY <1>1 DEF GetMessage, Decision
  <2>. QED BY <2>2, <2>3 DEF PauseShown, Shows, Resting, Settling, Ending
<1>2. CASE WaitForFrame
  <2>1. para' = para /\ para \in Steady /\ (para.status = "PAUSE" => ~para.end)
        /\ mate \notin Working
    BY <1>2, WhereItStands DEF WaitForFrame, Settling
  <2>2. \/ pc' \in {"promote", "write", "endupdate"}
        \/ pc' \in {"read", "hold"} /\ mate' \notin Working
    BY <1>2, <2>1 DEF WaitForFrame, ReadNext, Working
  <2>. QED BY <2>1, <2>2, ShowsSteady, ShowsRead DEF Settling
<1>3. ASSUME pc \in {"decide", "enddecide"}
      PROVE  /\ para \in Paras(Live, Usable) /\ Taken(para) /\ ~para.fast
             /\ Breaks(para) <=> para.end
             /\ mate \notin Working
  BY <1>3, WhereItStands DEF PauseInv, PauseShown, Shows, Breaks, Codecless
<1>4. CASE Decide
  <2>1. CASE para.end
    <3>1. para' = Broken(para) /\ pc' = "waitend" BY <1>3, <1>4, <2>1 DEF Decide
    <3>. QED BY <1>3, <1>4, <2>1, <3>1, BrokenAgrees, ShowsEnding DEF Decide
  <2>2. CASE ~para.end
    <3>1. para' \in Steady BY <1>3, <1>4, <2>2, GoesOnSettles DEF Decide
    <3>2. \/ pc' \in {"promote", "write"}
          \/ pc' \in {"read", "hold"} /\ mate' \notin Working
      BY <1>3, <1>4, <2>2 DEF Decide, ReadNext, Working
    <3>. QED BY <3>1, <3>2, ShowsSteady, ShowsRead DEF Settling
  <2>. QED BY <2>1, <2>2
<1>5. CASE EndDecide
  <2>1. CASE para.end
    <3>. DEFINE p == Broken(para)
    <3>1. p \in Pausable BY <1>3, <1>5, <2>1, BrokenAgrees DEF EndDecide
    <3>2. /\ para' = [p EXCEPT !.read_end = IF p.search \/ p.fast THEN FALSE ELSE @]
          /\ pc' = "leave"
      BY <1>3, <1>5, <2>1 DEF EndDecide
    <3>3. (IF p.search \/ p.fast THEN FALSE ELSE p.read_end) \in BOOLEAN
      BY <3>1 DEF Pausable, Paras
    <3>. HIDE DEF p
    <3>4. \A b \in BOOLEAN : [p EXCEPT !.read_end = b] \in Pausable
      BY <3>1 DEF Pausable, Agree, Kept, Paras
    <3>5. para' \in Pausable BY <3>2, <3>3, <3>4, Zenon
    <3>. QED BY <3>2, <3>5, ShowsEnding DEF Ending
  <2>2. CASE ~para.end
    <3>1. para' \in Steady /\ pc' \in {"waitend", "endupdate"}
      BY <1>3, <1>5, <2>2, GoesOnSettles DEF EndDecide
    <3>. QED BY <3>1, ShowsSteady DEF Settling
  <2>. QED BY <2>1, <2>2
<1>. QED BY <1>1, <1>2, <1>4, <1>5

(* Reading and writing. *)
LEMMA PlayShows ==
  ASSUME Even, PlayerInv, PauseInv, Read \/ Hold \/ Promote \/ Write \/ Written
  PROVE  PauseShown'
<1>1. pc \in {"read", "hold", "promote", "write", "written"}
  BY DEF Read, Hold, Promote, Write, Written
<1>2. para \in Paras(Live, AnyCodec) /\ ~para.fast /\ para \in Paras(Live, Usable)
  BY <1>1, WhereItStands, ParasGrow DEF Codecless
<1>3. ASSUME Fail PROVE PauseShown' BY <1>2, <1>3, FailShows
<1>4. ASSUME Read \/ Hold PROVE para \in Steady
  BY <1>4, WhereItStands DEF Read, Hold, MateSleeps, Working, Even, Unwound
<1>5. ASSUME pc \in Settling PROVE para \in Steady BY <1>5, WhereItStands
<1>6. ASSUME para' \in Steady, pc' \in {"promote", "write", "written", "waitend"}
      PROVE  PauseShown'
  BY <1>6, ShowsSteady DEF Settling
<1>7. CASE Read
  <2>1. [para EXCEPT !.read_end = TRUE] \in Steady
    BY <1>4, <1>7, Published, FlagsAgree DEF Steady, Held
  <2>. QED BY <1>3, <1>4, <1>6, <1>7, <2>1 DEF Read
<1>8. CASE Hold BY <1>4, <1>6, <1>8 DEF Hold
<1>9. CASE Promote BY <1>2, <1>5, <1>6, <1>9, PromotedSettles DEF Promote, Settling
<1>10. CASE Write
  <2>1. para \in Steady BY <1>5, <1>10 DEF Write, Settling
  <2>2. [para EXCEPT !.reset = TRUE, !.end = TRUE] \in Steady
    BY <2>1, Published, FlagsAgree DEF Steady, Held
  <2>. QED BY <1>3, <1>6, <1>10, <2>1, <2>2 DEF Write
<1>11. CASE Written
  <2>1. para \in Steady BY <1>5, <1>11 DEF Written, Settling
  <2>2. ASSUME NEW u \in Updated(para), NEW p \in DecoderChecked(u)
        PROVE  p \in Steady /\ ~p.fast
    <3>1. u \in Steady BY <2>1, UpdatedAgrees DEF Steady
    <3>2. [u EXCEPT !.reset = TRUE, !.end = TRUE] \in Steady
      BY <3>1, Published, FlagsAgree DEF Steady, Held
    <3>3. p \in Steady BY <3>1, <3>2 DEF DecoderChecked
    <3>. QED BY <3>3 DEF Steady, Pausable
  <2>3. CASE Fail BY <1>3, <2>3
  <2>4. CASE ~Fail
    <3>1. para' \in Steady /\ pc' = (IF para'.end THEN "waitend" ELSE "flag")
      <4>1. PICK u \in Updated(para) : \E d \in DecoderChecked(u) : \E p \in SubtitleChecked(d) :
              /\ \/ para' = p
                 \/ p.fast /\ para' \in Updated([p EXCEPT !.end = TRUE])
              /\ pc' = IF para'.end THEN "waitend" ELSE "flag"
        BY <1>11, <2>4 DEF Written
      <4>2. PICK d \in DecoderChecked(u) : \E p \in SubtitleChecked(d) :
              /\ \/ para' = p
                 \/ p.fast /\ para' \in Updated([p EXCEPT !.end = TRUE])
              /\ pc' = IF para'.end THEN "waitend" ELSE "flag"
        BY <4>1
      <4>3. SubtitleChecked(d) = {d} BY EvenCodecs
      <4>. QED BY <2>2, <4>2, <4>3
    <3>. QED BY <3>1, ShowsSteady DEF Settling
  <2>. QED BY <2>3, <2>4
<1>. QED BY <1>7, <1>8, <1>9, <1>10, <1>11

(* From the wait for the end on. *)
LEMMA EndShows ==
  ASSUME Even, PlayerInv, PauseInv,
         WaitEnd \/ EndUpdate \/ Leave \/ Reset \/ Release0 \/ Closing \/ Exit
  PROVE  PauseShown'
<1>1. pc \in {"waitend", "endupdate", "leave", "reset", "release0", "closing", "exit"}
  BY DEF WaitEnd, EndUpdate, Leave, Reset, Release0, Closing, Exit
<1>2. para \in Paras(Live, AnyCodec) /\ ~para.fast BY <1>1, WhereItStands
<1>3. ASSUME pc # "reset" PROVE para \in Pausable
  BY <1>1, <1>3, WhereItStands DEF Settling, Ending, Steady
<1>4. CASE WaitEnd
  <2>1. CASE para.end BY <1>3, <1>4, <2>1, ShowsEnding DEF WaitEnd, Ending
  <2>2. CASE ~para.end
    <3>1. para \in Steady /\ pc' = "endflag" /\ para' \in DecoderChecked(para)
      BY <1>4, <2>2, WhereItStands DEF WaitEnd
    <3>2. [para EXCEPT !.reset = TRUE, !.end = TRUE] \in Steady
          /\ [para EXCEPT !.reset = TRUE, !.end = TRUE].status = para.status
      BY <3>1, Published, FlagsAgree DEF Steady, Held
    <3>3. para' \in Steady /\ (para'.status = "PAUSE" => ~para'.end)
      BY <2>2, <3>1, <3>2 DEF DecoderChecked
    <3>. QED BY <3>1, <3>3, ShowsSteady DEF Settling
  <2>. QED BY <2>1, <2>2
<1>5. CASE EndUpdate
  <2>1. para \in Steady BY <1>5, WhereItStands DEF EndUpdate, Settling
  <2>2. Updated(para) \subseteq Steady BY <2>1, UpdatedAgrees DEF Steady
  <2>. QED BY <1>5, <2>1, <2>2, ShowsSteady DEF EndUpdate, Ending
<1>6. CASE Leave
  <2>1. CASE pc' = "release0" /\ para' = para
    BY <1>3, <1>6, <2>1, ShowsEnding DEF Leave, Ending
  <2>2. CASE pc' = "reset" /\ para.status = "SEARCHING" /\ para' = para
    BY <1>2, <2>2, ShowsAtRest DEF Resting, Held
  <2>3. CASE pc' = "reset" /\ para' \in Updated([para EXCEPT !.status = "SEARCHING"])
    <3>. DEFINE p == [para EXCEPT !.status = "SEARCHING"]
    <3>1. para \in Pausable BY <1>3, <1>6 DEF Leave
    <3>2. p \in Pausable BY <3>1, Published, FlagsAgree DEF Held
    <3>3. p.status = "SEARCHING" BY <3>1 DEF Pausable, Paras
    <3>. HIDE DEF p
    <3>4. para' \in Pausable /\ para'.status \in {"SEARCHING", "PLAYEND"}
      BY <2>3, <3>2, <3>3, UpdatedAgrees DEF p
    <3>. QED BY <2>3, <3>4, ShowsAtRest DEF Resting, Held, Pausable
  <2>. QED BY <1>6, <2>1, <2>2, <2>3 DEF Leave
<1>7. CASE Reset
  <2>1. pc = "reset" /\ para.status \notin Held \cup {"RUNNING"} /\ Restarted(para) = {Fresh(para)}
    BY <1>2, <1>7 DEF Reset, Restarted, PauseInv, PauseShown, Shows, Resting
  <2>. DEFINE p == Fresh(para)
  <2>2. p \in Paras(Live, Usable) BY <1>2, RestartedStays
  <2>3. p.status = para.status /\ p.codec = "running" /\ ~p.end /\ ~p.fast
    BY <1>2 DEF Fresh, Paras
  <2>4. \/ para' = Served(p) /\ pc' = "flag"
        \/ para' = [p EXCEPT !.status = "ERROR"] /\ pc' = "release0"
    BY <1>7, <2>1, <2>3 DEF Reset
  <2>. HIDE DEF p
  <2>5. CASE para' = Served(p) /\ pc' = "flag"
    <3>1. para' \in Paras(Live, AnyCodec) BY <2>2, <2>5, ServedStays, ParasGrow
    <3>2. /\ para'.status \in {"SEARCHOK", para.status} /\ para'.codec = "running"
          /\ ~para'.end /\ ~para'.fast
      BY <2>2, <2>3, <2>5 DEF Served, Paras
    <3>3. para' \in Steady
      BY <2>1, <3>1, <3>2 DEF Steady, Pausable, Settled, Agree, Kept, Held
    <3>. QED BY <2>5, <3>2, <3>3, ShowsSteady DEF Settling
  <2>6. CASE para' = [p EXCEPT !.status = "ERROR"] /\ pc' = "release0"
    <3>1. para'.status = "ERROR" /\ ~para'.fast BY <2>2, <2>3, <2>6 DEF Paras
    <3>. QED BY <2>6, <3>1, ShowsAtRest DEF Ending, Held
  <2>. QED BY <2>4, <2>5, <2>6
<1>8. CASE Release0
  <2>1. [para EXCEPT !.status = "STOPED"] \in Pausable
    BY <1>3, <1>8, Published, FlagsAgree DEF Release0, Held
  <2>2. para' \in Pausable BY <1>3, <1>8, <2>1 DEF Release0
  <2>. QED BY <1>8, <2>2, ShowsEnding DEF Release0, Ending
<1>9. CASE Closing BY <1>3, <1>9, UpdatedAgrees, ShowsEnding DEF Closing, Ending
<1>10. CASE Exit
  <2>1. para'.status = "EXIT" /\ ~para'.fast BY <1>2, <1>10 DEF Exit, Paras
  <2>. QED BY <1>10, <2>1 DEF Exit, PauseShown, Shows, Resting, Settling, Ending
<1>. QED BY <1>4, <1>5, <1>6, <1>7, <1>8, <1>9, <1>10

(* The mate: at every point of a change, the half that is done. *)
LEMMA MateShows ==
  ASSUME Even, PlayerInv, PauseInv, MateThread
  PROVE  PauseShown'
<1>1. mate \in {"posted", "awake"} \cup Working /\ pc' = pc
  BY DEF MateThread, MateStart, MateCommand, MateCommit, MateNotices, MateConcludes, notmate,
     Working
<1>2. pc \in {"read", "hold"} BY <1>1 DEF PauseInv, MateInside
<1>3. para \in Paras(Live, Usable) /\ ~para.fast /\ Changing(para)
  BY <1>2, WhereItStands DEF Codecless, PauseInv, PauseShown, Shows
<1>4. ASSUME ~para'.fast, Changing(para)' PROVE PauseShown'
  BY <1>1, <1>2, <1>4 DEF PauseShown, Shows, Resting, Settling, Ending
<1>5. ASSUME para' \in Steady, mate' \notin Working PROVE PauseShown'
  BY <1>1, <1>2, <1>5, ShowsRead
<1>6. ASSUME mate \notin Working PROVE para \in Steady
  BY <1>2, <1>6, WhereItStands
<1>7. CASE MateStart BY <1>5, <1>6, <1>7 DEF MateStart, Working
<1>8. CASE MateCommand
  <2>1. para \in Steady BY <1>6, <1>8 DEF MateCommand, Working
  <2>2. CASE mate' = "pausing" /\ para.status # "PAUSE"
               /\ para' = [para EXCEPT !.codec = CodecTo(@, "paused")]
    <3>1. /\ para'.codec = "paused" /\ para'.status # "PAUSE" /\ ~para'.fast
      BY <1>3, <2>2 DEF CodecTo, Paras, Usable
    <3>. QED BY <1>4, <2>2, <3>1 DEF Changing
  <2>3. CASE mate' = "resuming" /\ para.status \in {"PAUSE", "SEARCHOK"}
               /\ para' = [para EXCEPT !.codec = CodecTo(@, "running")]
    <3>1. /\ para'.codec = "running" /\ para'.status \in {"PAUSE", "SEARCHOK"} /\ ~para'.fast
      BY <1>3, <2>3 DEF CodecTo, Paras, Usable
    <3>. QED BY <1>4, <2>3, <3>1 DEF Changing
  <2>4. CASE mate' = mate /\ para' = [para EXCEPT !.loop = (Head(queue) = "LOOP")]
    <3>1. (Head(queue) = "LOOP") \in BOOLEAN OBVIOUS
    <3>2. \A b \in BOOLEAN : [para EXCEPT !.loop = b] \in Steady
      BY <2>1, Published, FlagsAgree DEF Steady, Held
    <3>3. para' \in Steady BY <2>4, <3>1, <3>2, Zenon
    <3>. QED BY <1>5, <1>8, <2>4, <3>3 DEF MateCommand, Working
  <2>5. CASE mate' = mate /\ para' = para
    BY <1>5, <1>8, <2>1, <2>5 DEF MateCommand, Working
  <2>. QED BY <1>8, <2>2, <2>3, <2>4, <2>5, EvenCodecs DEF MateCommand
<1>9. CASE MateCommit
  <2>1. CASE mate = "pausing" /\ para' \in Updated([para EXCEPT !.pause = TRUE, !.status = "PAUSE"])
    <3>. DEFINE p == [para EXCEPT !.pause = TRUE, !.status = "PAUSE"]
    <3>1. p \in Steady
      BY <1>3, <2>1, Published
      DEF Changing, Steady, Pausable, Settled, Agree, Kept, Paras, Usable, AnyCodec, Held
    <3>. HIDE DEF p
    <3>2. para' \in Steady BY <2>1, <3>1, UpdatedAgrees DEF p, Steady
    <3>. QED BY <1>5, <1>9, <3>2 DEF MateCommit, Working
  <2>2. CASE mate = "resuming" /\ para' \in Updated([para EXCEPT !.pause = FALSE, !.status = "RUNNING"])
    <3>. DEFINE p == [para EXCEPT !.pause = FALSE, !.status = "RUNNING"]
    <3>1. p \in Steady
      BY <1>3, <2>2, Published
      DEF Changing, Steady, Pausable, Settled, Agree, Kept, Paras, Usable, AnyCodec, Held
    <3>. HIDE DEF p
    <3>2. para' \in Steady BY <2>2, <3>1, UpdatedAgrees DEF p, Steady
    <3>. QED BY <1>5, <1>9, <3>2 DEF MateCommit, Working
  <2>. QED BY <1>9, <2>1, <2>2 DEF MateCommit
<1>10. CASE MateNotices
  <2>1. para \in Steady BY <1>6, <1>10 DEF MateNotices, Working
  <2>2. CASE mate' = "starving" /\ para.status = "RUNNING"
               /\ para' = [para EXCEPT !.codec = CodecTo(@, "paused")]
    <3>1. /\ para'.codec = "paused" /\ para'.status = "RUNNING" /\ ~para'.fast
      BY <1>3, <2>2 DEF CodecTo, Paras, Usable
    <3>. QED BY <1>4, <2>2, <3>1 DEF Changing
  <2>3. CASE mate' = "refilling" /\ para.status = "BUFFERING"
               /\ para' = [para EXCEPT !.codec = CodecTo(@, "running")]
    <3>1. /\ para'.codec = "running" /\ para'.status = "BUFFERING" /\ ~para'.fast
      BY <1>3, <2>3 DEF CodecTo, Paras, Usable
    <3>. QED BY <1>4, <2>3, <3>1 DEF Changing
  <2>4. CASE mate' = "ending" /\ EndNoticed(para) /\ para.status # "BUFFERING"
               /\ para' \in Noticed(para)
    <3>1. /\ para'.status = para.status /\ para'.codec = para.codec
          /\ para'.pause = para.pause /\ ~para'.fast
      BY <1>3, <2>4 DEF Noticed, Paras
    <3>2. Settled(para') /\ para'.status \notin Held
      BY <2>1, <2>4, <3>1 DEF EndNoticed, Steady, Pausable, Settled, Agree, Kept, Held
    <3>. QED BY <1>4, <2>4, <3>1, <3>2 DEF Changing
  <2>. QED BY <1>10, <2>2, <2>3, <2>4, EvenCodecs DEF MateNotices
<1>11. CASE MateConcludes
  <2>1. para' \in Paras(Live, AnyCodec)
    BY <1>3, <1>11, Published, StatusStays, DeclaredStays, ParasGrow DEF MateConcludes
  <2>2. CASE mate \in {"starving", "refilling"}
    <3>1. /\ para'.status = IF mate = "starving" THEN "BUFFERING" ELSE "RUNNING"
          /\ para'.codec = para.codec /\ ~para'.fast
      BY <1>3, <1>11, <2>2 DEF MateConcludes, Paras
    <3>2. para' \in Steady
      BY <1>3, <2>1, <2>2, <3>1 DEF Changing, Steady, Pausable, Settled, Agree, Kept, Held
    <3>. QED BY <1>5, <1>11, <3>2 DEF MateConcludes, Working
  <2>3. CASE mate = "ending"
    <3>1. /\ para'.status \in {para.status, "PLAYEND"} /\ para'.codec = para.codec
          /\ para'.pause = para.pause /\ ~para'.fast
      BY <1>3, <1>11, <2>3 DEF MateConcludes, Declared, Paras
    <3>2. Settled(para) /\ para.status \notin Held BY <1>3, <2>3 DEF Changing
    <3>3. para' \in Steady
      BY <2>1, <3>1, <3>2 DEF Steady, Pausable, Settled, Agree, Kept, Held
    <3>. QED BY <1>5, <1>11, <3>3 DEF MateConcludes, Working
  <2>. QED BY <1>11, <2>2, <2>3 DEF MateConcludes
<1>. QED BY <1>7, <1>8, <1>9, <1>10, <1>11 DEF MateThread

(* Every step. *)
LEMMA PauseStep ==
  ASSUME Even, PlayerInv, PauseInv, [Next]_vars
  PROVE  PauseInv'
<1>1. MateInside' BY MateInsideStep DEF PauseInv, Even, Unwound
<1>2. ASSUME UNCHANGED <<para, pc, mate>> PROVE PauseShown'
  <2>1. Changing(para)' <=> Changing(para) BY <1>2 DEF Changing, Settled, Agree, Kept
  <2>. QED BY <1>2, <2>1 DEF PauseInv, PauseShown, Shows, Settled, Agree, Kept, Taken
<1>3. ASSUME PlayerThread PROVE PauseShown'
  BY <1>3, StartShows, FlagShows, PlayShows, EndShows DEF PlayerThread
<1>4. ASSUME MateThread PROVE PauseShown'
  BY <1>4, MateShows
<1>5. ASSUME Controller \/ \E c \in Command : SendCommand(c) PROVE PauseShown'
  BY <1>2, <1>5 DEF Controller, Call, Interrupt, SendStop, Join, ExitJoin, SendCommand, notapp
<1>6. ASSUME Gone \/ UNCHANGED vars PROVE PauseShown'
  BY <1>2, <1>6 DEF Gone, vars
<1>7. PauseShown' BY <1>3, <1>4, <1>5, <1>6 DEF Next
<1>. QED BY <1>1, <1>7 DEF PauseInv

(* PauseInv is an invariant of every player that nobody winds: the mate    *)
(* leaves each change half done for nobody to see but itself, and what a   *)
(* command makes of the flags check_flag carries out before anything else. *)
THEOREM PauseInvariant ==
  ASSUME Even
  PROVE  Spec => []PauseInv
<1>1. ASSUME PlayerInv, PauseInv, [Next]_vars PROVE PauseInv'
  BY <1>1, PauseStep
<1>. QED BY <1>1, PauseInit, PlayerInvariant, PTL DEF Spec

(* A player shown as paused has a paused decoder and is wanted paused, one *)
(* shown as running has a running decoder, outside of the change itself:   *)
(* if codec_pause and codec_resume do not fail, no new subtitles are found *)
(* while it plays, nobody winds and no mate is late.                       *)
THEOREM PlayerPauseHolds ==
  ASSUME Even
  PROVE  Spec => []PauseHolds
<1>1. ASSUME PlayerInv, PauseInv PROVE PauseHolds
  <2>1. SUFFICES ASSUME mate \notin Working, pc \notin {"decide", "enddecide"}
                 PROVE  Agree(para) /\ Kept(para)
    BY DEF PauseHolds, Agree, Kept, Held
  <2>2. CASE pc \in Resting \cup {"done"}
    BY <1>1, <2>2 DEF PauseInv, PauseShown, Shows, Agree, Kept, Held
  <2>3. CASE pc \in Settling \cup {"read", "hold", "waitend"} \cup Ending
    BY <1>1, <2>1, <2>3, WhereItStands DEF Steady, Pausable
  <2>. QED BY <1>1, <2>1, <2>2, <2>3 DEF PlayerInv, FlowOK, Resting, Settling, Ending
<1>. QED BY <1>1, PlayerInvariant, PauseInvariant, PTL
-----------------------------------------------------------------------------
(***************************************************************************)
(* A seek that was taken is carried out.                                   *)
(***************************************************************************)

(* Until it is carried out the end that goes with it leads to the reset. *)
SearchTaken == para.search /\ pc \notin Past => para.end /\ pc \in Resetting

(* What SearchHeld says of a step. *)
Answered == pc = "reset" /\ para'.status \in {"SEARCHOK", "ERROR"}
Carried == para'.search /\ (pc' = pc \/ (Nearer /\ pc' \notin Past))

(* Only a SEARCH asks for a seek while nobody winds. *)
LEMMA SearchStays ==
  ASSUME para \in Paras(Live, AnyCodec), ~para.fast, ~para.search,
         PlayerThread, ~WaitStart, ~GetMessage
  PROVE  ~para'.search
<1>1. CASE Begin \/ Open \/ Typed \/ DecInit \/ Prepare
  BY <1>1 DEF Begin, Open, Typed, DecInit, Prepare, Fail, Paras
<1>2. CASE WaitForFrame \/ Hold BY <1>2 DEF WaitForFrame, Hold
<1>3. Broken(para) \in Paras(Live, AnyCodec) /\ (Breaks(para) => ~Broken(para).search)
  <2>1. Breaks(para) => ~Broken(para).search BY DEF Breaks, Broken, Paras
  <2>. QED BY <2>1, BrokenStays
<1>4. CASE Decide
  <2>1. CASE Breaks(para)
    <3>1. para' \in {Broken(para), [Broken(para) EXCEPT !.end = TRUE]}
      BY <1>4, <2>1 DEF Decide
    <3>. QED BY <1>3, <2>1, <3>1 DEF Paras
  <2>2. CASE ~Breaks(para) BY <1>4, <2>2, GoesOnEases DEF Decide, Eases
  <2>. QED BY <2>1, <2>2
<1>5. CASE Read \/ Write BY <1>5 DEF Read, Write, Fail, Paras
<1>6. CASE Promote BY <1>6, GoesOnEases DEF Promote, Eases
<1>7. CASE Written
  <2>1. ASSUME NEW u \in Updated(para), NEW d \in DecoderChecked(u), NEW p \in SubtitleChecked(d),
               para' = p \/ para' \in Updated([p EXCEPT !.end = TRUE])
        PROVE  ~para'.search
    <3>1. u \in Paras(Live, AnyCodec) /\ ~u.search BY UpdatedStays, UpdatedEases DEF Eases
    <3>0. d \in Paras(Live, AnyCodec) /\ ~d.search
      BY <3>1, DecoderCheckedStays DEF DecoderChecked, Paras
    <3>2. p \in Paras(Live, AnyCodec) /\ ~p.search
      BY <3>0, SubtitleCheckedStays, SubtitleEases DEF Eases
    <3>3. /\ [p EXCEPT !.end = TRUE] \in Paras(Live, AnyCodec)
          /\ ~[p EXCEPT !.end = TRUE].search
      BY <3>2 DEF Paras
    <3>. QED BY <2>1, <3>2, <3>3, UpdatedEases DEF Eases
  <2>2. CASE Fail BY <2>2 DEF Fail, Paras
  <2>. QED BY <1>7, <2>1, <2>2 DEF Written
<1>8. CASE WaitEnd BY <1>8 DEF WaitEnd, DecoderChecked, Paras
<1>9. CASE EndDecide
  <2>1. CASE Breaks(para)
    <3>1. \E b : para' = [Broken(para) EXCEPT !.read_end = b] BY <1>9, <2>1 DEF EndDecide
    <3>. QED BY <1>3, <2>1, <3>1 DEF Paras
  <2>2. CASE ~Breaks(para) BY <1>9, <2>2, GoesOnEases DEF EndDecide, Eases
  <2>. QED BY <2>1, <2>2
<1>10. CASE EndUpdate \/ Closing BY <1>10, UpdatedEases DEF EndUpdate, Closing, Eases
<1>11. CASE Leave
  <2>1. CASE para' = para BY <2>1
  <2>2. CASE para' \in Updated([para EXCEPT !.status = "SEARCHING"])
    <3>1. Eases(para', para) BY <2>2, PublishedEases, Published DEF AnyCodec
    <3>. QED BY <3>1 DEF Eases
  <2>. QED BY <1>11, <2>1, <2>2 DEF Leave
<1>12. CASE Reset
  <2>1. Restarted(para) = {Fresh(para)} BY DEF Restarted
  <2>2. Fresh(para) \in Paras(Live, AnyCodec) /\ ~Fresh(para).search
    <3>1. Fresh(para) \in Paras(Live, AnyCodec) BY RestartedStays, ParasGrow
    <3>. QED BY <3>1 DEF Fresh, Paras
  <2>3. para' \in {Served(Fresh(para)), [Fresh(para) EXCEPT !.status = "PLAYEND"],
                   [Fresh(para) EXCEPT !.status = "ERROR"]}
    BY <1>12, <2>1 DEF Reset
  <2>. QED BY <2>2, <2>3 DEF Served, Paras
<1>13. CASE Release0 \/ Exit BY <1>13 DEF Release0, Exit, Paras
<1>. QED BY <1>1, <1>2, <1>4, <1>5, <1>6, <1>7, <1>8, <1>9, <1>10, <1>11, <1>12, <1>13
  DEF PlayerThread

(* Taking one: a SEARCH asks for the seek and for the end before it; while *)
(* the player waits for its start it only sets where to begin.             *)
LEMMA SearchTaking ==
  ASSUME para \in Paras(Live, AnyCodec), QueueOK, ~para.search, WaitStart \/ GetMessage,
         para'.search
  PROVE  para'.end /\ pc' \in {"decide", "enddecide"}
<1>1. ASSUME queue # << >>, NEW p \in CheckMsg(para, Head(queue))
      PROVE  p \in Paras(Live, AnyCodec) /\ (p.search => p.end /\ Head(queue) = "SEARCH")
  <2>1. Head(queue) \in Command \cup {"STOP"} BY <1>1, HeadTailProperties DEF QueueOK
  <2>2. p \in Paras(Live, AnyCodec) BY <1>1, <2>1, CheckMsgStays
  <2>3. CASE Head(queue) = "STOP"
    <3>1. p \in Stopping(para) BY <1>1, <2>1, <2>3, CheckMsgAsks
    <3>. QED BY <2>2, <3>1 DEF Stopping, Paras
  <2>4. CASE Head(queue) # "STOP"
    <3>1. p.search => Head(queue) = "SEARCH" BY <1>1, <2>1, <2>4, CheckMsgAsks
    <3>2. Head(queue) = "SEARCH" => p.end
      BY <1>1 DEF CheckMsg, Searched, SearchCommand, FastCommand, Paras
    <3>. QED BY <2>2, <3>1, <3>2
  <2>. QED BY <2>3, <2>4
<1>2. CASE GetMessage BY <1>1, <1>2 DEF GetMessage, Decision
<1>3. CASE WaitStart
  <2>1. queue # << >> /\ Head(queue) # "START" BY <1>3 DEF WaitStart
  <2>2. PICK p \in IF Head(queue) = "SEARCH" THEN {para} ELSE CheckMsg(para, Head(queue)) :
          para' = p \/ para' = [p EXCEPT !.status = EndStatus(p)]
    BY <1>3, <2>1 DEF WaitStart
  <2>3. ~p.search /\ p \in Paras(Live, AnyCodec) BY <1>1, <2>1, <2>2
  <2>. QED BY <2>2, <2>3 DEF Paras
<1>. QED BY <1>2, <1>3

(* Carrying it: one place at a time, until the reset answers it. *)
LEMMA SearchCarried ==
  ASSUME "pcm_end" \notin Can, para \in Paras(Live, AnyCodec), ~para.fast,
         para.search, para.end, pc \in Resetting, PlayerThread
  PROVE  \/ Carried /\ para'.end /\ pc' \in Resetting
         \/ Answered /\ (~para'.search \/ pc' \in Past)
<1>1. Breaks(para) /\ Broken(para) = para /\ ~Leaves(para)
  BY DEF Breaks, Broken, Leaves
<1>2. CASE pc = "decide"
  <2>1. Decide
    BY <1>2 DEF PlayerThread, Begin, Open, Typed, DecInit, WaitStart, Prepare, GetMessage,
       WaitForFrame, Read, Hold, Promote, Write, Written, WaitEnd, EndDecide, EndUpdate,
       Leave, Reset, Release0, Closing, Exit
  <2>2. para' = para /\ pc' = "waitend" BY <1>1, <2>1 DEF Decide
  <2>. QED BY <1>2, <2>2, LeftPlaces DEF Carried, Nearer, Resetting, Past
<1>3. CASE pc = "enddecide"
  <2>1. EndDecide
    BY <1>3 DEF PlayerThread, Begin, Open, Typed, DecInit, WaitStart, Prepare, GetMessage,
       WaitForFrame, Decide, Read, Hold, Promote, Write, Written, WaitEnd, EndUpdate,
       Leave, Reset, Release0, Closing, Exit
  <2>2. para' = [para EXCEPT !.read_end = FALSE] /\ pc' = "leave"
    BY <1>1, <2>1 DEF EndDecide
  <2>3. para'.search /\ para'.end BY <2>2 DEF Paras
  <2>. QED BY <1>3, <2>2, <2>3, LeftPlaces DEF Carried, Nearer, Resetting, Past
<1>4. CASE pc = "waitend"
  <2>1. WaitEnd
    BY <1>4 DEF PlayerThread, Begin, Open, Typed, DecInit, WaitStart, Prepare, GetMessage,
       WaitForFrame, Decide, Read, Hold, Promote, Write, Written, EndDecide, EndUpdate,
       Leave, Reset, Release0, Closing, Exit
  <2>2. para' = para /\ pc' = "leave" BY <2>1 DEF WaitEnd
  <2>. QED BY <1>4, <2>2, LeftPlaces DEF Carried, Nearer, Resetting, Past
<1>5. CASE pc = "leave"
  <2>. DEFINE p == [para EXCEPT !.status = "SEARCHING"]
  <2>1. Leave
    BY <1>5 DEF PlayerThread, Begin, Open, Typed, DecInit, WaitStart, Prepare, GetMessage,
       WaitForFrame, Decide, Read, Hold, Promote, Write, Written, WaitEnd, EndDecide,
       EndUpdate, Reset, Release0, Closing, Exit
  <2>2. p.status = "SEARCHING" /\ p.end /\ p.search BY DEF Paras
  <2>3. Buffered(p) = {p} BY <2>2 DEF Buffered
  <2>4. Ended(p) = {p} BY <2>2 DEF Ended, EndNoticed
  <2>5. Updated(p) = {p} BY <2>3, <2>4 DEF Updated
  <2>6. pc' = "reset" /\ para' \in {para, p} BY <1>1, <2>1, <2>5 DEF Leave
  <2>7. para'.search /\ para'.end BY <2>2, <2>6
  <2>. QED BY <1>5, <2>6, <2>7, LeftPlaces DEF Carried, Nearer, Resetting, Past
<1>6. CASE pc = "reset"
  <2>. DEFINE p == Fresh(para)
  <2>1. Reset
    BY <1>6 DEF PlayerThread, Begin, Open, Typed, DecInit, WaitStart, Prepare, GetMessage,
       WaitForFrame, Decide, Read, Hold, Promote, Write, Written, WaitEnd, EndDecide,
       EndUpdate, Leave, Release0, Closing, Exit
  <2>2. Restarted(para) = {p} BY DEF Restarted
  <2>3. p \in Paras(Live, AnyCodec) /\ p.search /\ ~p.end
    <3>1. p \in Paras(Live, AnyCodec) BY RestartedStays, ParasGrow
    <3>. QED BY <3>1 DEF Fresh, Paras
  <2>4. \/ para' = Served(p)
        \/ para' = [p EXCEPT !.status = "ERROR"] /\ pc' = "release0"
    <3>. HIDE DEF p
    <3>. QED BY <2>1, <2>2, <2>3 DEF Reset, p
  <2>. HIDE DEF p
  <2>. QED BY <1>6, <2>3, <2>4 DEF Served, Paras, Answered, Past
<1>. QED BY <1>2, <1>3, <1>4, <1>5, <1>6 DEF Resetting

(* Nobody winds: only FF asks for it. *)
NotWinding == ~para.fast /\ MateInside

LEMMA UnwoundStays ==
  ASSUME para \in Paras(Live, AnyCodec), ~para.fast, PlayerThread, ~WaitStart, ~GetMessage
  PROVE  ~para'.fast
<1>1. CASE Begin \/ Open \/ Typed \/ DecInit \/ Prepare
  BY <1>1 DEF Begin, Open, Typed, DecInit, Prepare, Fail, Paras
<1>2. CASE WaitForFrame \/ Hold BY <1>2 DEF WaitForFrame, Hold
<1>3. Broken(para) \in Paras(Live, AnyCodec) /\ ~Broken(para).fast
  <2>1. ~Broken(para).fast BY DEF Broken, Paras
  <2>. QED BY <2>1, BrokenStays
<1>4. CASE Decide
  <2>1. CASE para' \in {Broken(para), [Broken(para) EXCEPT !.end = TRUE]}
    BY <1>3, <2>1 DEF Paras
  <2>2. CASE para' \in GoesOn(para) BY <2>2, GoesOnEases DEF Eases
  <2>. QED BY <1>4, <2>1, <2>2 DEF Decide
<1>5. CASE Read \/ Write BY <1>5 DEF Read, Write, Fail, Paras
<1>6. CASE Promote BY <1>6, GoesOnEases DEF Promote, Eases
<1>7. CASE Written
  <2>1. ASSUME NEW u \in Updated(para), NEW d \in DecoderChecked(u), NEW p \in SubtitleChecked(d),
               para' = p \/ para' \in Updated([p EXCEPT !.end = TRUE])
        PROVE  ~para'.fast
    <3>1. u \in Paras(Live, AnyCodec) /\ ~u.fast BY UpdatedStays, UpdatedEases DEF Eases
    <3>2. d \in Paras(Live, AnyCodec) /\ ~d.fast
      BY <3>1, DecoderCheckedStays DEF DecoderChecked, Paras
    <3>3. p \in Paras(Live, AnyCodec) /\ ~p.fast
      BY <3>2, SubtitleCheckedStays, SubtitleEases DEF Eases
    <3>4. /\ [p EXCEPT !.end = TRUE] \in Paras(Live, AnyCodec)
          /\ ~[p EXCEPT !.end = TRUE].fast
      BY <3>3 DEF Paras
    <3>. QED BY <2>1, <3>3, <3>4, UpdatedEases DEF Eases
  <2>2. CASE Fail BY <2>2 DEF Fail, Paras
  <2>. QED BY <1>7, <2>1, <2>2 DEF Written
<1>8. CASE WaitEnd BY <1>8 DEF WaitEnd, DecoderChecked, Paras
<1>9. CASE EndDecide
  <2>1. CASE Breaks(para)
    <3>1. \E b : para' = [Broken(para) EXCEPT !.read_end = b] BY <1>9, <2>1 DEF EndDecide
    <3>. QED BY <1>3, <3>1 DEF Paras
  <2>2. CASE ~Breaks(para) BY <1>9, <2>2, GoesOnEases DEF EndDecide, Eases
  <2>. QED BY <2>1, <2>2
<1>10. CASE EndUpdate \/ Closing BY <1>10, UpdatedEases DEF EndUpdate, Closing, Eases
<1>11. CASE Leave
  <2>1. CASE para' = para BY <2>1
  <2>2. CASE para' \in Updated([para EXCEPT !.status = "SEARCHING"])
    <3>1. Eases(para', para) BY <2>2, PublishedEases, Published DEF AnyCodec
    <3>. QED BY <3>1 DEF Eases
  <2>. QED BY <1>11, <2>1, <2>2 DEF Leave
<1>12. CASE Reset
  <2>1. Restarted(para) = {Fresh(para)} BY DEF Restarted
  <2>2. Fresh(para) \in Paras(Live, AnyCodec) /\ ~Fresh(para).fast
    <3>1. Fresh(para) \in Paras(Live, AnyCodec) BY RestartedStays, ParasGrow
    <3>. QED BY <3>1 DEF Fresh, Paras
  <2>3. para' \in {Served(Fresh(para)), [Fresh(para) EXCEPT !.status = "PLAYEND"],
                   [Fresh(para) EXCEPT !.status = "ERROR"]}
    BY <1>12, <2>1 DEF Reset
  <2>. QED BY <2>2, <2>3 DEF Served, Paras
<1>13. CASE Release0 \/ Exit BY <1>13 DEF Release0, Exit, Paras
<1>. QED BY <1>1, <1>2, <1>4, <1>5, <1>6, <1>7, <1>8, <1>9, <1>10, <1>11, <1>12, <1>13
  DEF PlayerThread

LEMMA CheckMsgUnwound ==
  ASSUME "FF" \notin Command, NEW p \in Paras(Live, AnyCodec), ~p.fast,
         NEW c \in Command \cup {"STOP"}, NEW q \in CheckMsg(p, c)
  PROVE  ~q.fast
<1>1. CASE c = "STOP"
  <2>1. q \in Stopping(p) BY <1>1 DEF CheckMsg, SearchCommand, FastCommand
  <2>. QED BY <2>1 DEF Stopping, Paras
<1>2. CASE c \in SearchCommand
  <2>. DEFINE r == IF p.status = "SEARCHING"
                   THEN [p EXCEPT !.fast = FALSE, !.f_step = FALSE] ELSE p
              e == [r EXCEPT !.end = TRUE, !.search = FALSE, !.status = "PLAYEND"]
  <2>1. r \in Paras(Live, AnyCodec) /\ ~r.fast BY DEF Paras
  <2>2. q \in Searched(p, c) BY <1>2 DEF CheckMsg, SearchCommand, FastCommand
  <2>3. CASE c # "SEARCH_END"
    <3>1. \/ q = [r EXCEPT !.search = TRUE, !.end = TRUE]
          \/ q = [r EXCEPT !.reset = TRUE, !.end = TRUE]
      BY <1>2, <2>2, <2>3 DEF Searched, SearchCommand
    <3>. HIDE DEF r
    <3>. QED BY <2>1, <3>1 DEF Paras
  <2>4. CASE c = "SEARCH_END"
    <3>1. q \in Updated(e) BY <2>2, <2>4 DEF Searched
    <3>2. e \in Paras(Live, AnyCodec) /\ ~e.fast
      <4>. HIDE DEF r
      <4>. QED BY <2>1, Published DEF Paras
    <3>. HIDE DEF e
    <3>. QED BY <3>1, <3>2, UpdatedEases DEF Eases
  <2>. QED BY <2>3, <2>4
<1>3. CASE c \in FastCommand
  <2>1. c = "FF_OFF" BY <1>3 DEF FastCommand
  <2>2. q \in Fast(p, c) BY <1>3 DEF CheckMsg, FastCommand, SearchCommand
  <2>. QED BY <2>1, <2>2 DEF Fast, Paras
<1>4. CASE c \in ProxyCommand
  <2>1. \E b \in BOOLEAN : q \in {p, [p EXCEPT !.pause = b], [p EXCEPT !.loop = b]}
    BY <1>4 DEF CheckMsg, ProxyCommand, SearchCommand, FastCommand
  <2>. QED BY <2>1 DEF Paras
<1>. QED BY <1>1, <1>2, <1>3, <1>4, PlayerAssumption

LEMMA NotWindingStep ==
  ASSUME Unwound, PlayerInv, NotWinding, [Next]_vars
  PROVE  NotWinding'
<1>1. MateInside' BY MateInsideStep DEF NotWinding, Unwound
<1>2. ASSUME pc # "done" PROVE para \in Paras(Live, AnyCodec) BY <1>2 DEF PlayerInv, ParaOK
<1>3. CASE PlayerThread
  <2>1. pc # "done"
    BY <1>3 DEF PlayerThread, Begin, Open, Typed, DecInit, WaitStart, Prepare,
       GetMessage, WaitForFrame, Decide, Read, Hold, Promote, Write, Written, WaitEnd,
       EndDecide, EndUpdate, Leave, Reset, Release0, Closing, Exit
  <2>2. CASE ~WaitStart /\ ~GetMessage
    BY <1>1, <1>2, <1>3, <2>1, <2>2, UnwoundStays DEF NotWinding
  <2>3. ASSUME queue # << >>, NEW p \in CheckMsg(para, Head(queue))
        PROVE  ~p.fast /\ ~[p EXCEPT !.status = EndStatus(p)].fast
    <3>1. Head(queue) \in Command \cup {"STOP"}
      BY <2>3, HeadTailProperties DEF PlayerInv, QueueOK
    <3>2. ~p.fast /\ p \in Paras(Live, AnyCodec)
      BY <1>2, <2>1, <2>3, <3>1, CheckMsgUnwound, CheckMsgStays DEF NotWinding, Unwound
    <3>. QED BY <3>2 DEF Paras
  <2>4. ~[para EXCEPT !.status = EndStatus(para)].fast
    BY <1>2, <2>1 DEF NotWinding, Paras
  <2>5. CASE WaitStart BY <1>1, <2>3, <2>4, <2>5 DEF WaitStart, NotWinding
  <2>6. CASE GetMessage BY <1>1, <2>3, <2>6 DEF GetMessage, NotWinding
  <2>. QED BY <2>2, <2>5, <2>6
<1>4. CASE MateThread
  <2>1. pc # "done"
    BY <1>4 DEF MateThread, MateStart, MateCommand, MateCommit, MateNotices, MateConcludes,
       NotWinding, MateInside, Working
  <2>. QED BY <1>1, <1>2, <1>4, <2>1, MateEases DEF NotWinding, PlayerInv, Eases
<1>5. CASE Controller \/ \E c \in Command : SendCommand(c)
  BY <1>1, <1>5 DEF Controller, Call, Interrupt, SendStop, Join, ExitJoin, SendCommand, notapp,
     NotWinding
<1>6. CASE Gone \/ UNCHANGED vars BY <1>1, <1>6 DEF Gone, vars, NotWinding
<1>. QED BY <1>3, <1>4, <1>5, <1>6 DEF Next

(* Every step. *)
LEMMA SearchStep ==
  ASSUME "pcm_end" \notin Can, PlayerInv, NotWinding, SearchTaken, [Next]_vars
  PROVE  SearchTaken' /\ (para.search /\ pc \notin Past => Carried \/ Answered)
<1>1. ~para.fast /\ MateInside BY DEF NotWinding
<1>2. ASSUME UNCHANGED <<para, pc>>
      PROVE  SearchTaken' /\ (para.search => Carried)
  BY <1>2 DEF SearchTaken, Carried
<1>3. CASE PlayerThread
  <2>1. CASE pc \in Past
    <3>1. Release0 \/ Closing \/ Exit
      BY <1>3, <2>1 DEF Past, PlayerThread, Begin, Open, Typed, DecInit, WaitStart, Prepare,
         GetMessage, WaitForFrame, Decide, Read, Hold, Promote, Write, Written, WaitEnd,
         EndDecide, EndUpdate, Leave, Reset
    <3>. QED BY <2>1, <3>1 DEF Release0, Closing, Exit, Past, SearchTaken
  <2>2. CASE pc \notin Past
    <3>1. para \in Paras(Live, AnyCodec) BY <2>2 DEF PlayerInv, ParaOK, Past
    <3>2. CASE para.search
      BY <1>1, <1>3, <2>2, <3>1, <3>2, SearchCarried DEF SearchTaken
    <3>3. CASE ~para.search
      <4>1. CASE WaitStart \/ GetMessage
        BY <3>1, <3>3, <4>1, SearchTaking DEF PlayerInv, SearchTaken, Resetting
      <4>2. CASE ~(WaitStart \/ GetMessage)
        BY <1>1, <1>3, <3>1, <3>3, <4>2, SearchStays DEF SearchTaken
      <4>. QED BY <3>3, <4>1, <4>2
    <3>. QED BY <3>2, <3>3
  <2>. QED BY <2>1, <2>2
<1>4. CASE MateThread
  <2>1. mate \in {"posted", "awake"} \cup Working /\ pc' = pc
    BY <1>4 DEF MateThread, MateStart, MateCommand, MateCommit, MateNotices, MateConcludes,
       notmate, Working
  <2>2. pc \in {"read", "hold"} BY <1>1, <2>1 DEF MateInside
  <2>3. para \in Paras(Live, AnyCodec) /\ ~para.search
    BY <2>2 DEF PlayerInv, ParaOK, SearchTaken, Resetting, Past
  <2>4. ~para'.search BY <1>4, <2>3, MateEases DEF PlayerInv, Eases
  <2>. QED BY <2>3, <2>4 DEF SearchTaken
<1>5. CASE Controller \/ \E c \in Command : SendCommand(c)
  BY <1>2, <1>5 DEF Controller, Call, Interrupt, SendStop, Join, ExitJoin, SendCommand, notapp
<1>6. CASE Gone \/ UNCHANGED vars BY <1>2, <1>6 DEF Gone, vars
<1>. QED BY <1>3, <1>4, <1>5, <1>6 DEF Next

(* A seek that was taken reaches the reset that serves it, and is answered *)
(* there, if nobody winds, no mate is late and the audio DSP does not      *)
(* report the end: the last would wipe it after the reset is decided on.   *)
THEOREM PlayerSearchHeld ==
  ASSUME Unwound, "pcm_end" \notin Can
  PROVE  Spec => SearchHeld
<1>1. Init => SearchTaken /\ NotWinding
  BY DEF Init, SearchTaken, NotWinding, MateInside, Working
<1>2. ASSUME PlayerInv, NotWinding, SearchTaken, [Next]_vars PROVE SearchTaken' /\ NotWinding'
  BY <1>2, SearchStep, NotWindingStep
<1>3. Spec => [](PlayerInv /\ NotWinding /\ SearchTaken)
  BY <1>1, <1>2, PlayerInvariant, PTL DEF Spec
<1>4. PlayerInv /\ NotWinding /\ SearchTaken /\ [Next]_vars
        => [para.search /\ pc \notin Past =>
              \/ para'.search /\ (pc' = pc \/ (Nearer /\ pc' \notin Past))
              \/ pc = "reset" /\ para'.status \in {"SEARCHOK", "ERROR"}]_vars
  BY SearchStep DEF Carried, Answered
<1>. QED BY <1>3, <1>4, PTL DEF Spec, SearchHeld
=============================================================================
