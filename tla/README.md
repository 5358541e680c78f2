# Verification of libplayer's player, loop buffer and audio decoder

`LibPlayer` is the media player library of these Amlogic Android packages; the
Java applications in the tree are user interfaces on top of it. Its concurrent
core is `LibPlayer/amplayer/player`: application threads start, command, stop
and exit players; every player has a player thread and a mate thread; nearly
everything they share is shared without a lock. Below it lies the loop buffer through which
the player reads its sources, beside it the audio decoder manager, a thread with
a command ring of its own. This directory specifies them in TLA+, checks the
specifications with TLC and proves every safety property of its passing runs with TLAPS (section
5 says under which assumptions).

Paths below are relative to `LibPlayer/amplayer/player` unless they begin with
`LibPlayer/` or name another package.

## 1. Inventory

| Component | Code | State | Operations | Interacts with | Hard | What makes it correct |
|---|---|---|---|---|---|---|
| Player ids | `player_id.c` | id bitmap, data pointer and use count per id, `last` | request, release, init, open, close | every API call opens and closes the id; `player_start`/`player_exit` own it | threads calling at once; failed starts; the rotation of ids | an id has one owner, is not lost, and what it stands for is allocated while in use |
| Command ring | `message.c` | 8 slots, two indexes, a counter, heap cells | alloc, send, update, get, peek, free, clear | applications send; player thread, mate and `player_stop` take | overflow, update in two lock periods, two consumers | a bounded FIFO; every cell is owned once and freed once |
| Player thread | `player.c`, `player_update.c` | `play_para_t`: published status, control flags, codec, current packet | open, initialise, play loop, end loop, reset, release | takes commands, wakes and silences the mate, is cut short by `ffmpeg_interrupt` | flags set in one place and tested in another; every step may meet a command, an error or the end | a stop ends it as STOPED, a seek is answered, status and decoder agree, EXIT is last |
| Mate thread | `player_mate.c` | running / should sleep / should exit flags, a semaphore | wake, sleep, release, command proxy, update | works on `play_para_t` while the player thread is inside ffmpeg | the hand-over in both directions; multi-step updates | never works while the player thread does; is gone before anything is released |
| Controller API | `player_ctrl.c`, `thread_mgt.c` | none of its own | start, stop, stop_async, exit, send_message and wrappers | ids, ring, kill list, join, free | decisions on a status that is changing; free while others use | stop and exit return, and mean what they say |
| FFmpeg control | `player_ffmpeg_ctrl.c` | kill list | interrupt, uninterrupt, buffering | cuts the player thread's blocking calls | abort after 10000 polls | a stopped player is not stuck in a read |
| Decoder set-up, packets | `player_para.c`, `player_av.c`, `player_es.c`, ... | codec handles, packet | init, reset, seek, read, write | device drivers | mostly sequential data | outcomes only, as choices |
| Decoder library | `LibPlayer/amcodec` | device state | ioctls | - | - | pause / resume as seen by the player |
| Loop buffer | `LibPlayer/amffmpeg/libavformat/aviolpbuf.c` | a ring, its read and write pointers, how many bytes are valid, the offset of the next fill | read, seek (to an offset, to the end, by time), fill in advance, reset | the player thread calls it through ffmpeg; it reads and seeks the source | pointers that go round; what a seek back may still use; seeks by reading; a source that delivers in pieces, or refuses | a reader sees the bytes of the source in order, a seek lands, calls return |
| Stream cache | `player_cache_*.c` | segment list, file | add, lookup, evict | behind the loop buffer, if the application turns it on | - | not modelled |
| Stream source | `LibPlayer/streamsource` | old/new buffer queues, reader thread | open, read, seek, close | `examples/kplayer.c` only | - | not modelled |
| Audio decoder manager | `LibPlayer/amadec`, `LibPlayer/amcodec/audio_ctl` | command ring, state, codec, two threads, output track, format and automute flags | start, pause, resume, mute, automute, stop | the player's threads send; the message loop takes; library threads and the track's callback use the codec | waits for clocks, format changes, overflow, teardown of what others use | the codec is there while used, the output follows the state, a stop leaves nothing and returns |
| Lists, sysfs | `LibPlayer/amavutils` | locked lists | add, get, match | the kill list | one lock period per call | not modelled (a set in `Player`) |
| DVB, simple players, examples, JNI, Java packages | see `PROJECT.json` | - | - | call the API | - | not modelled |
| ffmpeg, flac, mad, ape, iconv, rtmp, mms | vendored | - | - | - | - | not modelled |

The interactions in one picture: an application call opens an id, puts a command
in the ring of that id's player, and closes the id. The player thread takes one
command per turn of its loop (`check_flag` / `check_msg`), changes flags of
`playctrl_info`, and reads and writes packets; before it enters ffmpeg it wakes
the mate, which then takes the commands that need no reset (pause, resume,
start, loop, noloop) and keeps the published state fresh, and after it leaves
ffmpeg it waits for the mate to rest. `player_stop` marks the thread as killed
for ffmpeg, sends a STOP and joins it; `player_exit` frees `play_para_t` and
then gives the id back.

The hazards found in this survey, each at its line, are in `PROJECT.json`.

## 2. Modules

| Module | What it is |
|---|---|
| `CommandQueue` | abstract: a bounded FIFO of commands, with the amendment of a search at its head |
| `MessagePool` | the ring of `message.c`, with heap cells, senders and readers |
| `MCMessagePool` | instances of it for TLC |
| `MessagePoolProof` | its inductive invariant, proved |
| `MessagePoolRefines` | that it implements `CommandQueue`, proved |
| `Player` | player thread, mate thread, senders and controller around one `play_para_t`; its ring is an instance of `CommandQueue` |
| `MCPlayer` | instances of it |
| `PlayerProof` | its inductive invariant, and what follows from it, proved |
| `PlayerStops` | that a STOP is not lost, leads straight to the end, is reported and is final, proved |
| `PlayerPause` | that the published status is what the decoder does, and that a seek taken is carried out, proved |
| `PlayerIdPool` | player ids, and the life of the blocks behind them |
| `MCPlayerIdPool` | instances of it |
| `PlayerIdPoolProof` | its inductive invariant, proved |
| `ByteStream` | abstract: a cursor over the bytes of a source |
| `LoopBuffer` | the ring of `aviolpbuf.c`: reads, seeks, fills |
| `MCLoopBuffer` | an instance of it |
| `LoopBufferProof` | its inductive invariant, that it implements `ByteStream` and that no round of a call is in vain, proved |
| `AudioDec` | the audio decoder manager: client, message loop, codec, threads, track |
| `MCAudioDec` | an instance of it |
| `AudioDecProof` | its inductive invariant, and that a stop waits for nothing that cannot come, proved |

`Player` uses the ring only through `CommandQueue`. That is sound because
`MessagePoolRefines` proves that the ring behaves so for any capacity, any
number of senders and any number of readers. The ring of `AudioDec`
(`adec-message.c`, 12 slots) is the code of `message.c` without its update, so
the sequence that stands for it there rests on the same proof. `LoopBuffer` and
`Player` are not composed: `Player` treats a read as an outcome, and what
`ByteStream` promises, the bytes and their order, is data that `Player` leaves out.

Some modules hold definitions whose comment begins with "Slip:". Each is a bug
somebody could have made in the definition it stands before; no specification
refers to them, and `PROJECT.json` lists which property catches which.

### 2.1 `MessagePool`

State: `message_list`, `message_in_index`, `message_out_index`, `message_num`
as in `message_pool_t`; `heap` and `content` for the cells `message_alloc` hands
out; where each sender stands, and which cell each sender and reader holds.
Each function that holds `msg_mutex` throughout is one action:
`SendRoom`/`SendFull` (the two branches of `send_message`), `Get`
(`get_message`, also in `clear_all_message`), `Proxy` (the mate's peek and take
under one hold). `send_message_update` unlocks in the middle, so it is
`Update`, or `ScanFails` followed later by a send. `message_free` is `Release`.
A failed `malloc` sends nothing and is left out.

### 2.2 `Player`

`pc` is the place in `player_thread`, one value per stretch between two points
where another thread can make a difference: after each command, each read, each
write, each update. `para` is the part of `play_para_t` that threads share:
the status published by `set_player_state`, the codec as absent, running or
paused, and the nine flags of `playctrl_info` that decide the control flow. Actions carry the
names of the code's stages; helpers on `para` carry those of its functions:
`CheckMsg` = `check_msg` (`Stopping` is its branch for a stop), `Breaks`/`Broken`/`GoesOn` = the tail of
`check_flag`, `Updated` = `update_playing_info`, `DecoderChecked` =
`check_decoder_worksta`, `Fresh`/`Restarted`/`Served` = `player_reset` and what
follows it. Each returns the set of values the shared state may have after it, because buffer levels,
clocks and decoder states are inputs. `SubtitleChecked` is `check_subtitle_info`,
which publishes FOUND_SUB over whatever is shown when a program stream turns out
to have subtitles.

Positions, speeds, packets, levels and times are not represented. Where the
code branches on one of them, the model may go either way, within what the
instance allows through `Can`: the options of `player_start` (`need_start`,
`type_parser`, `rw_on_pause`, `loop_mode`), whether there is video, whether auto
buffering is on, and what may go wrong (`io_error`, `decoder_error`, `pcm_end`,
`late_mate`, `codec_error`, `subtitle`). With `codec_error`, `codec_pause` and
`codec_resume` may leave the decoder as it was (`Codecs`); their callers only log
that and publish the status all the same.

The mate's own updates are cut where the code acts on the decoder first and
publishes later (`MateCommand`/`MateCommit`, `MateNotices`/`MateConcludes`);
between the two the player thread, the application and the ring move on. The hand-over is
`mate`: asleep, posted (woken, not yet running), awake, or in the middle of one
of those changes. `player_mate_sleep` returns when `mate_isrunng` is clear; with
`late_mate` that includes a mate that is posted and has not been scheduled.

The controller is the thread that stops and exits. It may call stop, stop_async
and exit at any time, repeatedly; other threads send commands at any time until
the player is freed.

### 2.3 `PlayerIdPool`

State: the bitmap, the data pointer and the count per id, `last`; which blocks
are allocated; for every application thread where it stands and which id and
block it works on; `players`, the ids `player_start` has returned and nobody has
exited; `lost`, the ids of starts that ran out of memory; `strays`, a history of
the ids that were opened during their start or exit. Each function of `player_id.c` holds the mutex
throughout and is one step; `player_start` is `Request`, `Malloc`, `InitData`,
`Create` (and `FailRelease`), `player_exit` is `Exit`, `Free`, `ExitClose`,
`ExitRelease`, other calls are `Open` and `Close`.

A call may be made on every id `player_list_pid` shows, which are all the ids
in use: those of players, of starts that have not got a block yet, failed or ran
out of memory, and of exits under way. A call on an id that is not a player's is
`"listed"`. Its block may be freed under it, and it may be opened on a pointer
that is already freed: `player_start` frees the block when
`player_thread_create` fails and clears the table only in `player_release_pid`
(`player_ctrl.c:147-149`). What it opened when there was no data is never closed.
The code does nothing about either, so that `NoUseAfterFree` speaks of calls on
players, and `UsedCounts` excepts the strays.

Of the application one thing is assumed, which `player_ctrl.c:323` asks for:
`player_exit` comes in a pair with a start, that is, it is called on an id
that a `player_start` has left behind (a lost id too), once, and not while
another of the application's calls on that id is under way (`Quiet`). The library
has no protection from an exit that breaks this. The
JNI code of the video player exits whatever is listed when it is shut down
(`native_uninit`); that nobody starts or exits a player meanwhile is up to its caller.

### 2.4 `LoopBuffer`

State: `buffer`, `rp`, `wp`, `valid` (`valid_data_size`) and `pos` as in
`url_lpbuf_t`; `low`, where the source stands; the call that is being served
(`pc`, `len`, `got`, `ret`). A byte is <<title, offset>>, where `title` counts the
seeks by time, because after one the source numbers other bytes from 0. With that
every byte of the ring is distinguishable, and a byte delivered twice, skipped or
overwritten while it is still on offer is visible. When the ring is emptied the
code leaves the old bytes in place; the model marks them `Stale`.

A call begins with `Call`; `Copy`/`FillForRead` are the two kinds of round of
`url_lpread`'s loop, `Skip`/`FillForSkip` those of the same loop without a
buffer, in a seek by reading; `SeekInRing`, `SeekByReading`, `SeekSource`,
`SeekEnd` are the branches of `url_lpseek`, `SeekTime` those of `url_lpexseek`
that reach the ring and of `url_lpreset`, `Buffering` is
`url_lp_intelligent_buffering`. `Filled` and `NotFilled` are what
`url_lpfillbuffer` may do: the source gives any number of bytes up to what is
asked for, nothing, an error or EAGAIN. Only the player thread calls (the mate only reads
`pos`), so the lock is left out. SEEK_CUR adds the offset of
the next byte and is a seek to an offset. AVSEEK_SIZE leaves the ring and `low`
alone. The limit `max_forword_level` is compared with the quotient of an integer
division (`aviolpbuf.c:668`) and holds nothing back; the model leaves it out.

A seek by reading keeps the bytes it has to read in an int (`aviolpbuf.c:465`).
`AsInt` is that conversion and `PassOver` what the code makes of it: a way of
`IntLimit` bytes or more is cut, read in part or not at all, and the seek returns
the offset as if it were there; `cut` remembers that. When a source has refused
a seek the code puts it back to `pos`. If that works the source is there; if it fails
too (EIO) it is taken to be where it was, since `http_reopen_cnx` restores its
offset (`http.c:252`).
`url_lpfree` and the cache file (off unless the application calls
`player_cache_system_init`) are not modelled.

### 2.5 `AudioDec`

`pc` is the place of the message loop, `adec_armdec_loop` when `arm` (the codec
is a decoder library), `adec_message_loop` otherwise; `arm` is chosen with the
session, as `set_audio_decoder` does. `Boot`, `InitCodec`, `InitOut`,
`StartWorkers` and `FirstPts`/`StartMuted` are the set-up, which begins again when a stage
fails; `ResetTrack`/`ClearFlag`, `FlagCheck`/`Unmute` and `Take...` are a turn;
`ReleaseCodec` is the rest of a stop after the track is gone, the join of the two
threads included. `codec` is what the loop frees and others use; `track`
plays, and so calls back, only in `"playing"`. `client` is the thread that runs a
session (`audio_start`, `audio_stop` with `need_stop`, STOP, RELEASE, the join and
the free); any thread may mute, and a seek sets and clears `auto_mute`
(`AutoMute`, `RefreshPts`).

CMD_START is never sent by `audio_ctrl.c` and is left out; of the volume and
channel calls those made with a handle reach the ring and are `SET`, which
changes no state. Left out are what the two threads hand each other (a
package list and a pcm ring, guarded by home-made flags), clocks and formats
(`format_changed_flag` remains). The stop ioctl of the DSP is taken to succeed,
and so is `initCheck` of a track whose `set` did. Either thread of the
library may fail to be created, which `start_decode_thread` does not act on
(`StartWorkers`); the join of a thread that was never created is taken to return
at once, and the case that its id, an uninitialised or old one, names another live
thread is left out. The library's `audio_codec_init` writes a sysfs file until that
succeeds, whatever `need_stop` says (`SysfsWait`). After a
STOP was pushed out of a full ring the manager is freed with its threads
alive; the model stops there (`Restart`), which is why this run does not check
for deadlock.

## 3. Runs

| Run | Configuration | Expected | Shows |
|---|---|---|---|
| `pool` | `MCMessagePool.cfg` | holds | `TypeOK`, `IndexesAgree`, `OwnedOnce`, `NothingLeaks`, and the ring implements `CommandQueue` |
| `player` | `MCPlayer.cfg` | holds | `TypeOK`, `StopReported`, `PauseHolds`, `MateWorksAlone`, `StopKept`, the action properties `StopEnds`, `StopIsFinal` and `SearchHeld`, and the liveness of stop, exit and seek |
| `player_wild` | `MCPlayerWild.cfg` | holds | `FreedIsQuiet`, `ExitIsFinal` with everything that can go wrong |
| `stop_seek` | `MCPlayerStopSeek.cfg` | `StopIsFinal` fails | a stop during a seek to before the start is not a stop |
| `stop_reset` | `MCPlayerStopReset.cfg` | `StopReturns` fails | a decoder reset outlives a stop |
| `stop_dropped` | `MCPlayerStopDropped.cfg` | `StopReturns` fails | commands after a STOP push it out of the ring |
| `stop_overwritten` | `MCPlayerStopOverwritten.cfg` | `StopReported` fails | the last update publishes PLAYEND over the STOPED of a stop, when the audio DSP reports the end |
| `mate_late` | `MCPlayerMateLate.cfg` | `MateWorksAlone` fails | a late mate works beside the player thread |
| `ids` | `MCPlayerIdPool.cfg` | holds | six invariants of ids and blocks, with calls on ids that are being started or exited |
| `ids_start` | `MCPlayerIdPoolStart.cfg` | `CanStart` fails | the rotation of ids gets stuck |
| `loopbuf` | `MCLoopBuffer.cfg` | holds | `TypeOK`, `RingHolds`, `SeekLands`, the ring implements `ByteStream`, every call returns |
| `audio` | `MCAudioDec.cfg` | holds | `TypeOK`, `CodecInUse`, `OutputFollows`, `NothingLeft`, `StopReturns` |

The six things the failing runs show are described under "findings" in
`PROJECT.json`, each with the sentence of the code it contradicts.

`player` leaves out what the failing runs need, so that the properties have a
clean answer: `decoder_error` (`stop_reset`), negative seeks (`stop_seek`),
`late_mate` (`mate_late`), `pcm_end` (`stop_overwritten`), and winding, which
leaves the decoder paused under a status of RUNNING when it is asked for while
buffering. It also leaves out `codec_error` and `subtitle`, with which
`PauseHolds` fails (section 4). Its ring
is larger than the commands that can follow a STOP (`stop_dropped`).
`player_wild` puts all of that back and asks the questions that must hold even then.

### Bounds

| Bound | Where | Why it is enough |
|---|---|---|
| `MESSAGE_MAX` 3 (code: 8) | `pool` | the ring wraps, fills and overflows; the proof covers every size |
| 5 cells | `pool` | a full ring, and both senders or both readers holding one; more cells only postpone the reuse of an address. The proof covers any number |
| `MESSAGE_MAX` 4, `MaxCommands` 3 | `player` | a pause, resume and seek in a row plus a STOP; the properties relate at most three commands |
| `MESSAGE_MAX` 2, `MaxCommands` 2 | `player_wild` | the ring overflows as well |
| `MAX_PLAYER_THREADS` 3, 4 (code: 32) | `ids`, `ids_start` | the rotation passes its end; with 4 ids there are two ways to approach it. The proofs cover any number |
| `BufferSize` 6, `FileSize` 10 (code: a ring of 64 MB, or of 32 KB for small streams) | `loopbuf` | the ring is gone round within a title, and fills exactly; the proof covers every size |
| `Reserve`, `BackMargin` 1, `FillMargin` 2, `BlockReadSize` 3 (code: 32, 64, 1024, and 32 KB or 2 KB) | `loopbuf` | their order is that of the code, and a fill in advance below its margin can still fill the ring up |
| `MaxReadSeek` 3, `ReadSize` {1, 4} | `loopbuf` | seeks by reading and by the source both happen; a read is within a block or needs a second one |
| `MaxTitle` 1 | `loopbuf` | one seek by time: stale bytes are those of the title before |
| `IntLimit` 4 (code: 2^31) | `loopbuf` | some seeks of the live stream exceed it and are cut, others do not |
| `BackLimit` 1 (code: 3 MB) | `loopbuf` | fills in advance over back data happen for each of the three reasons |
| `mcSource` | `loopbuf` | a live stream and a file behind http; a local file does less than the latter |
| `MESSAGE_NUM_MAX` 3 (code: 12) | `audio` | the ring overflows, STOP and RELEASE included; the proof covers every size |
| `MaxUsed` | `ids` | opens of a lost id, which are never closed and would count for ever |

A player that has been freed stutters (`Gone`), so that a deadlock in any other
state is reported. Cells, threads and blocks are symmetric in `pool` and `ids`
where no liveness property is checked.

### Fairness

`Player`:

- `WF` of the player thread and of the mate: they are threads, and every wait of
  theirs has a timeout.
- `SF` of `GetMessage`: `check_flag` may return early while it waits for the
  frame of the last seek (`WaitForFrame`), but for 400 ms at most.
- `SF` of `Read`, `Hold` and `Release0`: they wait for the mate to rest, which
  may be in the middle of a change again and again, but it looks at
  `mate_should_sleep` / `mate_should_exit` after every turn.
- `WF` of a stop or exit that has begun. Nothing makes the application call, and
  nothing makes it send commands.

Decoder and ffmpeg outcomes carry no fairness: a player may read for ever. What
ends it is a command, which `GetMessage` takes in every turn.

`LoopBuffer`:

- `WF` of a call that is being served: it is one thread.
- `SF` of a fill, during a seek by reading, that brings bytes: a read of nothing
  but EAGAIN is repeated, so the seek ends only if a source that answers
  with EAGAIN again and again delivers in the end. At the end of the file and on
  an error nothing is repeated and nothing is assumed.

`AudioDec`:

- `WF` of the message loop but for `SysfsWait`, of the two threads' ends once they are told to end,
  and of a stop that has begun.
- A wait for the clocks (`Wait`) is fair only when it gives up, that is after
  `need_stop`: a stream that never has a clock keeps the loop waiting.
- The write that `SysfsWait` repeats is not assumed to succeed. `StopReturns` takes as
  a premise that the loop is again and again out of it (`[]<>~SysfsWait`), and
  TLC refutes it without.

## 4. Properties

Ring: `IndexesAgree` is why freeing `message_list[message_in_index]` on a full
ring frees the oldest command; `OwnedOnce` excludes a double free and a use
after free among senders and readers; `NothingLeaks` holds through overflow and update.
`IsCommandQueue` says what the ring is for.

`send_message_update` means to replace a search that waits and compares the
oldest command only; the model does the same, and no property says otherwise.

Player: `StopReported` (a stop that was taken is reported as STOPED although
the file was read to its end, a seek or pause was pending or a read failed on
the way out; it does not hold when the audio DSP reports the end, which is what
`stop_overwritten` shows, nor with `decoder_error` or `late_mate`),
`PauseHolds` (the published status is what the decoder does, outside the steps
of a change; it does not hold when `codec_pause` or `codec_resume` fails, nor when
FOUND_SUB is published over BUFFERING: the next read then shows RUNNING with the
decoder paused), `MateWorksAlone`, `FreedIsQuiet`, `StopKept` (the STOP somebody waits
for is in the ring, taken, or no longer needed), `StopEnds` (a player that took a
stop goes straight to its end: each step of its thread brings it nearer, and none
reads, writes, takes a command or starts over), `StopIsFinal`, `SearchHeld` (a seek
that was taken is neither dropped on the way to the reset that serves it nor
left unanswered by it), `ExitIsFinal`, and the liveness of stop, exit and seek.

Loop buffer: `RingHolds` (all that `Forward` and `Back` offer to reads and seeks
is the byte of its offset, although a fill may use what was read and
`valid_data_size` only grows), `SeekLands` (a seek inside the ring, by reading or
by the source, ends where it was to go, if it returns success), `StreamSpec` (a reader cannot tell the ring
from the plain source), `CallsReturn`. `SeekLands` excepts a seek the source has
refused: `url_lpseek` then returns what putting the source back returned, an
offset like that of a success; and a seek by reading whose way does not fit in an
int (`cut`), which returns success where it is not. The first is listed as a hazard; whether a demuxer is misled is
for ffmpeg to say.

Audio: `CodecInUse` (neither thread nor the callback runs without a codec, and a
stop does not release twice), `OutputFollows` (the track plays when active, is
silent when paused or stopped, through format changes and automute; the library's
loop alone lets an automute resume a paused output, and the property says so), `NothingLeft`
(what a session frees, nobody uses any more), `StopReturns` (whatever clock or
thread the loop waits for, but not for the sysfs file of the library's set-up).

Ids: `OneOwner`, `NoIdLeaks`, `NoUseAfterFree` (of calls on players; a call on a
listed id may well meet a freed block, see 2.3), `NoBlockLeaks`, `UsedCounts`.

Every property has in `PROJECT.json` a mutant of the model that breaks it.

## 5. Proofs

Proved by TLAPS for every value of the constants that satisfies the modules'
assumptions (a positive number of slots and of ids, distinct null pointers, the
commands among those of the code, finitely many application threads for `UsedCounts`):

- `MessagePoolProof`: `Spec => []MessagePoolInv`, where `MessagePoolInv` is
  `TypeOK /\ IndexesAgree /\ OwnedOnce /\ NothingLeaks`. No conjunct is
  inductive alone: an overflow keeps `OwnedOnce` only because the slot it frees
  is the oldest (`IndexesAgree`), and `NothingLeaks` needs that the cell a
  sender deposits was not in the ring (`OwnedOnce`). The proof first shows how
  `Waiting`, the contents in order, changes in each action (slot arithmetic
  modulo the capacity), then goes through the actions conjunct by conjunct.
- `MessagePoolRefines`: `Spec => Abstract!Spec`, with `queue <- Waiting`, from
  the invariant: allocation, a failed scan and a release map to stutters,
  sends to `Put`, updates to `Amend`, gets to `Take`.
- `PlayerIdPoolProof`: the six invariants of the run `ids`, from an inductive
  invariant that also says which block belongs to which stage of a start or an
  exit, and that a call on a player keeps its block (`Exit` is called when
  the id is `Quiet`). `UsedCounts` is for ids that are not strays: an id that was not
  opened since its start began has only the calls on its player. It needs the cardinality of the set of threads inside a call
  to change by one in `Open` and `Close`.
- `PlayerProof`: `Spec => []PlayerInv`, in four parts. `FlowOK` says where the
  threads may stand; its conjuncts `MateOK` (there is a mate only from
  `Prepare` to `Release0`) and `FreedOK` (a freed player's thread is done) give
  `FreedIsQuiet`. `ParaOK` says of the shared state that it is not EXIT before
  the player thread is done and has a decoder in the two loops; with `MateOK`
  it gives `ExitIsFinal`, because nobody is left to write after EXIT. `QueueOK`
  is needed because `check_msg` is only known to keep `ParaOK` for commands that
  exist. `RestOK` holds the rest of `TypeOK`. `MateWorksAlone` is proved
  separately, assuming `late_mate` away: `mate_late` shows that it fails otherwise.
- `PlayerStops`, three questions about a stop.
  `StopEnds` and `StopReported` are about one that was taken. Neither is inductive.
  `StopInv` says, until a stop is taken, that a reset which is asked for comes with
  an end and is the next thing the player does (`ResetNext`), so that no stop is
  taken with one pending; and from then on, that the thread is on one path
  (`WayOut`) with every flag that could divert it clear (`Ends`). `StopEnds` follows
  for a `Direct` player: no `decoder_error`, and no late mate that finds a LOOP. Both are
  needed: `stop_reset` is the counterexample to the one, and a late LOOP starts a
  stopped player over. Winding, loops, negative seeks, io errors, buffering and
  the end reported by the DSP are all allowed. `StopReported` needs a `Calm` player:
  no `decoder_error`, no `pcm_end` (the end reported by the DSP may overwrite
  STOPED with PLAYEND), no `late_mate`; TLC finds a counterexample with each. A calm
  mate is at work only during a read (`MateInside`), so it cannot touch
  a player that is on its way out, and `StopShown` says from where on that one shows STOPED.
  `StopKept` is about one that is not taken yet: `Room` bounds what is in the ring by what was
  sent, so that with fewer commands than slots nothing overflows (`stop_dropped` shows
  what happens otherwise), and a STOP in the ring stays there through every send,
  amendment and take (`HasStopStays`). No behaviour of the environment is excluded.
  `StopIsFinal` is about the success `player_stop` returns, often for the status it saw
  and without a STOP in the ring; it is proved for a player that is `Quiet`: calm,
  and without the commands LOOP, FF, SEARCH_END and SEARCH_RESET. TLC refutes it with
  each of the four (`stop_seek` is the last): each can start an ended player over.
  `FinalInv` says where an end and a seek may be pending (`EndsOnce`) and that a
  stopped status, and with it the success, is only seen past the point where both
  are decided (`FinalShown`).
- `PlayerPause`: `PauseHolds`, if nobody winds and no mate is late (`Unwound`), and
  no call of the codec fails and no new subtitles are found (`Even`).
  The property is silent in the middle of a change; the invariant cannot be.
  `PauseInv` says for each kind of change of the mate which half is done
  (`Changing`), what a command leaves for the rest of `check_flag` to repair
  (`Taken`: a STOP has resumed the decoder, a RESUME has cleared the wish), and that
  elsewhere status, decoder and wish agree (`Settled`). It needs `MateInside`.
  `SearchHeld` holds for an unwound player without `pcm_end`, whatever decoder and source do:
  `SearchTaken` says that a seek that is pending comes with an end and lies on the
  way to the reset. TLC refutes it with winding, with a late mate and with
  `pcm_end`, whose end wipes the seek after the reset was decided.
- `LoopBufferProof`: `Spec => []LoopBufferInv`, for every size of the ring with
  room for a byte beside the reserve, every margin, file and source. `RingHolds` is
  not inductive, since a seek back moves `rp` over bytes it says nothing of;
  `Intact` says that the last `Kept` bytes before the write pointer are those of
  the source, and with `low = pos` (`RingOK`) a fill keeps that. `BackBound` shows
  that what is offered is kept. `CallOK` relates what a call still has to do to where
  it is to end, for `SeekLands`, unless the way was cut; `AsIntHolds` says that an int keeps
  every number below its limit. From the invariant `LoopBufferStream` proves the refinement:
  fills map to stutters, each `Copy` to `Deliver`, seeks to `Move`. `LoopBufferProgress`
  is about the loops: `Work`, a number made of the bytes still wanted, a fill
  that is due and a read that would be repeated, falls with every round
  that does not return. A seek by reading that is answered with EAGAIN at once is no
  exception, for such a round changes nothing at all.
- `AudioDecProof`: `Spec => []AudioDecInv`, for every capacity. `LoopOK` says for each
  place of the loop what is set up, `OutputOK` is `OutputFollows` carried through
  a turn, `StopOK` says that a STOP which is neither taken nor lost is in the ring
  ahead of any RELEASE, so that a loop that takes the RELEASE has been stopped.
  `StopWaitsRight` adds that neither of the two joins of a stop waits in vain: the client's
  `RELEASE` is in the ring until the loop has ended or an overflow has given it up, and the
  threads the loop joins have ended, were never created or were told to end.

The proofs assume nothing about the size of a ring, the number of commands or
their order, but for `PlayerStopKept`, which needs a ring that does not overflow.
Each assumption on `Can` or `Command` is stated in the theorem, and for each TLC has a
behaviour that breaks the property without it.

Only model-checked is liveness: `StopReturns`, `ExitReturns` and `SearchAnswered`
of `Player`, `CallsReturn`, and `StopReturns` of `AudioDec`. Of each the half that
is safety is proved: what is waited for is not lost (`StopKept`, `StopWaitsRight`,
`SearchHeld`), and the way to it is finite (`StopEnds`, `SearchHeld`,
`LoopBufferProgress`). What is left to TLC is that the threads take those steps.
Liveness under fairness and ENABLED are out of the prover's reach, as are induction over
data and modules with RECURSIVE operators, which these modules do not use.

## 6. Not modelled

In the player: audio-track and subtitle switching (but for the status FOUND_SUB), the software video path,
autobuffer parameters and the forced buffering delay, `amutils` messages,
status callbacks, the transient PLAYER_BUFFER_OK between BUFFERING and RUNNING,
computation of times, a failed allocation of the mate, the effect of data races
below the granularity of one flag or status. The player thread's own update
steps are atomic with respect to a late mate. The abort of
`ffmpeg_interrupt_callback` after 10000 polls is outside the model.

In the loop buffer and the audio decoder: see 2.4 and 2.5.

`streamsource` is used by an example program only, and `itemlist.c` is a list
with one lock period per call, whose use here is the kill list of `Player`;
neither is worth a module. Other components: see the notes in `PROJECT.json`. By
far the largest part of the repository is vendored (ffmpeg, the audio codecs,
iconv, libtiff) or user interface, which this development treats as outside.

## 7. Plan

Done, in order of importance:

1. `CommandQueue`, `MessagePool` with proofs of the invariant and the refinement.
2. `Player`: player thread, mate, controller; safety, liveness.
3. `PlayerIdPool` with proofs.
4. `PlayerProof`, `PlayerStops` and `PlayerPause`: all safety properties of a
   player, with proofs.
5. `ByteStream` and `LoopBuffer`, with proofs of the invariant and the refinement.
6. `AudioDec`, with proofs.

Open:

7. `MateHandshake`: the flags, semaphore and condition variable of
   `player_mate.c` one by one; abstract specification: the `mate` states of
   `Player`; the run shows which schedules refine it.
8. The package list and the pcm ring between the two threads of the audio
   decoder's library (`adec-ffmpeg-mgt.c`, `adec_write.c`), whose flags are tested
   and set in two steps.
9. The stream cache.
