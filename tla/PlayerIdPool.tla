---------------------------- MODULE PlayerIdPool ----------------------------
(***************************************************************************)
(* Player ids and the play_para_t behind them (amplayer/player/player_id.c *)
(* with player_start and player_exit of player_ctrl.c).                    *)
(*                                                                         *)
(* Each function of player_id.c holds priv_pid_mutex for its whole work    *)
(* and is one action; what the callers do between two of them is not       *)
(* protected.  Application threads start players, call functions on any id *)
(* player_list_pid shows, those of starts and exits under way included,    *)
(* and exit players.  The one thing asked of the application is what       *)
(* player_ctrl.c asks: player_exit is called in pairs with player_start    *)
(* (line 323), on an id that player_start has left behind, and not while   *)
(* another call on that id is under way.                                   *)
(*                                                                         *)
(* A definition introduced by "Slip:" is a plausible bug, not the code.    *)
(***************************************************************************)
EXTENDS Naturals, FiniteSets

CONSTANTS MAX_PLAYER_THREADS,  \* ids there are (32 in include/player_type.h)
          Caller,              \* application threads
          Para,                \* heap blocks that can hold a play_para_t
          NoPara,              \* the NULL pointer
          MaxUsed              \* bound: opens that are never closed, per id

ASSUME PlayerIdPoolAssumption ==
  /\ MAX_PLAYER_THREADS \in Nat \ {0}
  /\ NoPara \notin Para
  /\ MaxUsed \in Nat
  /\ IsFiniteSet(Caller)

VARIABLES
  priv_pid_pool,  \* ids in use
  priv_pid_data,  \* what each id stands for
  priv_pid_used,  \* how often each id is open
  last,           \* where the next search for an id begins
  alive,          \* blocks allocated and not freed
  at,             \* where each application thread stands
  pid,            \* the id it works on
  para,           \* the block it holds a pointer to
  players,        \* ids player_start has returned and no player_exit has taken
  lost,           \* ids of starts that ran out of memory
  strays          \* ids a call has opened while their start or exit was
                  \* under way, until they are released and the call is over

pool == <<priv_pid_pool, priv_pid_data, priv_pid_used, last>>
vars == <<pool, alive, at, pid, para, players, lost, strays>>

Pid == 0 .. MAX_PLAYER_THREADS - 1
Starting == {"requested", "allocated", "inited", "failed"}
Leaving == {"exiting", "freed", "closed"}

Init ==
  /\ priv_pid_pool = {}
  /\ priv_pid_data = [i \in Pid |-> NoPara]
  /\ priv_pid_used = [i \in Pid |-> 0]
  /\ last = 0
  /\ alive = {}
  /\ at = [c \in Caller |-> "idle"]
  /\ pid = [c \in Caller |-> 0]
  /\ para = [c \in Caller |-> NoPara]
  /\ players = {}
  /\ lost = {}
  /\ strays = {}

Becomes(c, state) == at' = [at EXCEPT ![c] = state]

(* player_release_pid: the id is free again, whatever its count. *)
ReleasePid(i) ==
  /\ priv_pid_pool' = priv_pid_pool \ {i}
  /\ priv_pid_data' = [priv_pid_data EXCEPT ![i] = NoPara]
  /\ priv_pid_used' = [priv_pid_used EXCEPT ![i] = 0]
  /\ UNCHANGED last

(* player_close_pid_data. *)
ClosePid(i) ==
  /\ priv_pid_used' = [priv_pid_used EXCEPT ![i] = IF i \in priv_pid_pool /\ @ > 0
                                                   THEN @ - 1 ELSE @]
  /\ UNCHANGED <<priv_pid_pool, priv_pid_data, last>>

(* The ids the search of player_request_pid can meet, from last upwards.   *)
Ahead == {i \in Pid : i >= last /\ i \notin priv_pid_pool}

(* Slip: the id after the one found is skipped too. *)
NextLastSkips(i) == IF i + 1 = MAX_PLAYER_THREADS - 1 THEN 0 ELSE i + 2

(* The next search begins after the id found, or at 0 when that is the     *)
(* last id but one.                                                        *)
NextLast(i) == IF i + 1 = MAX_PLAYER_THREADS - 1 THEN 0 ELSE i + 1

(* Slip: the search looks at every id and does not ask whether it is free. *)
RequestTaken(c) ==
  /\ at[c] = "idle"
  /\ \E i \in Pid :
       /\ priv_pid_pool' = priv_pid_pool \cup {i}
       /\ pid' = [pid EXCEPT ![c] = i]
       /\ UNCHANGED <<priv_pid_data, priv_pid_used, last>>
  /\ Becomes(c, "requested")
  /\ UNCHANGED <<alive, para, players, lost, strays>>

(* player_start up to player_request_pid, when an id is found. *)
Request(c) ==
  /\ at[c] = "idle"
  /\ \E i \in Ahead :
       /\ \A j \in Ahead : i <= j
       /\ priv_pid_pool' = priv_pid_pool \cup {i}
       /\ priv_pid_data' = [priv_pid_data EXCEPT ![i] = NoPara]
       /\ priv_pid_used' = [priv_pid_used EXCEPT ![i] = 0]
       /\ last' = NextLast(i)
       /\ pid' = [pid EXCEPT ![c] = i]
  /\ Becomes(c, "requested")
  /\ UNCHANGED <<alive, para, players, lost, strays>>

(* No id is found: player_start returns PLAYER_NOT_VALID_PID. *)
RequestFails(c) ==
  /\ at[c] = "idle"
  /\ Ahead = {}
  /\ UNCHANGED vars

(* MALLOC.  When it fails player_start returns PLAYER_NOMEM and the id     *)
(* stays taken, with no data.                                              *)
Malloc(c) ==
  /\ at[c] = "requested"
  /\ \/ \E p \in Para \ alive :
          /\ alive' = alive \cup {p}
          /\ para' = [para EXCEPT ![c] = p]
          /\ Becomes(c, "allocated")
          /\ UNCHANGED lost
     \/ /\ lost' = lost \cup {pid[c]}
        /\ Becomes(c, "idle")
        /\ UNCHANGED <<alive, para>>
  /\ UNCHANGED <<pool, pid, players, strays>>

(* player_init_pid_data. *)
InitData(c) ==
  /\ at[c] = "allocated"
  /\ priv_pid_data' = [priv_pid_data EXCEPT ![pid[c]] = IF pid[c] \in priv_pid_pool
                                                        THEN para[c] ELSE @]
  /\ Becomes(c, "inited")
  /\ UNCHANGED <<priv_pid_pool, priv_pid_used, last, alive, pid, para, players, lost, strays>>

(* Slip: the failure of player_thread_create is not looked at: the block   *)
(* is freed, and the id is returned as a player's.                         *)
CreateIgnoresFailure(c) ==
  /\ at[c] = "inited"
  /\ \/ UNCHANGED alive
     \/ alive' = alive \ {para[c]}
  /\ players' = players \cup {pid[c]}
  /\ Becomes(c, "idle")
  /\ para' = [para EXCEPT ![c] = NoPara]
  /\ UNCHANGED <<pool, pid, lost, strays>>

(* player_thread_create.  When it fails the block is freed at once. *)
Create(c) ==
  /\ at[c] = "inited"
  /\ \/ /\ players' = players \cup {pid[c]}
        /\ Becomes(c, "idle")
        /\ UNCHANGED alive
     \/ /\ alive' = alive \ {para[c]}
        /\ Becomes(c, "failed")
        /\ UNCHANGED players
  /\ para' = [para EXCEPT ![c] = NoPara]
  /\ UNCHANGED <<pool, pid, lost, strays>>

(* No call on id i is under way. *)
Quiet(i) == \A c \in Caller : ~(at[c] \in {"using", "listed"} /\ pid[c] = i)

(* Id i is released: the next to get it starts afresh, unless a call that  *)
(* opened it during this start or exit is still to close it.               *)
Settle(i) == strays' = IF Quiet(i) THEN strays \ {i} ELSE strays

(* player_release_pid after that. *)
FailRelease(c) ==
  /\ at[c] = "failed"
  /\ ReleasePid(pid[c])
  /\ Settle(pid[c])
  /\ Becomes(c, "idle")
  /\ UNCHANGED <<alive, pid, para, players, lost>>

(* Slip: what an id stands for is given out without counting the open. *)
OpenUncounted(c, i) ==
  /\ at[c] = "idle"
  /\ i \in players
  /\ Becomes(c, "using")
  /\ pid' = [pid EXCEPT ![c] = i]
  /\ para' = [para EXCEPT ![c] = priv_pid_data[i]]
  /\ UNCHANGED <<pool, alive, players, lost, strays>>

(* player_open_pid_data in player_send_message, player_stop, and so on, on *)
(* an id player_start returned or player_list_pid shows.  With no data     *)
(* behind the id the caller returns PLAYER_NOT_VALID_PID, and what it      *)
(* opened it never closes.                                                 *)
Open(c, i) ==
  /\ at[c] = "idle"
  /\ i \in priv_pid_pool
  /\ priv_pid_data[i] = NoPara => priv_pid_used[i] < MaxUsed
  /\ priv_pid_used' = [priv_pid_used EXCEPT ![i] = @ + 1]
  /\ Becomes(c, IF priv_pid_data[i] = NoPara THEN "idle"
                ELSE IF i \in players THEN "using" ELSE "listed")
  /\ pid' = [pid EXCEPT ![c] = i]
  /\ para' = [para EXCEPT ![c] = priv_pid_data[i]]
  /\ strays' = IF i \in players \cup lost THEN strays ELSE strays \cup {i}
  /\ UNCHANGED <<priv_pid_pool, priv_pid_data, last, alive, players, lost>>

(* The call is over: player_close_pid_data. *)
Close(c) ==
  /\ at[c] \in {"using", "listed"}
  /\ ClosePid(pid[c])
  /\ Becomes(c, "idle")
  /\ para' = [para EXCEPT ![c] = NoPara]
  /\ UNCHANGED <<alive, pid, players, lost, strays>>

(* player_exit up to player_open_pid_data. *)
Exit(c, i) ==
  /\ at[c] = "idle"
  /\ i \in players \cup lost
  /\ Quiet(i)
  /\ priv_pid_used' = [priv_pid_used EXCEPT ![i] = @ + 1]
  /\ Becomes(c, IF priv_pid_data[i] = NoPara THEN "freed" ELSE "exiting")
  /\ pid' = [pid EXCEPT ![c] = i]
  /\ para' = [para EXCEPT ![c] = priv_pid_data[i]]
  /\ players' = players \ {i}
  /\ lost' = lost \ {i}
  /\ UNCHANGED <<priv_pid_pool, priv_pid_data, last, alive, strays>>

(* Slip: player_exit forgets the block. *)
FreeNothing(c) ==
  /\ at[c] = "exiting"
  /\ para' = [para EXCEPT ![c] = NoPara]
  /\ Becomes(c, "freed")
  /\ UNCHANGED <<pool, alive, pid, players, lost, strays>>

(* The player thread has been joined: FREE(para). *)
Free(c) ==
  /\ at[c] = "exiting"
  /\ alive' = alive \ {para[c]}
  /\ para' = [para EXCEPT ![c] = NoPara]
  /\ Becomes(c, "freed")
  /\ UNCHANGED <<pool, pid, players, lost, strays>>

(* player_close_pid_data of player_exit. *)
ExitClose(c) ==
  /\ at[c] = "freed"
  /\ ClosePid(pid[c])
  /\ Becomes(c, "closed")
  /\ UNCHANGED <<alive, pid, para, players, lost, strays>>

(* Slip: player_exit frees the player and keeps its id. *)
ExitReleaseKeeps(c) ==
  /\ at[c] = "closed"
  /\ UNCHANGED pool
  /\ Becomes(c, "idle")
  /\ UNCHANGED <<alive, pid, para, players, lost, strays>>

(* player_release_pid of player_exit. *)
ExitRelease(c) ==
  /\ at[c] = "closed"
  /\ ReleasePid(pid[c])
  /\ Settle(pid[c])
  /\ Becomes(c, "idle")
  /\ UNCHANGED <<alive, pid, para, players, lost>>

Next ==
  \E c \in Caller :
    \/ Request(c) \/ RequestFails(c) \/ Malloc(c) \/ InitData(c) \/ Create(c) \/ FailRelease(c)
    \/ \E i \in Pid : Open(c, i) \/ Exit(c, i)
    \/ Close(c) \/ Free(c) \/ ExitClose(c) \/ ExitRelease(c)

Spec == Init /\ [][Next]_vars
-----------------------------------------------------------------------------
Holds(c) == at[c] \in Starting \cup Leaving
Uses(c) == at[c] = "using"

(* Shape of the state. *)
TypeOK ==
  /\ priv_pid_pool \subseteq Pid
  /\ priv_pid_data \in [Pid -> Para \cup {NoPara}]
  /\ priv_pid_used \in [Pid -> Nat]
  /\ last \in 0 .. MAX_PLAYER_THREADS
  /\ alive \subseteq Para
  /\ at \in [Caller -> {"idle", "using", "listed"} \cup Starting \cup Leaving]
  /\ pid \in [Caller -> Pid]
  /\ para \in [Caller -> Para \cup {NoPara}]
  /\ players \subseteq Pid
  /\ lost \subseteq Pid
  /\ strays \subseteq Pid

(* A player id is in the hands of one: of one thread that starts or exits  *)
(* a player, of the application as a running player, or lost.  While it is *)
(* in anyone's hands player_request_pid does not give it out again.        *)
OneOwner ==
  /\ players \cap lost = {}
  /\ players \cup lost \subseteq priv_pid_pool
  /\ \A c \in Caller : Holds(c) => pid[c] \in priv_pid_pool \ (players \cup lost)
  /\ \A c, d \in Caller : Holds(c) /\ Holds(d) /\ pid[c] = pid[d] => c = d

(* Every id in use is accounted for: only a start that ran out of memory   *)
(* leaves an id behind that nobody holds.                                  *)
NoIdLeaks ==
  priv_pid_pool = players \cup lost \cup {pid[c] : c \in {d \in Caller : Holds(d)}}

(* A call on a player works on a play_para_t that is allocated until the   *)
(* call is over, whoever starts, lists and exits other players meanwhile,  *)
(* and two players never share one.  Excepted is a call on an id that      *)
(* player_list_pid shows while it is being started or exited: its block is *)
(* freed under it when player_thread_create fails (player_ctrl.c:147) or   *)
(* player_exit goes on (line 344), and between FREE and player_release_pid *)
(* the table itself still holds the pointer.                               *)
NoUseAfterFree ==
  /\ \A c \in Caller : Uses(c) => para[c] \in alive
  /\ \A i \in players : priv_pid_data[i] \in alive
  /\ \A i, j \in players : priv_pid_data[i] = priv_pid_data[j] => i = j

(* A play_para_t is freed when its player is gone. *)
NoBlockLeaks ==
  alive = {priv_pid_data[i] : i \in players} \cup
          {para[c] : c \in {d \in Caller : at[d] \in {"allocated", "inited", "exiting"}}}

(* The count of a player is the number of calls that have it open, so the  *)
(* warnings of player_release_pid and player_close_pid_data never apply to *)
(* it.  Excepted are a lost id, whose opens are never closed, and an id    *)
(* that was opened during its start or exit: such an open is not closed    *)
(* when there was no data yet, or is closed on the next player of that id. *)
UsedCounts ==
  \A i \in players \ strays :
    priv_pid_used[i] = Cardinality({c \in Caller : Uses(c) /\ pid[c] = i})

(* The rotation of ids ends nowhere: with no player left one can start. *)
CanStart == priv_pid_pool = {} => Ahead # {}
=============================================================================
