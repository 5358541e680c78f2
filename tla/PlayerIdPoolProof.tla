-------------------------- MODULE PlayerIdPoolProof -------------------------
(***************************************************************************)
(* Ownership of player ids and of the blocks behind them, proved for any   *)
(* number of ids, threads and blocks.  The invariant adds to OneOwner and  *)
(* NoIdLeaks where each block is referred to from: a thread that starts or *)
(* exits a player, or the table entry of a running player, and never two.  *)
(***************************************************************************)
EXTENDS PlayerIdPool, FiniteSetTheorems, TLAPS

Owns(c) == at[c] \in {"allocated", "inited", "exiting"}

(* What a thread knows of its block at each stage. *)
Blocks ==
  /\ \A c \in Caller : Owns(c) => para[c] \in alive
  /\ \A c \in Caller : at[c] \in {"inited", "exiting"} => priv_pid_data[pid[c]] = para[c]
  /\ \A c \in Caller : at[c] = "using" => pid[c] \in players /\ para[c] = priv_pid_data[pid[c]]
  /\ \A i \in players : priv_pid_data[i] \in alive

(* Nobody shares a block. *)
Apart ==
  /\ \A i, j \in players : priv_pid_data[i] = priv_pid_data[j] => i = j
  /\ \A c \in Caller, i \in players : Owns(c) => para[c] # priv_pid_data[i]
  /\ \A c, d \in Caller : Owns(c) /\ Owns(d) /\ para[c] = para[d] => c = d

LostEmpty == \A i \in lost : priv_pid_data[i] = NoPara
RequestedEmpty ==
  \A c \in Caller : at[c] \in {"requested", "allocated"} => priv_pid_data[pid[c]] = NoPara

(* NoIdLeaks and NoBlockLeaks, one id and one block at a time. *)
IdsHeld ==
  \A i \in priv_pid_pool :
    i \in players \cup lost \/ \E c \in Caller : Holds(c) /\ pid[c] = i
BlocksHeld ==
  \A p \in alive :
    \/ \E i \in players : priv_pid_data[i] = p
    \/ \E c \in Caller : Owns(c) /\ para[c] = p

Held == OneOwner /\ IdsHeld /\ Blocks /\ Apart /\ LostEmpty /\ RequestedEmpty /\ BlocksHeld
IdPoolInv == TypeOK /\ Held

(* The first state: nobody owns anything. *)
LEMMA InitInv == Init => IdPoolInv
  BY PlayerIdPoolAssumption
  DEF Init, IdPoolInv, TypeOK, Held, OneOwner, IdsHeld, Blocks, Apart, LostEmpty,
      RequestedEmpty, BlocksHeld, Holds, Owns, Uses, Starting, Leaving, Pid

(* player_release_pid, player_close_pid_data and an open keep the shape of *)
(* the table.                                                              *)
LEMMA ReleaseType ==
  ASSUME TypeOK, NEW i \in Pid, ReleasePid(i)
  PROVE  /\ priv_pid_pool' \subseteq Pid
         /\ priv_pid_data' \in [Pid -> Para \cup {NoPara}]
         /\ priv_pid_used' \in [Pid -> Nat]
         /\ last' \in 0 .. MAX_PLAYER_THREADS
  BY DEF TypeOK, ReleasePid

LEMMA CloseType ==
  ASSUME TypeOK, NEW i \in Pid, ClosePid(i)
  PROVE  /\ priv_pid_pool' \subseteq Pid
         /\ priv_pid_data' \in [Pid -> Para \cup {NoPara}]
         /\ priv_pid_used' \in [Pid -> Nat]
         /\ last' \in 0 .. MAX_PLAYER_THREADS
<1>1. priv_pid_used[i] \in Nat
  BY DEF TypeOK
<1>2. (IF i \in priv_pid_pool /\ priv_pid_used[i] > 0
       THEN priv_pid_used[i] - 1 ELSE priv_pid_used[i]) \in Nat
  BY <1>1
<1>3. priv_pid_used' \in [Pid -> Nat]
  BY <1>2 DEF TypeOK, ClosePid
<1> QED
  BY <1>3 DEF TypeOK, ClosePid

(* Each function moves one thread and leaves the shape of the state alone. *)
LEMMA TypePreserved == ASSUME TypeOK, [Next]_vars PROVE TypeOK'
<1> USE DEF Becomes, Starting, Leaving, Settle
<1>1. CASE UNCHANGED vars
  BY <1>1 DEF TypeOK, vars, pool
<1>2. ASSUME NEW c \in Caller, Request(c) PROVE TypeOK'
  BY <1>2, PlayerIdPoolAssumption DEF TypeOK, Pid, Request, Ahead, NextLast
<1>3. ASSUME NEW c \in Caller, Malloc(c) PROVE TypeOK'
  BY <1>3 DEF TypeOK, Malloc, pool
<1>4. ASSUME NEW c \in Caller, InitData(c) PROVE TypeOK'
  BY <1>4 DEF TypeOK, InitData
<1>5. ASSUME NEW c \in Caller, Create(c) PROVE TypeOK'
  BY <1>5 DEF TypeOK, Create, pool
<1>6. ASSUME NEW c \in Caller, FailRelease(c) PROVE TypeOK'
  <2>1. pid[c] \in Pid
    BY DEF TypeOK
  <2> QED
    BY <1>6, <2>1, ReleaseType DEF TypeOK, FailRelease
<1>7. ASSUME NEW c \in Caller, ExitRelease(c) PROVE TypeOK'
  <2>1. pid[c] \in Pid
    BY DEF TypeOK
  <2> QED
    BY <1>7, <2>1, ReleaseType DEF TypeOK, ExitRelease
<1>8. ASSUME NEW c \in Caller, NEW i \in Pid, Open(c, i) PROVE TypeOK'
  <2>1. at' \in [Caller -> {"idle", "using", "listed"} \cup Starting \cup Leaving]
    BY <1>8 DEF TypeOK, Open
  <2>2. priv_pid_used' \in [Pid -> Nat]
    BY <1>8 DEF TypeOK, Open
  <2> QED
    BY <1>8, <2>1, <2>2 DEF TypeOK, Open
<1>9. ASSUME NEW c \in Caller, NEW i \in Pid, Exit(c, i) PROVE TypeOK'
  <2>1. at' \in [Caller -> {"idle", "using", "listed"} \cup Starting \cup Leaving]
    BY <1>9 DEF TypeOK, Exit
  <2>2. priv_pid_used' \in [Pid -> Nat]
    BY <1>9 DEF TypeOK, Exit
  <2> QED
    BY <1>9, <2>1, <2>2 DEF TypeOK, Exit
<1>10. ASSUME NEW c \in Caller, Close(c) PROVE TypeOK'
  <2>1. pid[c] \in Pid
    BY DEF TypeOK
  <2> QED
    BY <1>10, <2>1, CloseType DEF TypeOK, Close
<1>11. ASSUME NEW c \in Caller, ExitClose(c) PROVE TypeOK'
  <2>1. pid[c] \in Pid
    BY DEF TypeOK
  <2> QED
    BY <1>11, <2>1, CloseType DEF TypeOK, ExitClose
<1>12. ASSUME NEW c \in Caller, Free(c) PROVE TypeOK'
  BY <1>12 DEF TypeOK, Free, pool
<1>13. ASSUME NEW c \in Caller, RequestFails(c) PROVE UNCHANGED vars
  BY <1>13 DEF RequestFails
<1> QED
  BY <1>1, <1>2, <1>3, <1>4, <1>5, <1>6, <1>7, <1>8, <1>9, <1>10, <1>11, <1>12, <1>13 DEF Next

(* The id found was free, so it was in no hands. *)
LEMMA RequestStep ==
  ASSUME IdPoolInv, TypeOK', NEW c \in Caller, Request(c)
  PROVE  Held'
<1> USE DEF IdPoolInv, TypeOK, Held, Holds, Owns, Uses, Starting, Leaving, Request, Ahead, Becomes, pool
<1>1. OneOwner'
  BY DEF OneOwner, IdsHeld, Blocks, Apart, LostEmpty, RequestedEmpty, BlocksHeld
<1>2. IdsHeld'
  BY DEF OneOwner, IdsHeld, Blocks, Apart, LostEmpty, RequestedEmpty, BlocksHeld
<1>3. Blocks'
  BY DEF OneOwner, IdsHeld, Blocks, Apart, LostEmpty, RequestedEmpty, BlocksHeld
<1>4. Apart'
  BY DEF OneOwner, IdsHeld, Blocks, Apart, LostEmpty, RequestedEmpty, BlocksHeld
<1>5. LostEmpty'
  BY DEF OneOwner, IdsHeld, Blocks, Apart, LostEmpty, RequestedEmpty, BlocksHeld
<1>6. RequestedEmpty'
  BY DEF OneOwner, IdsHeld, Blocks, Apart, LostEmpty, RequestedEmpty, BlocksHeld
<1>7. BlocksHeld'
  BY DEF OneOwner, IdsHeld, Blocks, Apart, LostEmpty, RequestedEmpty, BlocksHeld
<1> QED
  BY <1>1, <1>2, <1>3, <1>4, <1>5, <1>6, <1>7

(* A new block is no block of a player or of another thread. *)
LEMMA MallocStep ==
  ASSUME IdPoolInv, TypeOK', NEW c \in Caller, Malloc(c)
  PROVE  Held'
<1> USE DEF IdPoolInv, TypeOK, Held, Holds, Owns, Uses, Starting, Leaving, Malloc, Becomes, pool
<1>1. OneOwner'
  BY DEF OneOwner, IdsHeld, Blocks, Apart, LostEmpty, RequestedEmpty, BlocksHeld
<1>2. IdsHeld'
  BY DEF OneOwner, IdsHeld, Blocks, Apart, LostEmpty, RequestedEmpty, BlocksHeld
<1>3. Blocks'
  BY DEF OneOwner, IdsHeld, Blocks, Apart, LostEmpty, RequestedEmpty, BlocksHeld
<1>4. Apart'
  BY DEF OneOwner, IdsHeld, Blocks, Apart, LostEmpty, RequestedEmpty, BlocksHeld
<1>5. LostEmpty'
  BY DEF OneOwner, IdsHeld, Blocks, Apart, LostEmpty, RequestedEmpty, BlocksHeld
<1>6. RequestedEmpty'
  BY DEF OneOwner, IdsHeld, Blocks, Apart, LostEmpty, RequestedEmpty, BlocksHeld
<1>7. BlocksHeld'
  BY DEF OneOwner, IdsHeld, Blocks, Apart, LostEmpty, RequestedEmpty, BlocksHeld
<1> QED
  BY <1>1, <1>2, <1>3, <1>4, <1>5, <1>6, <1>7

(* The table entry gets the block of its own starter. *)
LEMMA InitDataStep ==
  ASSUME IdPoolInv, TypeOK', NEW c \in Caller, InitData(c)
  PROVE  Held'
<1> USE DEF IdPoolInv, TypeOK, Held, Holds, Owns, Uses, Starting, Leaving, InitData, Becomes
<1>1. OneOwner'
  BY DEF OneOwner, IdsHeld, Blocks, Apart, LostEmpty, RequestedEmpty, BlocksHeld
<1>2. IdsHeld'
  BY DEF OneOwner, IdsHeld, Blocks, Apart, LostEmpty, RequestedEmpty, BlocksHeld
<1>3. Blocks'
  BY DEF OneOwner, IdsHeld, Blocks, Apart, LostEmpty, RequestedEmpty, BlocksHeld
<1>4. Apart'
  BY DEF OneOwner, IdsHeld, Blocks, Apart, LostEmpty, RequestedEmpty, BlocksHeld
<1>5. LostEmpty'
  BY DEF OneOwner, IdsHeld, Blocks, Apart, LostEmpty, RequestedEmpty, BlocksHeld
<1>6. RequestedEmpty'
  BY DEF OneOwner, IdsHeld, Blocks, Apart, LostEmpty, RequestedEmpty, BlocksHeld
<1>7. BlocksHeld'
  BY DEF OneOwner, IdsHeld, Blocks, Apart, LostEmpty, RequestedEmpty, BlocksHeld
<1> QED
  BY <1>1, <1>2, <1>3, <1>4, <1>5, <1>6, <1>7

(* The block passes from the starter to the running player, or is freed. *)
LEMMA CreateStep ==
  ASSUME IdPoolInv, TypeOK', NEW c \in Caller, Create(c)
  PROVE  Held'
<1> USE DEF IdPoolInv, TypeOK, Held, Holds, Owns, Uses, Starting, Leaving, Create, Becomes, pool
<1>1. OneOwner'
  BY DEF OneOwner, IdsHeld, Blocks, Apart, LostEmpty, RequestedEmpty, BlocksHeld
<1>2. IdsHeld'
  BY DEF OneOwner, IdsHeld, Blocks, Apart, LostEmpty, RequestedEmpty, BlocksHeld
<1>3. Blocks'
  BY DEF OneOwner, IdsHeld, Blocks, Apart, LostEmpty, RequestedEmpty, BlocksHeld
<1>4. Apart'
  BY DEF OneOwner, IdsHeld, Blocks, Apart, LostEmpty, RequestedEmpty, BlocksHeld
<1>5. LostEmpty'
  BY DEF OneOwner, IdsHeld, Blocks, Apart, LostEmpty, RequestedEmpty, BlocksHeld
<1>6. RequestedEmpty'
  BY DEF OneOwner, IdsHeld, Blocks, Apart, LostEmpty, RequestedEmpty, BlocksHeld
<1>7. BlocksHeld'
  <2>1. ASSUME NEW p \in alive, \E i \in players : priv_pid_data[i] = p
        PROVE  \E i \in players' : priv_pid_data'[i] = p
    BY <2>1
  <2>2. ASSUME NEW d \in Caller, d # c, Owns(d) PROVE Owns(d)' /\ para'[d] = para[d]
    BY <2>2
  <2>3. CASE players' = players \cup {pid[c]} /\ alive' = alive
    <3>1. priv_pid_data'[pid[c]] = para[c] /\ pid[c] \in players'
      BY <2>3 DEF Blocks
    <3> QED
      BY <2>1, <2>2, <2>3, <3>1 DEF BlocksHeld
  <2>4. CASE alive' = alive \ {para[c]}
    BY <2>1, <2>2, <2>4 DEF BlocksHeld
  <2> QED
    BY <2>3, <2>4
<1> QED
  BY <1>1, <1>2, <1>3, <1>4, <1>5, <1>6, <1>7

(* The id of a start that failed goes back. *)
LEMMA FailReleaseStep ==
  ASSUME IdPoolInv, TypeOK', NEW c \in Caller, FailRelease(c)
  PROVE  Held'
<1> USE DEF IdPoolInv, TypeOK, Held, Holds, Owns, Uses, Starting, Leaving, FailRelease, ReleasePid, Becomes
<1>1. OneOwner'
  BY DEF OneOwner, IdsHeld, Blocks, Apart, LostEmpty, RequestedEmpty, BlocksHeld
<1>2. IdsHeld'
  BY DEF OneOwner, IdsHeld, Blocks, Apart, LostEmpty, RequestedEmpty, BlocksHeld
<1>3. Blocks'
  BY DEF OneOwner, IdsHeld, Blocks, Apart, LostEmpty, RequestedEmpty, BlocksHeld
<1>4. Apart'
  BY DEF OneOwner, IdsHeld, Blocks, Apart, LostEmpty, RequestedEmpty, BlocksHeld
<1>5. LostEmpty'
  BY DEF OneOwner, IdsHeld, Blocks, Apart, LostEmpty, RequestedEmpty, BlocksHeld
<1>6. RequestedEmpty'
  BY DEF OneOwner, IdsHeld, Blocks, Apart, LostEmpty, RequestedEmpty, BlocksHeld
<1>7. BlocksHeld'
  BY DEF OneOwner, IdsHeld, Blocks, Apart, LostEmpty, RequestedEmpty, BlocksHeld
<1> QED
  BY <1>1, <1>2, <1>3, <1>4, <1>5, <1>6, <1>7

(* A call is over. *)
LEMMA CloseStep ==
  ASSUME IdPoolInv, TypeOK', NEW c \in Caller, Close(c)
  PROVE  Held'
<1> USE DEF IdPoolInv, TypeOK, Held, Holds, Owns, Uses, Starting, Leaving, Close, ClosePid, Becomes
<1>1. OneOwner'
  BY DEF OneOwner, IdsHeld, Blocks, Apart, LostEmpty, RequestedEmpty, BlocksHeld
<1>2. IdsHeld'
  BY DEF OneOwner, IdsHeld, Blocks, Apart, LostEmpty, RequestedEmpty, BlocksHeld
<1>3. Blocks'
  BY DEF OneOwner, IdsHeld, Blocks, Apart, LostEmpty, RequestedEmpty, BlocksHeld
<1>4. Apart'
  BY DEF OneOwner, IdsHeld, Blocks, Apart, LostEmpty, RequestedEmpty, BlocksHeld
<1>5. LostEmpty'
  BY DEF OneOwner, IdsHeld, Blocks, Apart, LostEmpty, RequestedEmpty, BlocksHeld
<1>6. RequestedEmpty'
  BY DEF OneOwner, IdsHeld, Blocks, Apart, LostEmpty, RequestedEmpty, BlocksHeld
<1>7. BlocksHeld'
  BY DEF OneOwner, IdsHeld, Blocks, Apart, LostEmpty, RequestedEmpty, BlocksHeld
<1> QED
  BY <1>1, <1>2, <1>3, <1>4, <1>5, <1>6, <1>7

(* The block an exiting thread frees is nobody else's. *)
LEMMA FreeStep ==
  ASSUME IdPoolInv, TypeOK', NEW c \in Caller, Free(c)
  PROVE  Held'
<1> USE DEF IdPoolInv, TypeOK, Held, Holds, Owns, Uses, Starting, Leaving, Free, Becomes, pool
<1>1. OneOwner'
  BY DEF OneOwner, IdsHeld, Blocks, Apart, LostEmpty, RequestedEmpty, BlocksHeld
<1>2. IdsHeld'
  BY DEF OneOwner, IdsHeld, Blocks, Apart, LostEmpty, RequestedEmpty, BlocksHeld
<1>3. Blocks'
  BY DEF OneOwner, IdsHeld, Blocks, Apart, LostEmpty, RequestedEmpty, BlocksHeld
<1>4. Apart'
  BY DEF OneOwner, IdsHeld, Blocks, Apart, LostEmpty, RequestedEmpty, BlocksHeld
<1>5. LostEmpty'
  BY DEF OneOwner, IdsHeld, Blocks, Apart, LostEmpty, RequestedEmpty, BlocksHeld
<1>6. RequestedEmpty'
  BY DEF OneOwner, IdsHeld, Blocks, Apart, LostEmpty, RequestedEmpty, BlocksHeld
<1>7. BlocksHeld'
  BY DEF OneOwner, IdsHeld, Blocks, Apart, LostEmpty, RequestedEmpty, BlocksHeld
<1> QED
  BY <1>1, <1>2, <1>3, <1>4, <1>5, <1>6, <1>7

(* The id stays with the thread that exits. *)
LEMMA ExitCloseStep ==
  ASSUME IdPoolInv, TypeOK', NEW c \in Caller, ExitClose(c)
  PROVE  Held'
<1> USE DEF IdPoolInv, TypeOK, Held, Holds, Owns, Uses, Starting, Leaving, ExitClose, ClosePid, Becomes
<1>1. OneOwner'
  BY DEF OneOwner, IdsHeld, Blocks, Apart, LostEmpty, RequestedEmpty, BlocksHeld
<1>2. IdsHeld'
  BY DEF OneOwner, IdsHeld, Blocks, Apart, LostEmpty, RequestedEmpty, BlocksHeld
<1>3. Blocks'
  BY DEF OneOwner, IdsHeld, Blocks, Apart, LostEmpty, RequestedEmpty, BlocksHeld
<1>4. Apart'
  BY DEF OneOwner, IdsHeld, Blocks, Apart, LostEmpty, RequestedEmpty, BlocksHeld
<1>5. LostEmpty'
  BY DEF OneOwner, IdsHeld, Blocks, Apart, LostEmpty, RequestedEmpty, BlocksHeld
<1>6. RequestedEmpty'
  BY DEF OneOwner, IdsHeld, Blocks, Apart, LostEmpty, RequestedEmpty, BlocksHeld
<1>7. BlocksHeld'
  BY DEF OneOwner, IdsHeld, Blocks, Apart, LostEmpty, RequestedEmpty, BlocksHeld
<1> QED
  BY <1>1, <1>2, <1>3, <1>4, <1>5, <1>6, <1>7

(* The id of a player that is gone goes back. *)
LEMMA ExitReleaseStep ==
  ASSUME IdPoolInv, TypeOK', NEW c \in Caller, ExitRelease(c)
  PROVE  Held'
<1> USE DEF IdPoolInv, TypeOK, Held, Holds, Owns, Uses, Starting, Leaving, ExitRelease, ReleasePid, Becomes
<1>1. OneOwner'
  BY DEF OneOwner, IdsHeld, Blocks, Apart, LostEmpty, RequestedEmpty, BlocksHeld
<1>2. IdsHeld'
  BY DEF OneOwner, IdsHeld, Blocks, Apart, LostEmpty, RequestedEmpty, BlocksHeld
<1>3. Blocks'
  BY DEF OneOwner, IdsHeld, Blocks, Apart, LostEmpty, RequestedEmpty, BlocksHeld
<1>4. Apart'
  BY DEF OneOwner, IdsHeld, Blocks, Apart, LostEmpty, RequestedEmpty, BlocksHeld
<1>5. LostEmpty'
  BY DEF OneOwner, IdsHeld, Blocks, Apart, LostEmpty, RequestedEmpty, BlocksHeld
<1>6. RequestedEmpty'
  BY DEF OneOwner, IdsHeld, Blocks, Apart, LostEmpty, RequestedEmpty, BlocksHeld
<1>7. BlocksHeld'
  BY DEF OneOwner, IdsHeld, Blocks, Apart, LostEmpty, RequestedEmpty, BlocksHeld
<1> QED
  BY <1>1, <1>2, <1>3, <1>4, <1>5, <1>6, <1>7

(* A call on a player that runs does not disturb its owner. *)
LEMMA OpenStep ==
  ASSUME IdPoolInv, TypeOK', NEW c \in Caller, NEW i \in Pid, Open(c, i)
  PROVE  Held'
<1> USE DEF IdPoolInv, TypeOK, Held, Holds, Owns, Uses, Starting, Leaving, Open, Becomes
<1>1. OneOwner'
  BY DEF OneOwner, IdsHeld, Blocks, Apart, LostEmpty, RequestedEmpty, BlocksHeld
<1>2. IdsHeld'
  BY DEF OneOwner, IdsHeld, Blocks, Apart, LostEmpty, RequestedEmpty, BlocksHeld
<1>3. Blocks'
  BY DEF OneOwner, IdsHeld, Blocks, Apart, LostEmpty, RequestedEmpty, BlocksHeld
<1>4. Apart'
  BY DEF OneOwner, IdsHeld, Blocks, Apart, LostEmpty, RequestedEmpty, BlocksHeld
<1>5. LostEmpty'
  BY DEF OneOwner, IdsHeld, Blocks, Apart, LostEmpty, RequestedEmpty, BlocksHeld
<1>6. RequestedEmpty'
  BY DEF OneOwner, IdsHeld, Blocks, Apart, LostEmpty, RequestedEmpty, BlocksHeld
<1>7. BlocksHeld'
  BY DEF OneOwner, IdsHeld, Blocks, Apart, LostEmpty, RequestedEmpty, BlocksHeld
<1> QED
  BY <1>1, <1>2, <1>3, <1>4, <1>5, <1>6, <1>7

(* No call is under way on the player that is taken from the application. *)
LEMMA ExitStep ==
  ASSUME IdPoolInv, TypeOK', NEW c \in Caller, NEW i \in Pid, Exit(c, i)
  PROVE  Held'
<1> USE DEF IdPoolInv, TypeOK, Held, Holds, Owns, Uses, Starting, Leaving, Exit, Becomes, Quiet
<1>1. OneOwner'
  BY DEF OneOwner, IdsHeld, Blocks, Apart, LostEmpty, RequestedEmpty, BlocksHeld
<1>2. IdsHeld'
  BY DEF OneOwner, IdsHeld, Blocks, Apart, LostEmpty, RequestedEmpty, BlocksHeld
<1>3. Blocks'
  BY DEF OneOwner, IdsHeld, Blocks, Apart, LostEmpty, RequestedEmpty, BlocksHeld
<1>4. Apart'
  BY DEF OneOwner, IdsHeld, Blocks, Apart, LostEmpty, RequestedEmpty, BlocksHeld
<1>5. LostEmpty'
  BY DEF OneOwner, IdsHeld, Blocks, Apart, LostEmpty, RequestedEmpty, BlocksHeld
<1>6. RequestedEmpty'
  BY DEF OneOwner, IdsHeld, Blocks, Apart, LostEmpty, RequestedEmpty, BlocksHeld
<1>7. BlocksHeld'
  <2>1. i \in players => priv_pid_data[i] # NoPara
    BY PlayerIdPoolAssumption DEF Blocks
  <2>2. i \in players => Owns(c)' /\ para'[c] = priv_pid_data[i]
    BY <2>1
  <2>3. \A d \in Caller : Owns(d) => Owns(d)' /\ para'[d] = para[d]
    OBVIOUS
  <2> QED
    BY <2>2, <2>3 DEF BlocksHeld
<1> QED
  BY <1>1, <1>2, <1>3, <1>4, <1>5, <1>6, <1>7


(* The invariant is inductive. *)
LEMMA InvPreserved == ASSUME IdPoolInv, [Next]_vars PROVE IdPoolInv'
<1>1. TypeOK'
  BY TypePreserved DEF IdPoolInv
<1>2. CASE UNCHANGED vars
  BY <1>1, <1>2
  DEF vars, pool, IdPoolInv, Held, OneOwner, IdsHeld, Blocks, Apart, LostEmpty, RequestedEmpty,
      BlocksHeld, Holds, Owns
<1>3. ASSUME NEW c \in Caller, RequestFails(c) PROVE UNCHANGED vars
  BY <1>3 DEF RequestFails
<1>4. CASE Next /\ ~UNCHANGED vars
  BY <1>1, <1>3, <1>4, RequestStep, MallocStep, InitDataStep, CreateStep, FailReleaseStep, CloseStep,
     FreeStep, ExitCloseStep, ExitReleaseStep, OpenStep, ExitStep DEF Next, IdPoolInv
<1> QED
  BY <1>2, <1>4

THEOREM IdPoolInvariant == Spec => []IdPoolInv
  BY InitInv, InvPreserved, PTL DEF Spec

(* Type correctness, for any number of ids, threads and blocks. *)
THEOREM IdPoolTypeOK == Spec => []TypeOK
<1>1. IdPoolInv => TypeOK
  BY DEF IdPoolInv
<1> QED
  BY <1>1, IdPoolInvariant, PTL

(* An id is never in two hands. *)
THEOREM IdPoolOneOwner == Spec => []OneOwner
<1>1. IdPoolInv => OneOwner
  BY DEF IdPoolInv, Held
<1> QED
  BY <1>1, IdPoolInvariant, PTL

(* Apart from starts that ran out of memory no id is ever lost. *)
THEOREM IdPoolNoIdLeaks == Spec => []NoIdLeaks
<1>1. IdPoolInv => NoIdLeaks
  <2> SUFFICES ASSUME IdPoolInv PROVE NoIdLeaks
    OBVIOUS
  <2>1. \A i \in priv_pid_pool : i \in players \cup lost \cup {pid[c] : c \in {d \in Caller : Holds(d)}}
    BY DEF IdPoolInv, Held, IdsHeld
  <2>2. \A c \in Caller : Holds(c) => pid[c] \in priv_pid_pool
    BY DEF IdPoolInv, Held, OneOwner
  <2> QED
    BY <2>1, <2>2 DEF NoIdLeaks, IdPoolInv, Held, OneOwner
<1> QED
  BY <1>1, IdPoolInvariant, PTL

(* A call on a running player works on a play_para_t that is allocated,    *)
(* whatever other threads start, list, call and exit meanwhile; calls on   *)
(* ids listed during a start or an exit are the stated exception.          *)
THEOREM IdPoolNoUseAfterFree == Spec => []NoUseAfterFree
<1>1. IdPoolInv => NoUseAfterFree
  BY DEF IdPoolInv, Held, Blocks, Apart, NoUseAfterFree, Uses
<1> QED
  BY <1>1, IdPoolInvariant, PTL

(* No play_para_t outlives its player. *)
THEOREM IdPoolNoBlockLeaks == Spec => []NoBlockLeaks
<1>1. IdPoolInv => NoBlockLeaks
  <2> DEFINE owners == {d \in Caller : at[d] \in {"allocated", "inited", "exiting"}}
  <2> SUFFICES ASSUME IdPoolInv PROVE NoBlockLeaks
    OBVIOUS
  <2>1. \A p \in alive : p \in {priv_pid_data[i] : i \in players} \cup {para[c] : c \in owners}
    BY DEF IdPoolInv, Held, BlocksHeld, Owns
  <2>2. \A c \in owners : para[c] \in alive
    BY DEF IdPoolInv, Held, Blocks, Owns
  <2>3. \A i \in players : priv_pid_data[i] \in alive
    BY DEF IdPoolInv, Held, Blocks
  <2> QED
    BY <2>1, <2>2, <2>3 DEF NoBlockLeaks
<1> QED
  BY <1>1, IdPoolInvariant, PTL
-----------------------------------------------------------------------------
(* The count of opens.  An id that was not opened during its start begins  *)
(* its life as a player with a count of 0, as player_request_pid left it,  *)
(* and an open made during a start or an exit is remembered as a stray     *)
(* until its call is over.                                                 *)
Users(i) == {c \in Caller : Uses(c) /\ pid[c] = i}

Begun(c) == at[c] \in {"requested", "allocated", "inited"} /\ pid[c] \notin strays
Fresh == \A c \in Caller : Begun(c) => priv_pid_used[pid[c]] = 0
Strays == \A c \in Caller : at[c] = "listed" => pid[c] \in strays

CountInv == IdPoolInv /\ UsedCounts /\ Fresh /\ Strays

LEMMA UsersFinite == \A i : IsFiniteSet(Users(i)) /\ Cardinality(Users(i)) \in Nat
  BY PlayerIdPoolAssumption, FS_Subset, FS_CardinalityType DEF Users

(* The count of opens, by the set of calls. *)
LEMMA CountsByUsers ==
  /\ UsedCounts <=> \A i \in players \ strays : priv_pid_used[i] = Cardinality(Users(i))
  /\ UsedCounts' <=> \A i \in players' \ strays' : priv_pid_used'[i] = Cardinality(Users(i)')
  BY DEF UsedCounts, Users

(* An action that begins and ends no call leaves the players' counts. *)
LEMMA CallsKept ==
  ASSUME IdPoolInv, UsedCounts, players' \ strays' \subseteq players \ strays,
         \A d \in Caller : Uses(d)' = Uses(d) /\ (Uses(d) => pid'[d] = pid[d]),
         \A i \in players' \ strays' : priv_pid_used'[i] = priv_pid_used[i]
  PROVE  UsedCounts'
<1>1. ASSUME NEW i \in players' \ strays' PROVE priv_pid_used'[i] = Cardinality(Users(i)')
  <2>1. Users(i)' = Users(i)
    BY DEF Users
  <2>2. i \in players \ strays
    OBVIOUS
  <2> QED
    BY <2>1, <2>2 DEF UsedCounts, Users
<1> QED
  BY <1>1 DEF UsedCounts, Users

(* An open of an id that no player runs behind counts for no player. *)
LEMMA OpenCounts ==
  ASSUME CountInv, NEW c \in Caller, NEW i \in Pid, Open(c, i)
  PROVE  UsedCounts'
<1> USE DEF CountInv, IdPoolInv
<1>1. i \notin players => UsedCounts'
  <2> SUFFICES ASSUME i \notin players PROVE UsedCounts'
    OBVIOUS
  <2>1. \A d \in Caller : Uses(d)' = Uses(d) /\ (Uses(d) => pid'[d] = pid[d])
    BY DEF Open, Becomes, Uses, TypeOK
  <2>2. players' \ strays' \subseteq players \ strays
    BY DEF Open
  <2>3. \A j \in players' \ strays' : priv_pid_used'[j] = priv_pid_used[j]
    BY DEF Open, TypeOK
  <2> QED
    BY <2>1, <2>2, <2>3, CallsKept
<1>2. i \in players => UsedCounts'
  <2> SUFFICES ASSUME i \in players PROVE UsedCounts'
    OBVIOUS
  <2>1. priv_pid_data[i] # NoPara
    BY PlayerIdPoolAssumption DEF Held, Blocks, TypeOK
  <2>2. Users(i)' = Users(i) \cup {c} /\ c \notin Users(i)
    BY <2>1 DEF Open, Becomes, Uses, Users, TypeOK
  <2>3. ASSUME i \notin strays PROVE Cardinality(Users(i)') = priv_pid_used'[i]
    <3>1. Cardinality(Users(i) \cup {c}) = Cardinality(Users(i)) + 1
      BY <2>2, UsersFinite, FS_AddElement
    <3>2. priv_pid_used[i] = Cardinality(Users(i))
      BY <2>3, CountsByUsers
    <3>3. priv_pid_used'[i] = priv_pid_used[i] + 1
      BY DEF Open, TypeOK
    <3> QED
      BY <2>2, <3>1, <3>2, <3>3
  <2>4. ASSUME NEW j \in players, j # i PROVE Users(j)' = Users(j) /\ priv_pid_used'[j] = priv_pid_used[j]
    BY <2>1, <2>4 DEF Open, Becomes, Uses, Users, TypeOK
  <2>5. players' = players /\ strays' = strays
    BY DEF Open
  <2> QED
    BY <2>3, <2>4, <2>5, CountsByUsers
<1> QED
  BY <1>1, <1>2

(* A call that opened its id as a player's closes it there; a stray one    *)
(* may close it on the count of another player, which is a stray too.      *)
LEMMA CloseCounts ==
  ASSUME CountInv, NEW c \in Caller, Close(c)
  PROVE  UsedCounts'
<1> USE DEF CountInv, IdPoolInv
<1>0. PICK i \in Pid : i = pid[c]
  BY DEF TypeOK
<1>a. players' = players /\ strays' = strays
  BY DEF Close
<1>1. ASSUME at[c] = "listed" PROVE UsedCounts'
  <2>1. i \in strays
    BY <1>0, <1>1 DEF Strays
  <2>2. \A d \in Caller : Uses(d)' = Uses(d) /\ (Uses(d) => pid'[d] = pid[d])
    BY <1>1 DEF Close, Becomes, Uses, TypeOK
  <2>3. \A j \in players' \ strays' : priv_pid_used'[j] = priv_pid_used[j]
    BY <1>0, <1>a, <2>1 DEF Close, ClosePid, TypeOK
  <2> QED
    BY <1>a, <2>2, <2>3, CallsKept
<1>2. ASSUME at[c] = "using" PROVE UsedCounts'
  <2>1. i \in players /\ i \in priv_pid_pool
    BY <1>0, <1>2 DEF Held, Blocks, OneOwner, TypeOK
  <2>2. Users(i)' = Users(i) \ {c} /\ c \in Users(i)
    BY <1>0, <1>2 DEF Close, Becomes, Uses, Users, TypeOK
  <2>3. Cardinality(Users(i)') = Cardinality(Users(i)) - 1 /\ Cardinality(Users(i)) > 0
    <3>1. Users(i) # {}
      BY <2>2
    <3> QED
      BY <2>2, <3>1, UsersFinite, FS_RemoveElement, FS_EmptySet
  <2>4. ASSUME i \notin strays PROVE priv_pid_used'[i] = Cardinality(Users(i)')
    <3>1. priv_pid_used[i] = Cardinality(Users(i))
      BY <2>1, <2>4, CountsByUsers
    <3> QED
      BY <1>0, <2>1, <2>3, <3>1 DEF Close, ClosePid, TypeOK
  <2>5. ASSUME NEW j \in players, j # i PROVE Users(j)' = Users(j) /\ priv_pid_used'[j] = priv_pid_used[j]
    BY <1>0, <2>1, <2>5 DEF Close, ClosePid, Becomes, Uses, Users, TypeOK
  <2> QED
    BY <1>a, <2>4, <2>5, CountsByUsers
<1> QED
  BY <1>1, <1>2 DEF Close

(* The new player has no calls, and unless it is a stray no count. *)
LEMMA CreateCounts ==
  ASSUME CountInv, NEW c \in Caller, Create(c)
  PROVE  UsedCounts'
<1> USE DEF CountInv, IdPoolInv
<1>1. Users(pid[c]) = {}
  BY DEF Create, Held, OneOwner, Blocks, Holds, Starting, Uses, Users
<1>2. pid[c] \notin strays => priv_pid_used[pid[c]] = 0
  BY DEF Create, Fresh, Begun
<1>3. \A i : Users(i)' = Users(i)
  BY DEF Create, Becomes, Uses, Users, TypeOK
<1>4. players' \subseteq players \cup {pid[c]} /\ priv_pid_used' = priv_pid_used /\ strays' = strays
  BY DEF Create, pool
<1>5. Cardinality(Users(pid[c])) = 0
  BY <1>1, FS_EmptySet
<1> QED
  BY <1>2, <1>3, <1>4, <1>5, CountsByUsers

(* An id that is released belongs to no player. *)
LEMMA ReleaseCounts ==
  ASSUME CountInv, NEW c \in Caller, FailRelease(c) \/ ExitRelease(c)
  PROVE  UsedCounts'
<1> USE DEF CountInv, IdPoolInv
<1>1. pid[c] \notin players /\ pid[c] \in Pid
  BY DEF FailRelease, ExitRelease, TypeOK, Held, OneOwner, Holds, Starting, Leaving
<1>2. \A i \in players : priv_pid_used'[i] = priv_pid_used[i]
  BY <1>1 DEF FailRelease, ExitRelease, ReleasePid, TypeOK
<1>3. \A d \in Caller : Uses(d)' = Uses(d) /\ pid'[d] = pid[d]
  BY DEF FailRelease, ExitRelease, Becomes, Uses, TypeOK
<1>4. players' = players /\ players' \ strays' \subseteq players \ strays
  BY <1>1 DEF FailRelease, ExitRelease, Settle
<1> QED
  BY <1>2, <1>3, <1>4, CallsKept

LEMMA CountsStep == ASSUME CountInv, [Next]_vars PROVE UsedCounts'
<1> USE DEF CountInv, IdPoolInv
<1>1. ASSUME NEW c \in Caller, Request(c) PROVE UsedCounts'
  BY <1>1, CallsKept DEF Request, Ahead, Becomes, Uses, TypeOK, Held, OneOwner
<1>2. ASSUME NEW c \in Caller, Malloc(c) \/ InitData(c) \/ Free(c) PROVE UsedCounts'
  BY <1>2, CallsKept DEF Malloc, InitData, Free, Becomes, Uses, TypeOK, pool
<1>3. ASSUME NEW c \in Caller, ExitClose(c) PROVE UsedCounts'
  <2>1. pid[c] \notin players /\ pid[c] \in Pid
    BY <1>3 DEF ExitClose, TypeOK, Held, OneOwner, Holds, Leaving
  <2>2. \A i \in players : priv_pid_used'[i] = priv_pid_used[i]
    BY <1>3, <2>1 DEF ExitClose, ClosePid, TypeOK
  <2> QED
    BY <1>3, <2>2, CallsKept DEF ExitClose, Becomes, Uses, TypeOK
<1>4. ASSUME NEW c \in Caller, NEW i \in Pid, Exit(c, i) PROVE UsedCounts'
  <2>1. \A j \in players' : priv_pid_used'[j] = priv_pid_used[j]
    BY <1>4 DEF Exit, TypeOK
  <2>2. \A d \in Caller : Uses(d)' = Uses(d) /\ (Uses(d) => pid'[d] = pid[d])
    BY <1>4 DEF Exit, Becomes, Uses, TypeOK
  <2> QED
    BY <1>4, <2>1, <2>2, CallsKept DEF Exit
<1>5. CASE UNCHANGED vars
  BY <1>5, CallsKept DEF vars, pool, Uses
<1> QED
  BY <1>1, <1>2, <1>3, <1>4, <1>5, OpenCounts, CloseCounts, CreateCounts, ReleaseCounts
  DEF Next, RequestFails

(* While an id is being started only a stray open touches its count. *)
LEMMA FreshStep == ASSUME CountInv, [Next]_vars PROVE Fresh'
<1> USE DEF CountInv, IdPoolInv
<1>1. ASSUME NEW c \in Caller, Request(c) PROVE Fresh'
  BY <1>1 DEF Request, Ahead, Becomes, Fresh, Begun, TypeOK, Held, OneOwner, Holds, Starting
<1>2. ASSUME NEW c \in Caller, Malloc(c) \/ InitData(c) \/ Create(c) \/ Free(c) PROVE Fresh'
  BY <1>2 DEF Malloc, InitData, Create, Free, Becomes, Fresh, Begun, TypeOK, pool
<1>3. ASSUME NEW c \in Caller, FailRelease(c) \/ ExitRelease(c), NEW d \in Caller, Begun(d)'
      PROVE priv_pid_used'[pid'[d]] = 0
  <2>1. d # c /\ at[d] = at'[d] /\ pid' = pid
    BY <1>3 DEF FailRelease, ExitRelease, Becomes, Begun, TypeOK
  <2>2. pid[d] # pid[c] /\ pid[d] \in Pid
    BY <1>3, <2>1 DEF FailRelease, ExitRelease, Begun, Held, OneOwner, Holds, Starting, Leaving, TypeOK
  <2>3. pid[d] \notin strays
    BY <1>3, <2>1, <2>2 DEF FailRelease, ExitRelease, Settle, Begun
  <2>4. priv_pid_used[pid[d]] = 0
    BY <1>3, <2>1, <2>3 DEF Fresh, Begun
  <2> QED
    BY <1>3, <2>1, <2>2, <2>4 DEF FailRelease, ExitRelease, ReleasePid, TypeOK
<1>4. ASSUME NEW c \in Caller, ExitClose(c) PROVE Fresh'
  BY <1>4 DEF ExitClose, ClosePid, Becomes, Fresh, Begun, TypeOK, Held, OneOwner, Holds, Starting, Leaving
<1>5. ASSUME NEW c \in Caller, NEW i \in Pid, Exit(c, i) PROVE Fresh'
  BY <1>5 DEF Exit, Becomes, Fresh, Begun, TypeOK, Held, OneOwner, Holds, Starting
<1>6. ASSUME NEW c \in Caller, NEW i \in Pid, Open(c, i), NEW d \in Caller, Begun(d)'
      PROVE priv_pid_used'[pid'[d]] = 0
  <2>1. d # c /\ at[d] = at'[d] /\ pid'[d] = pid[d]
    BY <1>6 DEF Open, Becomes, Begun, TypeOK
  <2>2. pid[d] \notin players \cup lost
    BY <1>6, <2>1 DEF Begun, Held, OneOwner, Holds, Starting
  <2>3. pid[d] \notin strays /\ pid[d] # i
    BY <1>6, <2>1, <2>2 DEF Open, Begun
  <2> QED
    BY <1>6, <2>1, <2>3 DEF Open, Fresh, Begun, TypeOK
<1>7. ASSUME NEW c \in Caller, Close(c), NEW d \in Caller, Begun(d)'
      PROVE priv_pid_used'[pid'[d]] = 0
  <2>1. d # c /\ at[d] = at'[d] /\ pid' = pid /\ strays' = strays
    BY <1>7 DEF Close, Becomes, Begun, TypeOK
  <2>2. priv_pid_used[pid[d]] = 0 /\ pid[d] \in Pid
    BY <1>7, <2>1 DEF Fresh, Begun, TypeOK
  <2> QED
    BY <1>7, <2>1, <2>2 DEF Close, ClosePid, TypeOK
<1>8. CASE UNCHANGED vars
  BY <1>8 DEF vars, pool, Fresh, Begun
<1>9. (\A d \in Caller : Begun(d)' => priv_pid_used'[pid'[d]] = 0) => Fresh'
  BY DEF Fresh
<1> QED
  BY <1>1, <1>2, <1>3, <1>4, <1>5, <1>6, <1>7, <1>8, <1>9 DEF Next, RequestFails

(* A stray stays one as long as the call that made it one. *)
LEMMA StraysStep == ASSUME CountInv, [Next]_vars PROVE Strays'
<1> USE DEF CountInv, IdPoolInv
<1>1. ASSUME NEW c \in Caller,
             Request(c) \/ Malloc(c) \/ InitData(c) \/ Create(c) \/ Free(c) \/ ExitClose(c) \/ Close(c)
      PROVE  Strays'
  BY <1>1 DEF Request, Malloc, InitData, Create, Free, ExitClose, Close, Becomes, Strays, TypeOK
<1>2. ASSUME NEW c \in Caller, FailRelease(c) \/ ExitRelease(c) PROVE Strays'
  BY <1>2 DEF FailRelease, ExitRelease, Settle, Quiet, Becomes, Strays, TypeOK
<1>3. ASSUME NEW c \in Caller, NEW i \in Pid, Exit(c, i) PROVE Strays'
  BY <1>3 DEF Exit, Becomes, Strays, TypeOK
<1>4. ASSUME NEW c \in Caller, NEW i \in Pid, Open(c, i) PROVE Strays'
  BY <1>4 DEF Open, Becomes, Strays, TypeOK, Held, LostEmpty
<1>5. CASE UNCHANGED vars
  BY <1>5 DEF vars, pool, Strays
<1> QED
  BY <1>1, <1>2, <1>3, <1>4, <1>5 DEF Next, RequestFails

LEMMA CountPreserved == ASSUME CountInv, [Next]_vars PROVE CountInv'
  BY InvPreserved, CountsStep, FreshStep, StraysStep DEF CountInv

(* The number player_release_pid and player_close_pid_data warn about is   *)
(* the number of calls on the player, for any number of threads, unless    *)
(* its id was opened during its start or exit.                             *)
THEOREM IdPoolUsedCounts == Spec => []UsedCounts
<1>1. Init => CountInv
  <2>1. Init => UsedCounts /\ Fresh /\ Strays
    BY DEF Init, UsedCounts, Fresh, Begun, Strays
  <2> QED
    BY <2>1, InitInv DEF CountInv
<1>2. CountInv => UsedCounts
  BY DEF CountInv
<1> QED
  BY <1>1, <1>2, CountPreserved, PTL DEF Spec
=============================================================================
