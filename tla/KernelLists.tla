---------------------------- MODULE KernelLists ----------------------------
(***************************************************************************)
(* The lists of the CoOS kernel and the functions that change them while   *)
(* the scheduler is locked: the ready list, the delay list and the waiting *)
(* lists of the events.  CoreLock shows that one context at a time is      *)
(* between OsSchedLock and OsSchedUnlock, so here each function is an      *)
(* operator from kernel state to kernel state; Events and Kernel add the   *)
(* other functions, TaskSched and EventSync compose them into actions.     *)
(*                                                                         *)
(* A kernel state is a record k:                                           *)
(*   st, prio, tick, ev  per task: state, prio, delayTick and eventID      *)
(*   rdy, dly, free      the lists headed by TCBRdy, DlyList and FreeTCB   *)
(*   wait                per event, the list headed by eventTCBList        *)
(*   run                 TCBRunning (a switch is atomic, so also TCBNext)  *)
(*   req, timeReq        TaskSchedReq and TimeReq                          *)
(*   slice               OSCheckTime - OSTickCnt, where all values below   *)
(*                       zero are -1: Schedule and InsertToTCBRdyList only *)
(*                       test for < and =                                  *)
(*   lock                the OSSchedLock that tasks hold by CoSchedLock    *)
(*   pmail               per task, the mail handed to it                   *)
(*   mid, mx, mnum       mutexID per task, MutexTbl and MutexFreeID,       *)
(*                       described in Mutexes                              *)
(*   flg, pset           FlagCrl and the tasks whose pnode is 0xffffffff,  *)
(*                       described in Flags                                *)
(*   ecb                 EventTbl, described in Events                     *)
(*   in, out             history: per event, the mails put into it and the *)
(*                       mails taken out of it, in order                   *)
(*   srq                 the requests in ServiceReq                        *)
(*   stale               the tasks whose waitPrev is not NULL although     *)
(*                       they are the first of a waiting list or in none   *)
(*   intact              FALSE after a list function was applied to a task *)
(*                       that is not in the list it is removed from, or is *)
(*                       in a list already when it is inserted.  The link  *)
(*                       fields TCBnext and TCBprev are shared by all      *)
(*                       lists, so what the lists hold then is undefined.  *)
(***************************************************************************)
EXTENDS Integers, Sequences, SequencesExt, FiniteSets

CONSTANTS
  Task,       \* the TCBs, TCBTbl
  Idle,       \* TCBTbl[0], the task of CoIdleTask
  Lowest,     \* CFG_LOWEST_PRIO, the priority of Idle
  Event,      \* the event control blocks, EventTbl
  Mutex,      \* the mutex control blocks, MutexTbl
  TimeSlice,  \* CFG_TIME_SLICE
  Width,      \* the number of bits of delayTick
  NullPrio,   \* what TCBRdy->prio reads when TCBRdy is NULL
  InvalidId   \* INVALID_ID

ASSUME KernelAssumption ==
  /\ Idle \in Task /\ IsFiniteSet(Task)
  /\ Lowest \in Nat
  /\ TimeSlice \in Nat \ {0}
  /\ Width \in Nat \ {0}
  /\ NullPrio \in Nat
  /\ IsFiniteSet(Mutex) /\ Mutex = 1 .. Cardinality(Mutex)
  /\ InvalidId \notin Event \cup Mutex \cup Task

\* INVALID_VALUE, the delayTick of a task that is in no delay list.
Invalid == 2^Width - 1

\* What an assignment to a U32 keeps of x, and the S32 with the bits of x.
Unsigned(x) == x % 2^Width
Signed(x) == LET u == Unsigned(x) IN IF u >= 2^(Width - 1) THEN u - 2^Width ELSE u

\* What a loop over the elements of s makes of k: FoldLeft, as a function of
\* the number of rounds, by which proofs go through them.
Each(op(_, _), k, s) ==
  LET after[i \in 0 .. Len(s)] == IF i = 0 THEN k ELSE op(after[i - 1], s[i])
  IN after[Len(s)]

\* Where x is in the list s, 0 if it is not, and s after x was unlinked.
PlaceOf(s, x) ==
  LET at == {i \in DOMAIN s : s[i] = x} IN IF at = {} THEN 0 ELSE CHOOSE i \in at : TRUE

Unlinked(s, x) == IF PlaceOf(s, x) = 0 THEN s ELSE RemoveAt(s, PlaceOf(s, x))

\* The tasks whose TCBnext and TCBprev are in use.
Linked(k) ==
  ToSet(k.rdy) \cup ToSet(k.dly) \cup ToSet(k.free)
  \cup UNION {ToSet(k.mx[m].list) : m \in Mutex}

-----------------------------------------------------------------------------
(* The ready list, ordered by priority.                                    *)

\* Where the search of InsertToTCBRdyList stops: before the first task with
\* a lower priority than p, or at the end.
RdyPos(k, p) ==
  LET lower == {i \in DOMAIN k.rdy : p < k.prio[k.rdy[i]]}
  IN IF lower = {} THEN Len(k.rdy) + 1 ELSE CHOOSE i \in lower : \A j \in lower : i <= j

\* Mutant: a task that becomes the head of a list that was not empty does not
\* ask for a switch.
InsertWithoutRequest(k, t) ==
  LET p == k.prio[t]
  IN [k EXCEPT !.st[t] = "READY",
               !.rdy = InsertAt(@, RdyPos(k, p), t),
               !.req = @ \/ k.rdy = << >>,
               !.slice = IF p = k.prio[k.run] /\ t # k.run /\ @ < 0 THEN TimeSlice ELSE @,
               !.intact = @ /\ t \notin Linked(k)]

InsertToTCBRdyList(k, t) ==
  LET p == k.prio[t]
      pos == RdyPos(k, p)
  IN [k EXCEPT !.st[t] = "READY",
               !.rdy = InsertAt(@, pos, t),
               !.req = @ \/ pos = 1,
               !.slice = IF p = k.prio[k.run] /\ t # k.run /\ @ < 0 THEN TimeSlice ELSE @,
               !.intact = @ /\ t \notin Linked(k)]

RemoveFromTCBRdyList(k, t) ==
  [k EXCEPT !.rdy = Unlinked(@, t), !.intact = @ /\ t \in ToSet(k.rdy)]

\* TCBRdy->prio, read without a test for NULL.
RdyPrio(k) == IF k.rdy = << >> THEN NullPrio ELSE k.prio[k.rdy[1]]

-----------------------------------------------------------------------------
(* The delay list.  delayTick counts from the expiry of the task before.   *)

\* The ticks from now to the expiry of the i-th task of the delay list.
Due(k, i) ==
  LET sum[j \in 0 .. i] == IF j = 0 THEN 0 ELSE sum[j - 1] + k.tick[k.dly[j]]
  IN sum[i]

\* Mutant: the task behind keeps its delta.
InsertKeepsSuccessor(k, t, ticks) ==
  LET later == {i \in DOMAIN k.dly : Signed(ticks - Due(k, i)) < 0}
      pos == IF later = {} THEN Len(k.dly) + 1
                           ELSE CHOOSE i \in later : \A j \in later : i <= j
  IN IF ticks = 0 THEN k
     ELSE [k EXCEPT !.dly = InsertAt(@, pos, t),
                    !.tick[t] = Unsigned(ticks - Due(k, pos - 1)),
                    !.st[t] = "WAITING",
                    !.req = TRUE,
                    !.intact = @ /\ t \notin Linked(k)]

InsertDelayList(k, t, ticks) ==
  LET delta(i) == Signed(ticks - Due(k, i))
      later == {i \in DOMAIN k.dly : delta(i) < 0}
      pos == IF later = {} THEN Len(k.dly) + 1
                           ELSE CHOOSE i \in later : \A j \in later : i <= j
      next == k.dly[pos]
      own == IF later = {} THEN Unsigned(ticks - Due(k, Len(k.dly)))
                           ELSE Unsigned(k.tick[next] + delta(pos))
  IN IF ticks = 0 THEN k
     ELSE [k EXCEPT !.dly = InsertAt(@, pos, t),
                    !.tick = [x \in Task |->
                        CASE x = t -> own
                          [] later # {} /\ x = next -> Unsigned(k.tick[x] - own)
                          [] OTHER -> k.tick[x]],
                    !.st[t] = "WAITING",
                    !.req = TRUE,
                    !.intact = @ /\ t \notin Linked(k)]

\* Mutant: the delta of the removed task is not handed to the task behind.
RemoveDropsDelta(k, t) ==
  [k EXCEPT !.dly = Unlinked(@, t), !.tick[t] = Invalid,
            !.intact = @ /\ t \in ToSet(k.dly)]

RemoveDelayList(k, t) ==
  LET pos == PlaceOf(k.dly, t)
  IN [k EXCEPT !.dly = Unlinked(@, t),
               !.tick = [x \in Task |->
                   CASE x = t -> Invalid
                     [] pos \in 1 .. (Len(k.dly) - 1) /\ x = k.dly[pos + 1]
                          -> Unsigned(k.tick[x] + k.tick[t])
                     [] OTHER -> k.tick[x]],
               !.intact = @ /\ pos # 0]

-----------------------------------------------------------------------------
(* Waiting for an event.                                                   *)

\* A task alone in the list whose waitPrev was never cleared is taken for
\* the last of several, and eventTCBList keeps pointing to it; the first of
\* several is taken for one in the middle, with the same result.
RemoveEventWaittingList(k, t) ==
  LET e == k.ev[t]
      missed == t \in k.stale /\ k.wait[e][1] = t
  IN [k EXCEPT !.wait[e] = IF missed THEN @ ELSE Unlinked(@, t),
               !.ev[t] = InvalidId,
               !.stale = @ \ {t},
               !.intact = @ /\ ~missed /\ t \in ToSet(k.wait[e])]
=============================================================================
