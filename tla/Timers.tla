------------------------------- MODULE Timers -------------------------------
(***************************************************************************)
(* The software timers of timer.c: a doubly linked list of running timers, *)
(* each with the ticks between it and the one before it.  The tick (arch.c *)
(* SysTick) decrements the first count whenever it comes, also while a     *)
(* task walks the list under the scheduler lock; expired timers are then   *)
(* disposed of by the OsSchedUnlock that ends the lock, otherwise by the   *)
(* tick itself.  Where a tick can fall between two accesses to the first   *)
(* count, these are two steps.                                             *)
(*                                                                         *)
(* A context has an agenda: the pieces of code it has still to run, each   *)
(* for one timer.  The tick's disposal has one too, but nobody else moves  *)
(* until it is empty.                                                      *)
(***************************************************************************)
EXTENDS Integers, Sequences, FiniteSetsExt

CONSTANTS Task,
          Isr,         \* the tick as a context
          Nobody,
          Tmr,         \* 0 .. CFG_MAX_TMR-1
          Kinds,       \* timer |-> type, count and reload it is created with
          MaxBurst,    \* ticks that may come while the list is locked once
          Careful      \* callers avoid what the code does not protect them from

NULL == -1
Context == Task \cup {Isr}
Types == {"ONE_SHOT", "PERIODIC"}

ASSUME TimersAssumption ==
  /\ Tmr \subseteq Nat
  /\ Isr \notin Task /\ Nobody \notin Task \cup {Isr}
  /\ \A x \in Tmr : \A k \in Kinds[x] : k.type \in Types /\ k.cnt \in Nat \ {0} /\ k.reload \in Nat \ {0}
  /\ MaxBurst \in Nat
  /\ Careful \in BOOLEAN

VARIABLES TmrTbl,      \* type, state, count and reload of a timer
          tmrPrev, tmrNext, TmrList,
          TmrIDVessel,
          TimerReq, IsrReq,
          OSSchedLock,
          inside,      \* the context that holds the lock
          burst,       \* ticks since it was taken
          agenda,      \* context |-> the pieces of code it has still to run
          owner,       \* history: timer |-> the task that has created it
          left         \* history: ticks until a timer is due

links == <<tmrPrev, tmrNext, TmrList>>
reqs == <<TimerReq, IsrReq>>
locks == <<OSSchedLock, inside, burst>>
hist == <<owner, left>>
vars == <<TmrTbl, links, TmrIDVessel, reqs, locks, agenda, hist>>

Init ==
  /\ TmrTbl = [x \in Tmr |-> [type |-> "ONE_SHOT", running |-> FALSE, cnt |-> 0, reload |-> 0]]
  /\ tmrPrev = [x \in Tmr |-> NULL]
  /\ tmrNext = [x \in Tmr |-> NULL]
  /\ TmrList = NULL
  /\ TmrIDVessel = {}
  /\ TimerReq = FALSE /\ IsrReq = FALSE
  /\ OSSchedLock = 0 /\ inside = Nobody /\ burst = 0
  /\ agenda = [c \in Context |-> <<>>]
  /\ owner = [x \in Tmr |-> Nobody]
  /\ left = [x \in Tmr |-> 0]

(***************************************************************************)
(* Agendas.                                                                *)
(***************************************************************************)
Piece(do, x) == [do |-> do, tmr |-> x, p |-> NULL, n |-> 0]
PieceAt(do, x, p, n) == [do |-> do, tmr |-> x, p |-> p, n |-> n]

(* Context c is at this piece and may go on. *)
At(c, do) ==
  /\ agenda[c] # <<>> /\ agenda[c][1].do = do
  /\ inside \in {Nobody, c}
Cur(c) == agenda[c][1]
Then(c, pieces) == agenda' = [agenda EXCEPT ![c] = pieces \o Tail(@)]
Done(c) == Then(c, <<>>)

OsSchedLock(c) ==
  /\ OSSchedLock' = OSSchedLock + 1
  /\ inside' = c
  /\ UNCHANGED burst
Unlocked == OSSchedLock' = 0 /\ inside' = Nobody /\ burst' = 0

(* The end of OsSchedUnlock: requests are served while the lock is still   *)
(* 1, and not again if one comes after that.                               *)
OsSchedUnlock(c) ==
  /\ At(c, "unlock")
  /\ IF OSSchedLock > 1
     THEN /\ OSSchedLock' = OSSchedLock - 1
          /\ UNCHANGED <<inside, burst>>
          /\ Done(c)
     ELSE IF IsrReq
     THEN /\ Then(c, (IF TimerReq THEN <<Piece("dispose", NULL), Piece("reset", NULL)>> ELSE <<>>)
                     \o <<Piece("clear", NULL), Piece("open", NULL)>>)
          /\ UNCHANGED locks
     ELSE /\ Unlocked
          /\ Done(c)
  /\ UNCHANGED <<TmrTbl, links, TmrIDVessel, reqs, hist>>

(* The rest of RespondSRQ, and of OsSchedUnlock after it. *)
ResetTimerReq(c) ==
  /\ At(c, "reset")
  /\ TimerReq' = FALSE
  /\ Done(c)
  /\ UNCHANGED <<TmrTbl, links, TmrIDVessel, IsrReq, locks, hist>>
ClearIsrReq(c) ==
  /\ At(c, "clear")
  /\ IsrReq' = FALSE
  /\ Done(c)
  /\ UNCHANGED <<TmrTbl, links, TmrIDVessel, TimerReq, locks, hist>>
Open(c) ==
  /\ At(c, "open")
  /\ Unlocked
  /\ Done(c)
  /\ UNCHANGED <<TmrTbl, links, TmrIDVessel, reqs, hist>>

(* CoSchedLock by a careful caller. *)
Lock(c) ==
  /\ At(c, "lock")
  /\ OsSchedLock(c)
  /\ Done(c)
  /\ UNCHANGED <<TmrTbl, links, TmrIDVessel, reqs, hist>>

(***************************************************************************)
(* InsertTmrList.  The walk finds the first timer that is due later; the   *)
(* links, the count of the new timer and that of the one behind it follow. *)
(***************************************************************************)
InList ==
  LET from[x \in Tmr \cup {NULL}] == IF x = NULL THEN <<>> ELSE <<x>> \o from[tmrNext[x]]
  IN from[TmrList]

SumTo(i) ==
  LET sum[j \in 0 .. i] == IF j = 0 THEN 0 ELSE sum[j - 1] + TmrTbl[InList[j]].cnt
  IN sum[i]

Insert(c) ==
  /\ At(c, "insert")
  /\ LET x == Cur(c).tmr
         cnt == TmrTbl[x].cnt
         later == {i \in DOMAIN InList : cnt < SumTo(i)}
         last == Len(InList)
     IN /\ left' = [left EXCEPT ![x] = cnt]
        /\ IF cnt = 0
           THEN Done(c) /\ UNCHANGED <<TmrTbl, links, locks>>
           ELSE /\ OsSchedLock(c)
                /\ IF TmrList = NULL
                   THEN /\ TmrList' = x
                        /\ Then(c, <<Piece("unlock", NULL)>>)
                        /\ UNCHANGED <<TmrTbl, tmrPrev, tmrNext>>
                   ELSE IF later = {}
                   THEN /\ tmrPrev' = [tmrPrev EXCEPT ![x] = InList[last]]
                        /\ tmrNext' = [tmrNext EXCEPT ![InList[last]] = x]
                        /\ TmrTbl' = [TmrTbl EXCEPT ![x].cnt = cnt - SumTo(last)]
                        /\ Then(c, <<Piece("unlock", NULL)>>)
                        /\ UNCHANGED TmrList
                   ELSE /\ LET i == Min(later)
                           IN Then(c, <<PieceAt("link", x, InList[i], cnt - SumTo(i))>>)
                        /\ UNCHANGED <<TmrTbl, links>>
  /\ UNCHANGED <<TmrIDVessel, reqs, owner>>

InsertLink(c) ==
  /\ At(c, "link")
  /\ LET x == Cur(c).tmr
         p == Cur(c).p
         q == tmrPrev[p]
     IN /\ IF q = NULL
           THEN /\ tmrNext' = [tmrNext EXCEPT ![x] = TmrList]
                /\ tmrPrev' = [tmrPrev EXCEPT ![TmrList] = x]
                /\ TmrList' = x
           ELSE /\ tmrNext' = [tmrNext EXCEPT ![q] = x, ![x] = p]
                /\ tmrPrev' = [tmrPrev EXCEPT ![x] = q, ![p] = x]
                /\ UNCHANGED TmrList
        /\ Then(c, <<PieceAt("count", x, p, Cur(c).n)>>)
  /\ UNCHANGED <<TmrTbl, TmrIDVessel, reqs, locks, hist>>

InsertCount(c) ==
  /\ At(c, "count")
  /\ LET x == Cur(c).tmr
     IN /\ TmrTbl' = [TmrTbl EXCEPT ![x].cnt = TmrTbl[tmrNext[x]].cnt + Cur(c).n]
        /\ Then(c, <<Piece("rest", x), Piece("unlock", NULL)>>)
  /\ UNCHANGED <<links, TmrIDVessel, reqs, locks, hist>>

(* Mutant of InsertRest: the timer behind keeps its count. *)
InsertRestKeeps(c) ==
  /\ At(c, "rest")
  /\ Done(c)
  /\ UNCHANGED <<TmrTbl, links, TmrIDVessel, reqs, locks, hist>>

InsertRest(c) ==
  /\ At(c, "rest")
  /\ LET x == Cur(c).tmr
     IN TmrTbl' = [TmrTbl EXCEPT ![tmrNext[x]].cnt = @ - TmrTbl[x].cnt]
  /\ Done(c)
  /\ UNCHANGED <<links, TmrIDVessel, reqs, locks, hist>>

(***************************************************************************)
(* RemoveTmrList.  A timer without links is taken for the only one in the  *)
(* list.  The count of a new head is loaded and stored with ticks between. *)
(***************************************************************************)
Remove(c) ==
  /\ At(c, "remove")
  /\ OsSchedLock(c)
  /\ LET x == Cur(c).tmr
         q == tmrPrev[x]
         n == tmrNext[x]
     IN CASE q = NULL /\ n = NULL ->
               /\ TmrList' = NULL
               /\ Then(c, <<Piece("unlock", NULL)>>)
               /\ UNCHANGED <<TmrTbl, tmrPrev, tmrNext>>
          [] q = NULL /\ n # NULL ->
               /\ TmrList' = n
               /\ tmrPrev' = [tmrPrev EXCEPT ![n] = NULL]
               /\ Then(c, <<PieceAt("load", x, n, 0)>>)
               /\ UNCHANGED <<TmrTbl, tmrNext>>
          [] q # NULL /\ n = NULL ->
               /\ tmrNext' = [tmrNext EXCEPT ![q] = NULL]
               /\ tmrPrev' = [tmrPrev EXCEPT ![x] = NULL]
               /\ Then(c, <<Piece("unlock", NULL)>>)
               /\ UNCHANGED <<TmrTbl, TmrList>>
          [] OTHER ->
               /\ tmrNext' = [tmrNext EXCEPT ![q] = n, ![x] = NULL]
               /\ tmrPrev' = [tmrPrev EXCEPT ![n] = q, ![x] = NULL]
               /\ TmrTbl' = [TmrTbl EXCEPT ![n].cnt = @ + TmrTbl[x].cnt]
               /\ Then(c, <<Piece("unlock", NULL)>>)
               /\ UNCHANGED TmrList
  /\ left' = [left EXCEPT ![Cur(c).tmr] = 0]
  /\ UNCHANGED <<TmrIDVessel, reqs, owner>>

RemoveLoad(c) ==
  /\ At(c, "load")
  /\ Then(c, <<PieceAt("store", Cur(c).tmr, Cur(c).p, TmrTbl[Cur(c).p].cnt)>>)
  /\ UNCHANGED <<TmrTbl, links, TmrIDVessel, reqs, locks, hist>>

(* Mutant of RemoveStore: the timer keeps its link. *)
RemoveStoreLinked(c) ==
  /\ At(c, "store")
  /\ TmrTbl' = [TmrTbl EXCEPT ![Cur(c).p].cnt = Cur(c).n + TmrTbl[Cur(c).tmr].cnt]
  /\ Then(c, <<Piece("unlock", NULL)>>)
  /\ UNCHANGED <<links, TmrIDVessel, reqs, locks, hist>>

RemoveStore(c) ==
  /\ At(c, "store")
  /\ LET x == Cur(c).tmr
     IN /\ TmrTbl' = [TmrTbl EXCEPT ![Cur(c).p].cnt = Cur(c).n + TmrTbl[x].cnt]
        /\ tmrNext' = [tmrNext EXCEPT ![x] = NULL]
  /\ Then(c, <<Piece("unlock", NULL)>>)
  /\ UNCHANGED <<tmrPrev, TmrList, TmrIDVessel, reqs, locks, hist>>

(***************************************************************************)
(* TmrDispose, a turn of its loop at a time, and the tick.                 *)
(***************************************************************************)
TmrDispose(c) ==
  /\ At(c, "dispose")
  /\ IF TmrList # NULL /\ TmrTbl[TmrList].cnt = 0
     THEN Then(c, (IF TmrTbl[TmrList].type = "ONE_SHOT"
                   THEN <<Piece("remove", TmrList), Piece("stopped", TmrList)>>
                   ELSE <<Piece("remove", TmrList), Piece("reload", TmrList),
                          Piece("insert", TmrList)>>)
                  \o <<Piece("fire", TmrList), Piece("dispose", NULL)>>)
     ELSE Done(c)
  /\ UNCHANGED <<TmrTbl, links, TmrIDVessel, reqs, locks, hist>>

Reload(c) ==
  /\ At(c, "reload")
  /\ TmrTbl' = [TmrTbl EXCEPT ![Cur(c).tmr].cnt = TmrTbl[Cur(c).tmr].reload]
  /\ Done(c)
  /\ UNCHANGED <<links, TmrIDVessel, reqs, locks, hist>>

Fire(c) ==
  /\ At(c, "fire")
  /\ Done(c)
  /\ UNCHANGED <<TmrTbl, links, TmrIDVessel, reqs, locks, hist>>

(* A tick counts for a timer in the list, or on its way into it, except    *)
(* when the head has expired and waits, when the new head's count is still *)
(* to be written or behind a new head whose follower's count is, and when  *)
(* the count of the head has been loaded to be stored again.               *)
CountedBy(x) ==
  /\ TmrTbl[TmrList].cnt > 0
  /\ \A c \in Context : agenda[c] # <<>> =>
       /\ ~(Cur(c).do = "count" /\ Cur(c).tmr = TmrList)
       /\ ~(Cur(c).do = "rest" /\ Cur(c).tmr = TmrList /\ x # TmrList)
       /\ Cur(c).do # "store"

(* Mutant of SysTick: only the step from 1 to 0 asks for a disposal. *)
SysTickOnce ==
  /\ inside # Isr
  /\ OSSchedLock > 0 => burst < MaxBurst
  /\ TmrList # NULL
  /\ LET n == TmrTbl[TmrList].cnt
     IN /\ TmrTbl' = [TmrTbl EXCEPT ![TmrList].cnt = IF n = 0 THEN 0 ELSE n - 1]
        /\ TimerReq' = (TimerReq \/ (n = 1 /\ OSSchedLock > 0))
        /\ IsrReq' = (IsrReq \/ (n = 1 /\ OSSchedLock > 0))
        /\ IF n = 1 /\ OSSchedLock = 0
           THEN /\ OsSchedLock(Isr)
                /\ agenda' = [agenda EXCEPT ![Isr] = <<Piece("dispose", NULL), Piece("unlock", NULL)>>]
           ELSE /\ burst' = IF OSSchedLock > 0 THEN burst + 1 ELSE 0
                /\ UNCHANGED <<OSSchedLock, inside, agenda>>
  /\ left' = [x \in Tmr |-> IF left[x] > 0 /\ CountedBy(x) THEN left[x] - 1 ELSE left[x]]
  /\ UNCHANGED <<links, TmrIDVessel, owner>>

SysTick ==
  /\ inside # Isr
  /\ OSSchedLock > 0 => burst < MaxBurst
  /\ TmrList # NULL
  /\ LET expires == TmrTbl[TmrList].cnt <= 1
     IN /\ TmrTbl' = [TmrTbl EXCEPT ![TmrList].cnt = IF expires THEN 0 ELSE @ - 1]
        /\ TimerReq' = (TimerReq \/ (expires /\ OSSchedLock > 0))
        /\ IsrReq' = (IsrReq \/ (expires /\ OSSchedLock > 0))
        /\ IF OSSchedLock = 0 /\ (expires \/ IsrReq)
           THEN /\ OsSchedLock(Isr)
                /\ agenda' = [agenda EXCEPT ![Isr] =
                     (IF expires THEN <<Piece("dispose", NULL)>> ELSE <<>>) \o <<Piece("unlock", NULL)>>]
           ELSE /\ burst' = IF OSSchedLock > 0 THEN burst + 1 ELSE 0
                /\ UNCHANGED <<OSSchedLock, inside, agenda>>
  /\ left' = [x \in Tmr |-> IF left[x] > 0 /\ CountedBy(x) THEN left[x] - 1 ELSE left[x]]
  /\ UNCHANGED <<links, TmrIDVessel, owner>>

(***************************************************************************)
(* The calls of a task.  Careful callers set a count before they start an  *)
(* expired timer, set counts of stopped timers only, and hold the          *)
(* scheduler lock around a call that finds a one-shot timer running.       *)
(***************************************************************************)
Free(t) == agenda[t] = <<>> /\ inside = Nobody
Calls(t, pieces) == agenda' = [agenda EXCEPT ![t] = pieces]
Around(x, pieces) ==
  IF Careful /\ TmrTbl[x].type = "ONE_SHOT"
  THEN <<Piece("lock", NULL)>> \o pieces \o <<Piece("unlock", NULL)>>
  ELSE pieces

CoCreateTmr(t, x, k) ==
  /\ Free(t)
  /\ TmrIDVessel # Tmr
  /\ x = Min(Tmr \ TmrIDVessel)
  /\ TmrIDVessel' = TmrIDVessel \cup {x}
  /\ TmrTbl' = [TmrTbl EXCEPT ![x] =
                  [type |-> k.type, running |-> FALSE, cnt |-> k.cnt, reload |-> k.reload]]
  /\ tmrPrev' = [tmrPrev EXCEPT ![x] = NULL]
  /\ tmrNext' = [tmrNext EXCEPT ![x] = NULL]
  /\ owner' = [owner EXCEPT ![x] = t]
  /\ UNCHANGED <<TmrList, reqs, locks, agenda, left>>

CoStartTmr(t, x) ==
  /\ Free(t)
  /\ x \in TmrIDVessel /\ owner[x] = t
  /\ Careful => TmrTbl[x].cnt > 0
  /\ ~TmrTbl[x].running
  /\ TmrTbl' = [TmrTbl EXCEPT ![x].running = TRUE]
  /\ Calls(t, <<Piece("insert", x)>>)
  /\ UNCHANGED <<links, TmrIDVessel, reqs, locks, hist>>

CoStopTmr(t, x) ==
  /\ Free(t)
  /\ x \in TmrIDVessel /\ owner[x] = t
  /\ Calls(t, Around(x, <<Piece("stoptest", x)>>))
  /\ UNCHANGED <<TmrTbl, links, TmrIDVessel, reqs, locks, hist>>

StopTest(c) ==
  /\ At(c, "stoptest")
  /\ IF TmrTbl[Cur(c).tmr].running
     THEN Then(c, <<Piece("remove", Cur(c).tmr), Piece("stopped", Cur(c).tmr)>>)
     ELSE Done(c)
  /\ UNCHANGED <<TmrTbl, links, TmrIDVessel, reqs, locks, hist>>

Stopped(c) ==
  /\ At(c, "stopped")
  /\ TmrTbl' = [TmrTbl EXCEPT ![Cur(c).tmr].running = FALSE]
  /\ Done(c)
  /\ UNCHANGED <<links, TmrIDVessel, reqs, locks, hist>>

CoDelTmr(t, x) ==
  /\ Free(t)
  /\ x \in TmrIDVessel /\ owner[x] = t
  /\ Calls(t, Around(x, <<Piece("deltest", x)>>))
  /\ UNCHANGED <<TmrTbl, links, TmrIDVessel, reqs, locks, hist>>

DelTest(c) ==
  /\ At(c, "deltest")
  /\ Then(c, (IF TmrTbl[Cur(c).tmr].running THEN <<Piece("remove", Cur(c).tmr)>> ELSE <<>>)
             \o <<Piece("release", Cur(c).tmr)>>)
  /\ UNCHANGED <<TmrTbl, links, TmrIDVessel, reqs, locks, hist>>

Release(c) ==
  /\ At(c, "release")
  /\ TmrIDVessel' = TmrIDVessel \ {Cur(c).tmr}
  /\ Done(c)
  /\ UNCHANGED <<TmrTbl, links, reqs, locks, hist>>

CoSetTmrCnt(t, x, k) ==
  /\ Free(t)
  /\ x \in TmrIDVessel /\ owner[x] = t
  /\ Careful => ~TmrTbl[x].running
  /\ TmrTbl' = [TmrTbl EXCEPT ![x].cnt = k.cnt, ![x].reload = k.reload]
  /\ Calls(t, <<Piece("settest", x)>>)
  /\ UNCHANGED <<links, TmrIDVessel, reqs, locks, hist>>

SetTest(c) ==
  /\ At(c, "settest")
  /\ IF TmrTbl[Cur(c).tmr].running
     THEN Then(c, <<Piece("remove", Cur(c).tmr), Piece("insert", Cur(c).tmr)>>)
     ELSE Done(c)
  /\ UNCHANGED <<TmrTbl, links, TmrIDVessel, reqs, locks, hist>>

(***************************************************************************)
(* The specification.                                                      *)
(***************************************************************************)
Step(c) ==
  \/ OsSchedUnlock(c) \/ ResetTimerReq(c) \/ ClearIsrReq(c) \/ Open(c) \/ Lock(c)
  \/ Insert(c) \/ InsertLink(c) \/ InsertCount(c) \/ InsertRest(c)
  \/ Remove(c) \/ RemoveLoad(c) \/ RemoveStore(c)
  \/ TmrDispose(c) \/ Reload(c) \/ Fire(c)
  \/ StopTest(c) \/ Stopped(c) \/ DelTest(c) \/ Release(c) \/ SetTest(c)

Request ==
  \E t \in Task, x \in Tmr :
    \/ CoStartTmr(t, x) \/ CoStopTmr(t, x) \/ CoDelTmr(t, x)
    \/ \E k \in Kinds[x] : CoCreateTmr(t, x, k) \/ CoSetTmrCnt(t, x, k)

Next == SysTick \/ Request \/ \E c \in Context : Step(c)

Spec == Init /\ [][Next]_vars

(* The tick keeps coming, and a context that has begun a call goes on. *)
FairSpec == Spec /\ WF_vars(SysTick) /\ \A c \in Context : WF_vars(Step(c))

(***************************************************************************)
(* Properties.                                                             *)
(***************************************************************************)
MaxCount == Max(UNION {{k.cnt, k.reload} : k \in UNION {Kinds[x] : x \in Tmr}})
Pieces == [do : {"unlock", "reset", "clear", "open", "lock", "insert", "link", "count", "rest",
                 "remove", "load", "store", "dispose", "reload", "fire", "stoptest", "stopped",
                 "deltest", "release", "settest"},
           tmr : Tmr \cup {NULL}, p : Tmr \cup {NULL}, n : -MaxCount .. MaxCount]

(* Counts stay within what was asked for: an unsigned count never wraps. *)
TypeOK ==
  /\ TmrTbl \in [Tmr -> [type : Types, running : BOOLEAN, cnt : 0 .. MaxCount,
                         reload : 0 .. MaxCount]]
  /\ tmrPrev \in [Tmr -> Tmr \cup {NULL}] /\ tmrNext \in [Tmr -> Tmr \cup {NULL}]
  /\ TmrList \in Tmr \cup {NULL}
  /\ TmrIDVessel \subseteq Tmr
  /\ TimerReq \in BOOLEAN /\ IsrReq \in BOOLEAN
  /\ OSSchedLock \in 0 .. 3 /\ inside \in Context \cup {Nobody}
  /\ burst \in 0 .. MaxBurst
  /\ \A c \in Context : \A i \in DOMAIN agenda[c] : agenda[c][i] \in Pieces
  /\ owner \in [Tmr -> Task \cup {Nobody}]
  /\ left \in [Tmr -> 0 .. MaxCount]

(* The timers a call or a disposal is at work on. *)
InWork == {agenda[c][i].tmr : <<c, i>> \in
             {<<d, j>> \in Context \X (1 .. 9) : j \in DOMAIN agenda[d]}}

(* Timers that run are in the list and those that do not are not: neither   *)
(* an expiry nor a call on one timer ever takes another one out of the list *)
(* (RemoveTmrList sets TmrList to Co_NULL for a timer without links).  The  *)
(* links in both directions agree, timers outside of the list have none,    *)
(* and no unsigned count ever wraps (TypeOK).                               *)
NoneLost ==
  /\ TypeOK
  /\ OSSchedLock = 0 =>
    /\ \A x \in TmrIDVessel \ InWork :
         TmrTbl[x].running <=> \E i \in DOMAIN InList : InList[i] = x
    /\ \A i \in DOMAIN InList :
         tmrPrev[InList[i]] = IF i = 1 THEN NULL ELSE InList[i - 1]
    /\ \A x \in Tmr : (\A i \in DOMAIN InList : InList[i] # x) =>
         tmrPrev[x] = NULL /\ tmrNext[x] = NULL

(* A timer in the list is due exactly when it should be, whatever was        *)
(* inserted or removed before it and whenever the ticks came, except for the *)
(* ticks that the code counts for nobody (CountedBy).                        *)
DueExact ==
  OSSchedLock = 0 => \A i \in DOMAIN InList : SumTo(i) = left[InList[i]]

(* Once the tasks leave the timers alone, every running timer fires: a       *)
(* request that the tick makes while the list is locked is not lost.         *)
TimerFires ==
  <>[](\A t \in Task : agenda[t] = <<>>) =>
    \A x \in Tmr :
      (x \in TmrIDVessel /\ TmrTbl[x].running)
        ~> (\/ x \notin TmrIDVessel \/ ~TmrTbl[x].running
            \/ \E c \in Context : agenda[c] # <<>> /\ Cur(c) = Piece("fire", x))
=============================================================================
