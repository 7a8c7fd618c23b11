----------------------------- MODULE TaskSched -----------------------------
(***************************************************************************)
(* The tasks of task.c, their delays of time.c and the mutexes of mutex.c, *)
(* through which tasks change each other's priority.  Every task runs a    *)
(* program that may call any of its operations in prog; a call is one or   *)
(* two steps.  The first step stands for the tests at the head of the      *)
(* function, which the code makes before it locks the scheduler, the       *)
(* second for the part between OsSchedLock and OsSchedUnlock.  The tick    *)
(* may come between the two, and with it a switch to another task.         *)
(*                                                                         *)
(* With Guarded = TRUE the programs create a task, or call an operation on *)
(* another one, with the scheduler locked by CoSchedLock.  CoSuspendTask   *)
(* refuses to run then (E_OS_IN_LOCK): they suspend only themselves.  They *)
(* hold one mutex at a time, and do not delete a task that waits first for *)
(* one: RemoveMutexList does not move the head of the list.                *)
(***************************************************************************)
EXTENDS Kernel

CONSTANTS
  Programs, \* the programs the system may run, see prog
  Guarded,  \* TRUE iff operations on other tasks are called under CoSchedLock
  MaxLock   \* bound: how deep CoSchedLock is nested

ASSUME TaskSchedAssumption ==
  /\ Task \subseteq Nat \* the tasks are the indices of TCBTbl
  /\ MaxLock \in Nat
  /\ Guarded \in BOOLEAN
  /\ \A p \in Programs :
       /\ p.ops \in [Task \ {Idle} -> SUBSET STRING]
       /\ p.prio \subseteq 0 .. Lowest
       /\ p.delays \subseteq 1 .. (Invalid - 1)
       /\ \A b \in p.boot : b \in Seq(0 .. Lowest) /\ DOMAIN b \subseteq Task \ {Idle}

VARIABLES
  k,     \* the kernel state
  call,  \* per task, the call that is between its two steps
  left,  \* history: the ticks that remain of the delay a task asked for
  prog   \* the program: ops, per task, the operations it calls; boot, the
         \* priorities that the tasks 1, 2, .. may be created with before
         \* CoStartOS; prio and delays, the priorities and ticks it uses

vars == <<k, call, left, prog>>

NoCall == [op |-> "none"]

\* The running task, when its program may call an operation.
Caller(op) == k.run # Idle /\ op \in prog.ops[k.run] /\ call[k.run] = NoCall

\* The tests of an operation on t passed, its locked part comes next.
Begin(c) == call' = [call EXCEPT ![k.run] = c]
Finish == call' = [call EXCEPT ![k.run] = NoCall]
Pending(op) == k.run # Idle /\ call[k.run].op = op

\* The discipline of the programs for an operation on t.
Disciplined(t) == Guarded /\ t # k.run => k.lock > 0

-----------------------------------------------------------------------------
(* Creating and deleting tasks.                                            *)

\* AssignTCB, the first locked part of CreateTask; it fails without a TCB.
AssignTCB(p, waiting) ==
  /\ Caller("create") /\ (Guarded => k.lock > 0)
  /\ IF k.free = << >>
     THEN k' = OsSchedUnlock(k) /\ UNCHANGED call
     ELSE /\ k' = OsSchedUnlock([k EXCEPT !.free = Tail(@)])
          /\ Begin([op |-> "create", task |-> Head(k.free), prio |-> p, waiting |-> waiting])
  /\ UNCHANGED left

\* The rest of CreateTask: the TCB is filled in and linked.
CreateTask ==
  LET t == call[k.run].task
      k1 == [k EXCEPT !.prio[t] = call[k.run].prio, !.tick[t] = Invalid,
                      !.ev[t] = InvalidId, !.pmail[t] = 0, !.stale = @ \ {t},
                      !.mid[t] = InvalidId, !.pset = @ \ {t}, !.base[t] = call[k.run].prio]
  IN /\ Pending("create")
     /\ k' = IF call[k.run].waiting THEN [k1 EXCEPT !.st[t] = "WAITING"]
             ELSE OsSchedUnlock(InsertToTCBRdyList(k1, t))
     /\ Finish
     /\ UNCHANGED left

DelTest(t) ==
  /\ Caller("delete") /\ Disciplined(t)
  /\ Guarded => \A m \in Mutex : t \in ToSet(k.mx[m].list) => ~Misses(k, t)
  /\ k.st[t] # "DORMANT"
  /\ t # Idle
  /\ k.st[t] = "RUNNING" => k.lock = 0
  /\ Begin(IF Holds(k, t) THEN [op |-> "delleave", task |-> t, mutex |-> k.mid[t]]
                          ELSE [op |-> "delete", task |-> t])
  /\ UNCHANGED <<k, left>>

\* Mutant: the mutex that the task holds is not left.
DelWithoutLeave ==
  /\ Pending("delleave")
  /\ k' = [k EXCEPT !.inside[call[k.run].task] = {}]
  /\ Begin([op |-> "delete", task |-> call[k.run].task])
  /\ UNCHANGED left

\* CoDelTask first leaves the mutex that the task holds.
DelLeave ==
  LET t == call[k.run].task
  IN /\ Pending("delleave")
     /\ k' = OsSchedUnlock([LeaveMutex(k, call[k.run].mutex) EXCEPT !.inside[t] = {}])
     /\ Begin([op |-> "delete", task |-> t])
     /\ UNCHANGED left

\* Mutant: the TCB is not returned to the free list.
DelLeaks ==
  LET t == call[k.run].task
      k1 == IF k.st[t] = "READY" THEN RemoveFromTCBRdyList(k, t)
            ELSE IF k.tick[t] # Invalid THEN RemoveDelayList(k, t) ELSE k
  IN /\ Pending("delete")
     /\ k' = OsSchedUnlock([k1 EXCEPT !.st[t] = "DORMANT", !.req = TRUE])
     /\ call' = [call EXCEPT ![k.run] = NoCall, ![t] = NoCall]
     /\ left' = [left EXCEPT ![t] = 0]

\* What CoDelTask unlinks a task from.
Unlink(t) ==
  LET k1 == IF k.tick[t] # Invalid THEN RemoveDelayList(k, t) ELSE k
      k2 == IF k.ev[t] # InvalidId THEN RemoveEventWaittingList(k1, t) ELSE k1
      k3 == IF Pnode(k, t) THEN RemoveLinkNode(k2, t) ELSE k2
      k4 == IF k.mid[t] # InvalidId THEN RemoveMutexList(k3, t) ELSE k3
  IN CASE k.st[t] = "READY" -> RemoveFromTCBRdyList(k, t)
       [] k.st[t] = "WAITING" -> k4
       [] OTHER -> k

CoDelTask ==
  LET t == call[k.run].task
      k1 == Unlink(t)
  IN /\ Pending("delete")
     /\ k' = OsSchedUnlock([k1 EXCEPT !.st[t] = "DORMANT", !.req = TRUE,
                                      !.free = <<t>> \o @,
                                      !.intact = @ /\ t \notin Linked(k1)])
     /\ call' = [call EXCEPT ![k.run] = NoCall, ![t] = NoCall]
     /\ left' = [left EXCEPT ![t] = 0]

-----------------------------------------------------------------------------
(* Suspending and awaking.                                                 *)

SuspendTest(t) ==
  /\ Caller("suspend") /\ (Guarded => t = k.run)
  /\ t # Idle
  /\ k.st[t] \notin {"DORMANT", "WAITING"}
  /\ k.lock = 0
  /\ Begin([op |-> "suspend", task |-> t])
  /\ UNCHANGED <<k, left>>

CoSuspendTask ==
  LET t == call[k.run].task
      k1 == IF t # k.run THEN RemoveFromTCBRdyList(k, t) ELSE [k EXCEPT !.req = TRUE]
  IN /\ Pending("suspend")
     /\ k' = OsSchedUnlock([k1 EXCEPT !.st[t] = "WAITING"])
     /\ Finish
     /\ UNCHANGED left

AwakeTest(t) ==
  /\ Caller("awake") /\ Disciplined(t)
  /\ t # Idle
  /\ k.st[t] = "WAITING"
  /\ k.tick[t] = Invalid
  /\ ~Pnode(k, t)
  /\ k.ev[t] = InvalidId
  /\ k.mid[t] = InvalidId
  /\ Begin([op |-> "awake", task |-> t])
  /\ UNCHANGED <<k, left>>

CoAwakeTask ==
  /\ Pending("awake")
  /\ k' = OsSchedUnlock(InsertToTCBRdyList(k, call[k.run].task))
  /\ Finish
  /\ UNCHANGED left

-----------------------------------------------------------------------------
(* Changing a priority.  The new priority is written before the lock.      *)

SetPrioTest(t, p) ==
  /\ Caller("prio") /\ Disciplined(t)
  /\ t # Idle
  /\ k.st[t] # "DORMANT"
  /\ k.prio[t] # p
  /\ k' = [SetPriorityHead(k, t, p) EXCEPT !.base[t] = p]
  /\ IF \/ KeepsRaised(k, t, p)
        \/ k.st[t] = "WAITING" /\ k.ev[t] = InvalidId /\ k.mid[t] = InvalidId
     THEN UNCHANGED call
     ELSE Begin([op |-> "prio", task |-> t, seen |-> k.st[t]])
  /\ UNCHANGED left

\* The rest, and the nested calls for the owners of mutexes, which only come
\* for a task that waits: the caller has locked the scheduler over them.
CoSetPriority ==
  LET t == call[k.run].task
      seen == call[k.run].seen
      k1 == Finished(SetPriorityTail(k, t, seen))
  IN /\ Pending("prio")
     /\ k' = IF k1 = k THEN k ELSE OsSchedUnlock(k1)
     /\ Finish
     /\ UNCHANGED left

-----------------------------------------------------------------------------
(* Delays.                                                                 *)

CoTickDelay(n) ==
  /\ Caller("delay")
  /\ k.lock = 0
  /\ k' = OsSchedUnlock(InsertDelayList(k, k.run, n))
  /\ left' = [left EXCEPT ![k.run] = n]
  /\ UNCHANGED call

ResetDelayTest(t, n) ==
  /\ Caller("reset") /\ Disciplined(t)
  /\ k.tick[t] # Invalid
  /\ Begin([op |-> "reset", task |-> t, ticks |-> n])
  /\ UNCHANGED <<k, left>>

CoResetTaskDelayTick ==
  LET t == call[k.run].task
      n == call[k.run].ticks
      k1 == RemoveDelayList(k, t)
  IN /\ Pending("reset")
     /\ k' = OsSchedUnlock(IF n = 0 THEN InsertToTCBRdyList(k1, t)
                                    ELSE InsertDelayList(k1, t, n))
     /\ Finish
     /\ left' = [left EXCEPT ![t] = n]

-----------------------------------------------------------------------------
(* Mutexes.                                                                *)

\* The control block is filled in after the unlock; nobody knows its number
\* before.
CoCreateMutex ==
  /\ Caller("mutex") /\ k.mnum < Cardinality(Mutex)
  /\ k' = OsSchedUnlock([k EXCEPT !.mnum = @ + 1, !.mx[k.mnum + 1] = NewMutex])
  /\ UNCHANGED <<call, left>>

CoEnterMutexSection(m) ==
  LET t == k.run
      k1 == EnterMutex(k, m)
      free == k.mx[m].own = InvalidId
  IN /\ Caller("enter") /\ (Guarded => k.inside[t] = {}) /\ m \notin k.inside[t]
     /\ k.lock = 0
     /\ m <= k.mnum
     /\ k' = OsSchedUnlock(IF free THEN [k1 EXCEPT !.inside[t] = @ \cup {m}] ELSE k1)
     /\ IF free THEN UNCHANGED call ELSE Begin([op |-> "enter", mutex |-> m])
     /\ UNCHANGED left

\* The task was given the mutex and runs again.
EnterReturn ==
  /\ Pending("enter")
  /\ k' = [k EXCEPT !.inside[k.run] = @ \cup {call[k.run].mutex}]
  /\ Finish
  /\ UNCHANGED left

CoLeaveMutexSection(m) ==
  /\ Caller("enter") /\ m \in k.inside[k.run]
  /\ k' = OsSchedUnlock([LeaveMutex(k, m) EXCEPT !.inside[k.run] = @ \ {m}])
  /\ UNCHANGED <<call, left>>

-----------------------------------------------------------------------------
CoSchedLock ==
  /\ Caller("lock") /\ k.lock < MaxLock
  /\ k' = [k EXCEPT !.lock = @ + 1]
  /\ UNCHANGED <<call, left>>

CoSchedUnlock ==
  /\ Caller("lock") /\ k.lock > 0
  /\ k' = OsSchedUnlock([k EXCEPT !.lock = @ - 1])
  /\ UNCHANGED <<call, left>>

\* A delay has ended and its task cannot be made ready: the scheduler is
\* locked.
Held == k.dly # << >> /\ k.tick[k.dly[1]] = 0

Tick ==
  /\ k' = SysTick(k)
  /\ left' = [t \in Task |-> IF left[t] > 0 /\ ~Held THEN left[t] - 1 ELSE left[t]]
  /\ UNCHANGED call

\* The other TCBs, which CreateTCBList links in the order of TCBTbl.
Spare(p) ==
  LET rest == Task \ ({Idle} \cup DOMAIN p)
  IN {s \in [1 .. Cardinality(rest) -> rest] : \A i, j \in DOMAIN s : i < j => s[i] < s[j]}

\* The kernel after CoStartOS, when the tasks 1 .. Len(p) were created with
\* the priorities p.
Boot(p, spare) ==
  LET create(kk, t) == InsertToTCBRdyList([kk EXCEPT !.prio[t] = p[t], !.base[t] = p[t]], t)
  IN OsSchedUnlock(Each(create, CoInitOS(spare), [i \in DOMAIN p |-> i]))

Init ==
  /\ prog \in Programs
  /\ \E p \in prog.boot : \E spare \in Spare(p) : k = Boot(p, spare)
  /\ call = [t \in Task |-> NoCall]
  /\ left = [t \in Task |-> 0]

\* A step of the running task's program.
Program ==
  \/ \E p \in prog.prio, w \in BOOLEAN : AssignTCB(p, w)
  \/ \E t \in Task : DelTest(t) \/ SuspendTest(t) \/ AwakeTest(t)
  \/ \E t \in Task, p \in prog.prio : SetPrioTest(t, p)
  \/ \E n \in prog.delays : CoTickDelay(n)
  \/ \E t \in Task, n \in prog.delays \cup {0} : ResetDelayTest(t, n)
  \/ CreateTask \/ DelLeave \/ CoDelTask \/ CoSuspendTask \/ CoAwakeTask
  \/ CoSetPriority \/ CoResetTaskDelayTick
  \/ CoCreateMutex \/ EnterReturn
  \/ \E m \in Mutex : CoEnterMutexSection(m) \/ CoLeaveMutexSection(m)
  \/ CoSchedLock \/ CoSchedUnlock

Next == k.intact /\ (Program \/ Tick) /\ UNCHANGED prog

Spec == Init /\ [][Next]_vars

-----------------------------------------------------------------------------
\* The calls that are between their two steps.
InCall(op) == {t \in Task : call[t].op = op}

TypeOK ==
  /\ k.st \in [Task -> {"DORMANT", "READY", "RUNNING", "WAITING"}]
  /\ k.prio \in [Task -> 0 .. Lowest]
  /\ k.tick \in [Task -> 0 .. Invalid]
  /\ ToSet(k.rdy) \cup ToSet(k.dly) \cup ToSet(k.free) \subseteq Task
  /\ k.run \in Task
  /\ k.req \in BOOLEAN /\ k.timeReq \in BOOLEAN
  /\ k.slice \in -1 .. TimeSlice
  /\ k.lock \in 0 .. MaxLock
  /\ \A m \in Mutex : k.mx[m].own \in Task \cup {InvalidId}
  /\ k.mid \in [Task -> Mutex \cup {InvalidId}]
  /\ call \in [Task -> [op : {"none", "create", "delete", "suspend", "awake", "prio", "reset"}]
                       \cup {call[t] : t \in Task}]
  /\ left \in [Task -> 0 .. (Invalid - 1)]

\* No list function is ever applied to a task that is not in the list it is
\* removed from or that already is in a list: the ready list, the delay list
\* and the free list of task.c and time.c, linked through the same two
\* fields, stay well formed.  They hold exactly the tasks whose state says
\* so, each once; no TCB is lost to CreateTask and CoDelTask.
ListsMatchStates ==
  /\ TypeOK
  /\ k.intact
  /\ k.rdy \in [1 .. Cardinality(ToSet(k.rdy)) -> {t \in Task : k.st[t] = "READY"}]
  /\ {t \in Task : k.st[t] = "READY"} \subseteq ToSet(k.rdy)
  /\ k.dly \in [1 .. Cardinality(ToSet(k.dly)) ->
                 {t \in Task : k.st[t] = "WAITING" /\ k.tick[t] # Invalid}]
  /\ {t \in Task : k.tick[t] # Invalid} \subseteq ToSet(k.dly)
  /\ {t \in Task : k.st[t] = "RUNNING"} = {k.run}
  /\ {t \in Task : k.st[t] = "DORMANT"} =
       ToSet(k.free) \cup {call[t].task : t \in InCall("create")}

\* The ready list is in the order of priorities, and whenever the scheduler is
\* not locked no ready task has a higher priority than the running one, except
\* while a task is inside CoSetPriority.
HighestRuns ==
  InCall("prio") = {} =>
    /\ \A i, j \in DOMAIN k.rdy : i < j => k.prio[k.rdy[i]] <= k.prio[k.rdy[j]]
    /\ k.lock = 0 => \A t \in ToSet(k.rdy) : k.prio[k.run] <= k.prio[t]

\* Whatever is inserted into and removed from the delta list around it, a
\* delayed task is due after exactly the ticks it asked for, not counting
\* those that come while the end of an earlier delay waits for the scheduler
\* to be unlocked.
DelayExact == \A i \in DOMAIN k.dly : Due(k, i) = left[k.dly[i]]

\* A program that is inside of a mutex owns it: CoEnterMutexSection returns
\* to one task at a time, however the others were woken or deleted.  And the
\* mutex is not lost: its owner is a task that exists and is inside or on its
\* way, and a task in CoEnterMutexSection waits for it or owns it.
MutexKept ==
  /\ \A t \in Task, m \in Mutex : m \in k.inside[t] => k.mx[m].own = t
  /\ \A m \in Mutex :
       LET o == k.mx[m].own
       IN /\ o # InvalidId => /\ k.st[o] # "DORMANT"
                              /\ m \in k.inside[o] \/ call[o] = [op |-> "enter", mutex |-> m]
          /\ k.mx[m].list # << >> => o # InvalidId
  /\ \A t \in InCall("enter") \ {call[u].task : u \in InCall("delete")} :
       k.mx[call[t].mutex].own = t \/ t \in ToSet(k.mx[call[t].mutex].list)

\* No task waits for a mutex whose owner has a lower priority: it inherits
\* the priorities of all that wait, also of those that come, go and change
\* their priority later.  A mutex never costs a task the priority that its
\* program asked for.
Inherited ==
  /\ InCall("prio") = {} =>
       \A m \in Mutex : \A t \in ToSet(k.mx[m].list) : k.prio[k.mx[m].own] <= k.prio[t]
  /\ \A t \in Task : k.st[t] # "DORMANT" => k.prio[t] <= k.base[t]

\* "Reset the task priority": a task that neither holds a mutex nor waits for
\* one has the priority that its program asked for.
PriorityReturned ==
  InCall("prio") = {} =>
    \A t \in Task : k.st[t] # "DORMANT" /\ k.mid[t] = InvalidId => k.prio[t] = k.base[t]

\* With no more than two tasks that enter mutexes, priorities are returned, as
\* long as no program changes a priority or creates a task: hipriTaskID may
\* name a task that was deleted, and then a new one that has its TCB.
Entering == {t \in Task \ {Idle} : "enter" \in prog.ops[t]}
Settled == /\ Cardinality(Entering) <= 2
           /\ \A t \in Task \ {Idle} : prog.ops[t] \cap {"prio", "create"} = {}
PairReturned == Settled => PriorityReturned

Waits(t) == t \in ToSet(k.rdy) /\ k.prio[t] = k.prio[k.run]

\* A ready task that shares the priority of the running one gets its turn, if
\* the scheduler is never locked.
UnlockedRobin == ([](k.lock = 0)) => \A t \in Task : Waits(t) ~> ~Waits(t)
=============================================================================
