--------------------------- MODULE FlagSyncProofs ---------------------------
(***************************************************************************)
(* A flag that is set stays set: the types of the kernel state and what    *)
(* CoSetFlag has loaded, through every step of tasks, flags and events.    *)
(***************************************************************************)
EXTENDS EventSync, KernelProofs

(***************************************************************************)
(* Part 1.  The invariant.                                                 *)
(***************************************************************************)

\* What a call has read and not used yet.
CallTyped(c) ==
  /\ c.op \in {"create", "delete", "delleave", "suspend", "awake", "prio", "reset"} =>
       c.task \in Task
  /\ c.op = "create" => c.prio \in Nat
  /\ c.op \in {"delleave", "enter"} => c.mutex \in Mutex
  /\ c.op = "prio" => c.seen \in Alive
  /\ c.op = "fset" => c.flag \in Flag
  /\ c.op \in {"empty", "wait", "post", "release"} => c.ev \in Event

Typed ==
  /\ KType(k)
  /\ prog \in Programs /\ mails \in Nat
  /\ DOMAIN call = Task /\ \A t \in Task : CallTyped(call[t])

\* CoSetFlag and CoClearFlag have loaded what flagRdy still is.
Storing(c) == c.op \in {"fset", "fclear"}
LoadedIsRdy ==
  \A t \in Task : Storing(call[t]) =>
    t = k.run /\ k.lock > 0 /\ call[t].rdy = k.flg.rdy

Inv == Typed /\ LoadedIsRdy /\ SetsKept

\* A step of a task that is in none of the two, or while none is.
LEMMA Elsewhere ==
    ASSUME Inv, ~Storing(call[k.run]) \/ ~(k.lock > 0)
    PROVE  \A t \in Task : ~Storing(call[t])
BY DEF Inv, LoadedIsRdy

LEMMA QuietStep ==
    ASSUME Inv, ~Storing(call[k.run]) \/ ~(k.lock > 0),
           KType(k'), k.due \subseteq k.flg.rdy => k'.due \subseteq k'.flg.rdy,
           DOMAIN call' = Task,
           \A t \in Task : call'[t] = call[t] \/ (CallTyped(call'[t]) /\ ~Storing(call'[t])),
           prog' = prog, mails' \in Nat
    PROVE  Inv'
<1>1. \A t \in Task : ~Storing(call[t])
  BY Elsewhere
<1>2. Typed'
  BY DEF Inv, Typed
<1>3. LoadedIsRdy'
  BY <1>1 DEF LoadedIsRdy
<1>4. SetsKept'
  BY DEF Inv, SetsKept
<1> QED BY <1>2, <1>3, <1>4 DEF Inv

\* Most steps end in OsSchedUnlock.
LEMMA UnlockStep ==
    ASSUME NEW y, KType(k), Safe(k, y)
    PROVE  /\ KType(OsSchedUnlock(y))
           /\ k.due \subseteq k.flg.rdy => OsSchedUnlock(y).due \subseteq OsSchedUnlock(y).flg.rdy
BY UnlockSwitched DEF Safe, Switched

\* The call of the running task.
LEMMA Running ==
    ASSUME Inv
    PROVE  /\ k.run \in Task /\ KType(k) /\ CallTyped(call[k.run]) /\ DOMAIN call = Task
           /\ prog \in Programs /\ mails \in Nat
           /\ Safe(k, k) /\ Kept(k, k)
           /\ ~Storing(NoCall) /\ CallTyped(NoCall)
BY DEF Inv, Typed, KType, Safe, Kept, Storing, CallTyped, NoCall

(***************************************************************************)
(* Part 2.  The steps of TaskSched.                                        *)
(***************************************************************************)
LEMMA StepAssign ==
    ASSUME Inv, NEW p \in prog.prio, NEW w \in BOOLEAN, AssignTCB(p, w), UNCHANGED <<mails, prog>>
    PROVE  Inv'
<1> DEFINE y == [k EXCEPT !.free = Tail(@)]
<1>1. ~Storing(call[k.run])
  BY Running DEF AssignTCB, Caller
<1>2. CASE k.free = << >>
  <2>1. k' = OsSchedUnlock(k) /\ call' = call
    BY <1>2 DEF AssignTCB
  <2> QED BY <1>1, <2>1, Running, UnlockStep, QuietStep
<1>3. CASE k.free # << >>
  <2> DEFINE c == [op |-> "create", task |-> Head(k.free), prio |-> p, waiting |-> w]
  <2>1. k' = OsSchedUnlock(y) /\ call' = [call EXCEPT ![k.run] = c]
    BY <1>3 DEF AssignTCB, Begin
  <2>2. Head(k.free) \in Task /\ Tail(k.free) \in Seq(Task)
    BY <1>3, Running, HeadTailProperties DEF KType
  <2>3. p \in Nat
    BY Running, TaskSchedAssumption, KernelAssumption
  <2>4. CallTyped(c) /\ ~Storing(c)
    BY <2>2, <2>3 DEF CallTyped, Storing
  <2>5. Safe(k, y)
    BY <2>2, Running DEF Safe, KType, Fields
  <2> HIDE DEF c, y
  <2> QED BY <1>1, <2>1, <2>4, <2>5, Running, UnlockStep, QuietStep
<1> QED BY <1>2, <1>3

\* A step of the running task that ends in OsSchedUnlock, or does without it,
\* and after which the task is in the call c.
LEMMA CallStep ==
    ASSUME Inv, ~Storing(call[k.run]),
           NEW y, Safe(k, y), k' = OsSchedUnlock(y) \/ k' = y,
           NEW c, CallTyped(c), ~Storing(c), call' = [call EXCEPT ![k.run] = c] \/ call' = call,
           prog' = prog, mails' \in Nat
    PROVE  Inv'
<1>1. KType(k') /\ (k.due \subseteq k.flg.rdy => k'.due \subseteq k'.flg.rdy)
  BY Running, UnlockStep DEF Safe
<1>2. /\ DOMAIN call' = Task
      /\ \A t \in Task : call'[t] = call[t] \/ (CallTyped(call'[t]) /\ ~Storing(call'[t]))
  BY Running
<1> QED BY <1>1, <1>2, QuietStep

LEMMA StepCreate ==
    ASSUME Inv, CreateTask, UNCHANGED <<mails, prog>>
    PROVE  Inv'
<1> DEFINE c == call[k.run]
           t == c.task
           k1 == [k EXCEPT !.prio[t] = c.prio, !.tick[t] = Invalid,
                           !.ev[t] = InvalidId, !.pmail[t] = 0, !.stale = @ \ {t},
                           !.mid[t] = InvalidId, !.pset = @ \ {t}, !.base[t] = c.prio]
           k2 == [k1 EXCEPT !.st[t] = "WAITING"]
           k3 == InsertToTCBRdyList(k1, t)
<1>1. c.op = "create" /\ (k' = k2 \/ k' = OsSchedUnlock(k3)) /\ call' = [call EXCEPT ![k.run] = NoCall]
  BY DEF CreateTask, Pending, Finish
<1>2. t \in Task /\ c.prio \in Nat /\ ~Storing(c)
  BY <1>1, Running DEF CallTyped, Storing
<1> HIDE DEF t, c
<1>3. Kept(k, k1)
  BY <1>2, Running DEF Kept, KType, Fields
<1> HIDE DEF k1
<1>4. Kept(k, k2)
  BY <1>2, <1>3 DEF Kept, KType, Fields, Alive
<1>5. Kept(k, k3)
  BY <1>2, <1>3, InsertRdyKept, KeptTrans DEF Kept
<1> HIDE DEF k2, k3
<1> QED BY <1>1, <1>2, <1>4, <1>5, Running, KeptSafe, CallStep DEF c

LEMMA StepDelTest ==
    ASSUME Inv, NEW t \in Task, DelTest(t), UNCHANGED <<mails, prog>>
    PROVE  Inv'
<1> DEFINE c == IF Holds(k, t) THEN [op |-> "delleave", task |-> t, mutex |-> k.mid[t]]
                               ELSE [op |-> "delete", task |-> t]
<1>1. ~Storing(call[k.run]) /\ k' = k /\ call' = [call EXCEPT ![k.run] = c]
  BY Running DEF DelTest, Caller, Begin
<1>2. Holds(k, t) => k.mid[t] \in Mutex
  BY Running DEF Holds, KType
<1>3. CallTyped(c) /\ ~Storing(c)
  BY <1>2 DEF CallTyped, Storing
<1> HIDE DEF c
<1> QED BY <1>1, <1>3, Running, CallStep

LEMMA StepDelLeave ==
    ASSUME Inv, DelLeave, UNCHANGED <<mails, prog>>
    PROVE  Inv'
<1> DEFINE c == call[k.run]
           t == c.task
           k1 == LeaveMutex(k, c.mutex)
           k2 == [k1 EXCEPT !.inside[t] = {}]
           d == [op |-> "delete", task |-> t]
<1>1. c.op = "delleave" /\ k' = OsSchedUnlock(k2) /\ call' = [call EXCEPT ![k.run] = d]
  BY DEF DelLeave, Pending, Begin
<1>2. t \in Task /\ c.mutex \in Mutex /\ ~Storing(c)
  BY <1>1, Running DEF CallTyped, Storing
<1>3. Kept(k, k1)
  BY <1>2, Running, LeaveKept
<1>4. CallTyped(d) /\ ~Storing(d)
  BY <1>2 DEF CallTyped, Storing
<1> HIDE DEF k1, d
<1>5. Kept(k, k2)
  BY <1>3 DEF Kept, KType, Fields
<1> HIDE DEF k2
<1> QED BY <1>1, <1>2, <1>4, <1>5, Running, KeptSafe, CallStep DEF c

\* What CoDelTask unlinks.
LEMMA UnlinkKept ==
    ASSUME KType(k), NEW t \in Task
    PROVE  Kept(k, Unlink(t))
<1> DEFINE k1 == IF k.tick[t] # Invalid THEN RemoveDelayList(k, t) ELSE k
           k2 == IF k.ev[t] # InvalidId THEN RemoveEventWaittingList(k1, t) ELSE k1
           k3 == IF Pnode(k, t) THEN RemoveLinkNode(k2, t) ELSE k2
           k4 == IF k.mid[t] # InvalidId THEN RemoveMutexList(k3, t) ELSE k3
<1>1. Unlink(t) \in {RemoveFromTCBRdyList(k, t), k4, k}
  BY DEF Unlink
<1>0. Kept(k, k)
  BY DEF Kept
<1>2. Kept(k, k1) /\ k1.ev = k.ev /\ k1.mid = k.mid
  BY <1>0, RemoveDelayKept
<1> HIDE DEF k1
<1>3. Kept(k, k2) /\ k2.mid = k.mid
  <2>1. CASE k.ev[t] # InvalidId
    <3>1. Kept(k1, k2)
      BY <1>2, <2>1, RemoveWaitingKept DEF Kept
    <3>2. k2.mid = k1.mid
      BY <1>2, <2>1 DEF RemoveEventWaittingList, Kept, KType, Fields
    <3> QED BY <1>2, <3>1, <3>2, KeptTrans
  <2> QED BY <1>2, <2>1
<1> HIDE DEF k2
<1>4. Kept(k, k3) /\ k3.mid = k.mid
  <2>1. CASE Pnode(k, t)
    <3>1. Kept(k2, k3)
      BY <1>3, <2>1, LinkNodeKept DEF Kept
    <3>2. k3.mid = k2.mid
      BY <1>3, <2>1 DEF RemoveLinkNode, Kept, KType, Fields
    <3> QED BY <1>3, <3>1, <3>2, KeptTrans
  <2> QED BY <1>3, <2>1
<1> HIDE DEF k3
<1>5. Kept(k, k4)
  <2>1. CASE k.mid[t] # InvalidId
    <3>1. Kept(k3, k4)
      BY <1>4, <2>1, RemoveMutexKept DEF Kept
    <3> QED BY <1>4, <3>1, KeptTrans
  <2> QED BY <1>4, <2>1
<1> HIDE DEF k4
<1> QED BY <1>0, <1>1, <1>5, RemoveRdyKept

LEMMA StepDelete ==
    ASSUME Inv, CoDelTask, UNCHANGED <<mails, prog>>
    PROVE  Inv'
<1> DEFINE c == call[k.run]
           t == c.task
           k1 == Unlink(t)
           k2 == [k1 EXCEPT !.st[t] = "DORMANT", !.req = TRUE, !.free = <<t>> \o @,
                            !.intact = @ /\ t \notin Linked(k1)]
<1>1. /\ c.op = "delete" /\ k' = OsSchedUnlock(k2)
      /\ call' = [call EXCEPT ![k.run] = NoCall, ![t] = NoCall]
  BY DEF CoDelTask, Pending
<1>2. t \in Task /\ ~Storing(c)
  BY <1>1, Running DEF CallTyped, Storing
<1>3. Kept(k, k1)
  BY <1>2, Running, UnlinkKept
<1> HIDE DEF k1
<1>4. <<t>> \o k1.free \in Seq(Task)
  BY <1>2, <1>3, ConcatProperties DEF Kept, KType
<1>5. Kept(k, k2)
  BY <1>2, <1>3, <1>4 DEF Kept, KType, Fields
<1> HIDE DEF k2, t
<1>6. KType(k') /\ (k.due \subseteq k.flg.rdy => k'.due \subseteq k'.flg.rdy)
  BY <1>1, <1>5, Running, KeptSafe, UnlockStep
<1>7. /\ DOMAIN call' = Task
      /\ \A u \in Task : call'[u] = call[u] \/ (CallTyped(call'[u]) /\ ~Storing(call'[u]))
  BY <1>1, <1>2, Running
<1> QED BY <1>2, <1>6, <1>7, Running, QuietStep

\* The tests of an operation on another task.
LEMMA StepTests ==
    ASSUME Inv, NEW t \in Task, UNCHANGED <<mails, prog>>,
           SuspendTest(t) \/ AwakeTest(t) \/ \E n \in prog.delays \cup {0} : ResetDelayTest(t, n)
    PROVE  Inv'
<1>1. \E c : /\ c.task = t /\ c.op \in {"suspend", "awake", "reset"}
             /\ call' = [call EXCEPT ![k.run] = c]
  <2>1. CASE SuspendTest(t)
    <3> DEFINE c == [op |-> "suspend", task |-> t]
    <3>1. call' = [call EXCEPT ![k.run] = c]
      BY <2>1 DEF SuspendTest, Begin
    <3> QED BY <3>1
  <2>2. CASE AwakeTest(t)
    <3> DEFINE c == [op |-> "awake", task |-> t]
    <3>1. call' = [call EXCEPT ![k.run] = c]
      BY <2>2 DEF AwakeTest, Begin
    <3> QED BY <3>1
  <2>3. ASSUME NEW n, ResetDelayTest(t, n) PROVE <1>1!:
    <3> DEFINE c == [op |-> "reset", task |-> t, ticks |-> n]
    <3>1. call' = [call EXCEPT ![k.run] = c]
      BY <2>3 DEF ResetDelayTest, Begin
    <3> QED BY <3>1
  <2> QED BY <2>1, <2>2, <2>3
<1>2. k' = k /\ ~Storing(call[k.run])
  BY Running DEF SuspendTest, AwakeTest, ResetDelayTest, Caller
<1>3. PICK c : c.task = t /\ c.op \in {"suspend", "awake", "reset"} /\ call' = [call EXCEPT ![k.run] = c]
  BY <1>1
<1>4. CallTyped(c) /\ ~Storing(c)
  BY <1>3 DEF CallTyped, Storing
<1> QED BY <1>2, <1>3, <1>4, Running, CallStep

LEMMA StepSuspend ==
    ASSUME Inv, CoSuspendTask, UNCHANGED <<mails, prog>>
    PROVE  Inv'
<1> DEFINE c == call[k.run]
           t == c.task
           k0 == [k EXCEPT !.req = TRUE]
           k1 == IF t # k.run THEN RemoveFromTCBRdyList(k, t) ELSE k0
           k2 == [k1 EXCEPT !.st[t] = "WAITING"]
<1>1. c.op = "suspend" /\ k' = OsSchedUnlock(k2) /\ call' = [call EXCEPT ![k.run] = NoCall]
  BY DEF CoSuspendTask, Pending, Finish
<1>2. t \in Task /\ ~Storing(c)
  BY <1>1, Running DEF CallTyped, Storing
<1>3. Kept(k, k0)
  BY Running DEF Kept, KType, Fields
<1> HIDE DEF k0
<1>4. Kept(k, k1)
  BY <1>3, Running, RemoveRdyKept
<1> HIDE DEF k1
<1>5. Kept(k, k2)
  BY <1>2, <1>4 DEF Kept, KType, Fields, Alive
<1> HIDE DEF k2
<1> QED BY <1>1, <1>2, <1>5, Running, KeptSafe, CallStep DEF c

LEMMA StepAwake ==
    ASSUME Inv, CoAwakeTask, UNCHANGED <<mails, prog>>
    PROVE  Inv'
<1> DEFINE c == call[k.run]
           y == InsertToTCBRdyList(k, c.task)
<1>1. c.op = "awake" /\ k' = OsSchedUnlock(y) /\ call' = [call EXCEPT ![k.run] = NoCall]
  BY DEF CoAwakeTask, Pending, Finish
<1>2. c.task \in Task /\ ~Storing(c)
  BY <1>1, Running DEF CallTyped, Storing
<1>3. Kept(k, y)
  BY <1>2, Running, InsertRdyKept
<1> HIDE DEF y
<1> QED BY <1>1, <1>2, <1>3, Running, KeptSafe, CallStep DEF c

LEMMA StepPrioTest ==
    ASSUME Inv, NEW t \in Task, NEW p \in prog.prio, SetPrioTest(t, p), UNCHANGED <<mails, prog>>
    PROVE  Inv'
<1> DEFINE c == [op |-> "prio", task |-> t, seen |-> k.st[t]]
           k1 == SetPriorityHead(k, t, p)
           k2 == [k1 EXCEPT !.base[t] = p]
<1>1. /\ ~Storing(call[k.run]) /\ k' = k2 /\ k.st[t] # "DORMANT"
      /\ call' = [call EXCEPT ![k.run] = c] \/ call' = call
  BY Running DEF SetPrioTest, Caller, Begin
<1>2. p \in Nat
  BY Running, TaskSchedAssumption, KernelAssumption
<1>3. Kept(k, k1)
  BY <1>2, Running, HeadKept
<1> HIDE DEF k1
<1>4. Kept(k, k2)
  BY <1>3 DEF Kept, KType, Fields
<1> HIDE DEF k2
<1>5. CallTyped(c) /\ ~Storing(c)
  BY <1>1, Running DEF CallTyped, Storing, KType
<1> HIDE DEF c
<1> QED BY <1>1, <1>4, <1>5, Running, KeptSafe, CallStep

LEMMA StepSetPriority ==
    ASSUME Inv, CoSetPriority, UNCHANGED <<mails, prog>>
    PROVE  Inv'
<1> DEFINE c == call[k.run]
           y == Finished(SetPriorityTail(k, c.task, c.seen))
<1>1. /\ c.op = "prio" /\ (k' = k \/ k' = OsSchedUnlock(y))
      /\ call' = [call EXCEPT ![k.run] = NoCall]
  BY DEF CoSetPriority, Pending, Finish
<1>2. c.task \in Task /\ c.seen \in Alive /\ ~Storing(c)
  BY <1>1, Running DEF CallTyped, Storing
<1>3. Kept(k, y)
  BY <1>2, Running, TailKept, FinishedKept
<1> HIDE DEF y
<1> QED BY <1>1, <1>2, <1>3, Running, KeptSafe, CallStep DEF c

LEMMA StepDelays ==
    ASSUME Inv, UNCHANGED <<mails, prog>>,
           (\E n \in prog.delays : CoTickDelay(n)) \/ CoResetTaskDelayTick
    PROVE  Inv'
<1>1. ASSUME NEW n, CoTickDelay(n) PROVE Inv'
  <2> DEFINE y == InsertDelayList(k, k.run, n)
  <2>1. ~Storing(call[k.run]) /\ k' = OsSchedUnlock(y) /\ call' = call
    BY <1>1, Running DEF CoTickDelay, Caller
  <2>2. Kept(k, y)
    BY Running, InsertDelayKept
  <2> HIDE DEF y
  <2> QED BY <2>1, <2>2, Running, KeptSafe, CallStep
<1>2. ASSUME CoResetTaskDelayTick PROVE Inv'
  <2> DEFINE c == call[k.run]
             k1 == RemoveDelayList(k, c.task)
             k2 == InsertToTCBRdyList(k1, c.task)
             k3 == InsertDelayList(k1, c.task, c.ticks)
  <2>1. /\ c.op = "reset" /\ (k' = OsSchedUnlock(k2) \/ k' = OsSchedUnlock(k3))
        /\ call' = [call EXCEPT ![k.run] = NoCall]
    BY <1>2 DEF CoResetTaskDelayTick, Pending, Finish
  <2>2. c.task \in Task /\ ~Storing(c)
    BY <2>1, Running DEF CallTyped, Storing
  <2>3. Kept(k, k1)
    BY Running, RemoveDelayKept
  <2> HIDE DEF k1
  <2>4. Kept(k, k2) /\ Kept(k, k3)
    BY <2>2, <2>3, InsertRdyKept, InsertDelayKept, KeptTrans DEF Kept
  <2> HIDE DEF k2, k3
  <2> QED BY <2>1, <2>2, <2>4, Running, KeptSafe, CallStep DEF c
<1> QED BY <1>1, <1>2

LEMMA StepMutexes ==
    ASSUME Inv, UNCHANGED <<mails, prog>>,
           \/ CoCreateMutex \/ EnterReturn
           \/ \E m \in Mutex : CoEnterMutexSection(m) \/ CoLeaveMutexSection(m)
    PROVE  Inv'
<1>1. CASE CoCreateMutex
  <2> DEFINE y == [k EXCEPT !.mnum = @ + 1, !.mx[k.mnum + 1] = NewMutex]
  <2>1. ~Storing(call[k.run]) /\ k' = OsSchedUnlock(y) /\ call' = call
    BY <1>1, Running DEF CoCreateMutex, Caller
  <2>2. NewMutex \in MutexType
    BY EmptySeq DEF NewMutex, MutexType
  <2>3. Kept(k, y)
    BY <2>2, Running DEF Kept, KType, Fields
  <2> HIDE DEF y
  <2> QED BY <2>1, <2>3, Running, KeptSafe, CallStep
<1>2. CASE EnterReturn
  <2> DEFINE y == [k EXCEPT !.inside[k.run] = @ \cup {call[k.run].mutex}]
  <2>1. ~Storing(call[k.run]) /\ k' = y /\ call' = [call EXCEPT ![k.run] = NoCall]
    BY <1>2 DEF EnterReturn, Pending, Finish, Storing
  <2>2. Kept(k, y)
    BY Running DEF Kept, KType, Fields
  <2> HIDE DEF y
  <2> QED BY <2>1, <2>2, Running, KeptSafe, CallStep
<1>3. ASSUME NEW m \in Mutex, CoEnterMutexSection(m) PROVE Inv'
  <2> DEFINE c == [op |-> "enter", mutex |-> m]
             k1 == EnterMutex(k, m)
             k2 == [k1 EXCEPT !.inside[k.run] = @ \cup {m}]
  <2>1. /\ ~Storing(call[k.run]) /\ (k' = OsSchedUnlock(k1) \/ k' = OsSchedUnlock(k2))
        /\ call' = [call EXCEPT ![k.run] = c] \/ call' = call
    BY <1>3, Running DEF CoEnterMutexSection, Caller, Begin
  <2>2. Kept(k, k1)
    BY Running, EnterKept
  <2> HIDE DEF k1
  <2>3. Kept(k, k2)
    BY <2>2 DEF Kept, KType, Fields
  <2>4. CallTyped(c) /\ ~Storing(c)
    BY DEF CallTyped, Storing
  <2> HIDE DEF c, k2
  <2> QED BY <2>1, <2>2, <2>3, <2>4, Running, KeptSafe, CallStep
<1>4. ASSUME NEW m \in Mutex, CoLeaveMutexSection(m) PROVE Inv'
  <2> DEFINE k1 == LeaveMutex(k, m)
             k2 == [k1 EXCEPT !.inside[k.run] = @ \ {m}]
  <2>1. ~Storing(call[k.run]) /\ k' = OsSchedUnlock(k2) /\ call' = call
    BY <1>4, Running DEF CoLeaveMutexSection, Caller
  <2>2. Kept(k, k1)
    BY Running, LeaveKept
  <2> HIDE DEF k1
  <2>3. Kept(k, k2)
    BY <2>2 DEF Kept, KType, Fields
  <2> HIDE DEF k2
  <2> QED BY <2>1, <2>3, Running, KeptSafe, CallStep
<1> QED BY <1>1, <1>2, <1>3, <1>4

LEMMA StepLocks ==
    ASSUME Inv, CoSchedLock \/ CoSchedUnlock, UNCHANGED <<mails, prog>>
    PROVE  Inv'
<1> DEFINE k1 == [k EXCEPT !.lock = @ + 1]
           k2 == [k EXCEPT !.lock = @ - 1]
<1>1. ~Storing(call[k.run]) /\ call' = call /\ (k' = k1 \/ k' = OsSchedUnlock(k2))
  BY Running DEF CoSchedLock, CoSchedUnlock, Caller
<1>2. /\ KType(k1) /\ KType(k2)
      /\ k1.due = k.due /\ k1.flg = k.flg /\ k2.due = k.due /\ k2.flg = k.flg
  BY Running DEF KType, Fields
<1> HIDE DEF k1, k2
<1>3. KType(k') /\ (k.due \subseteq k.flg.rdy => k'.due \subseteq k'.flg.rdy)
  BY <1>1, <1>2, UnlockSwitched DEF Switched
<1> QED BY <1>1, <1>3, Running, QuietStep

\* Under a lock the tick neither switches nor touches a flag.
LEMMA StepTick ==
    ASSUME Inv, Tick, UNCHANGED <<mails, prog>>
    PROVE  Inv'
<1>1. call' = call /\ k' = SysTick(k)
  BY DEF Tick
<1>2. /\ KType(k') /\ k'.lock = k.lock
      /\ k.due \subseteq k.flg.rdy => k'.due \subseteq k'.flg.rdy
      /\ k.lock > 0 => k'.run = k.run /\ k'.flg.rdy = k.flg.rdy
  BY <1>1, Running, TickSwitched DEF Switched
<1>3. CASE k.lock > 0
  <2>1. Typed'
    BY <1>1, <1>2 DEF Inv, Typed
  <2>2. LoadedIsRdy'
    BY <1>1, <1>2, <1>3 DEF Inv, LoadedIsRdy
  <2>3. SetsKept'
    BY <1>2 DEF Inv, SetsKept
  <2> QED BY <2>1, <2>2, <2>3 DEF Inv
<1>4. CASE ~(k.lock > 0)
  BY <1>1, <1>2, <1>4, Running, QuietStep
<1> QED BY <1>3, <1>4

LEMMA StepProgram ==
    ASSUME Inv, Program, UNCHANGED <<mails, prog>>
    PROVE  Inv'
<1>1. ASSUME NEW t \in Task, DelTest(t) \/ SuspendTest(t) \/ AwakeTest(t) PROVE Inv'
  BY <1>1, StepDelTest, StepTests
<1>2. ASSUME NEW t \in Task, NEW n \in prog.delays \cup {0}, ResetDelayTest(t, n) PROVE Inv'
  BY <1>2, StepTests
<1>3. CASE CreateTask \/ DelLeave \/ CoDelTask \/ CoSuspendTask \/ CoAwakeTask \/ CoSetPriority
  BY <1>3, StepCreate, StepDelLeave, StepDelete, StepSuspend, StepAwake, StepSetPriority
<1> QED BY <1>1, <1>2, <1>3, StepAssign, StepPrioTest, StepDelays, StepMutexes, StepLocks DEF Program

(***************************************************************************)
(* Part 3.  The steps of FlagSync.                                         *)
(***************************************************************************)
LEMMA StepWaitFlags ==
    ASSUME Inv, UNCHANGED <<mails, prog>>, NEW w \in Wanted, NEW n, CoWaitForFlags(w, n)
    PROVE  Inv'
<1> DEFINE c == [op |-> "fwait", flags |-> w.flags, all |-> w.all, ticks |-> n]
           k0 == TakeFlags(k, Ready(w))
           k1 == FlagBlock(k, w.flags, w.all)
           k2 == [k1 EXCEPT !.st[k.run] = "WAITING", !.req = TRUE]
           k3 == InsertDelayList(k1, k.run, n)
<1>1. /\ ~Storing(call[k.run])
      /\ k' \in {OsSchedUnlock(k0), OsSchedUnlock(k2), OsSchedUnlock(k3)}
      /\ call' = [call EXCEPT ![k.run] = c] \/ call' = call
  BY Running DEF CoWaitForFlags, Caller, Begin
<1>2. w.flags \in SUBSET Flag /\ w.all \in BOOLEAN
  <2>1. prog.flags \subseteq Flag
    BY Running, FlagSyncAssumption
  <2> QED BY <2>1 DEF Wanted
<1>3. Safe(k, k0)
  BY Running, TakeFlagsSafe
<1>4. Safe(k, k1)
  BY <1>2, Running, FlagBlockSafe
<1> HIDE DEF k0, k1
<1>5. Safe(k, k2)
  BY <1>4, Running DEF Safe, KType, Fields, Alive
<1>6. Safe(k, k3)
  BY <1>4, Running, InsertDelayKept, KeptSafe, SafeTrans DEF Safe
<1>7. CallTyped(c) /\ ~Storing(c)
  BY DEF CallTyped, Storing
<1> HIDE DEF c, k2, k3
<1> QED BY <1>1, <1>3, <1>5, <1>6, <1>7, Running, CallStep

LEMMA StepFlagReturn ==
    ASSUME Inv, UNCHANGED <<mails, prog>>, FlagReturn
    PROVE  Inv'
<1> DEFINE c == call[k.run]
           taken == IF Cardinality(c.flags) = 1 THEN c.flags ELSE Ready(c)
           k1 == [k EXCEPT !.pset = @ \ {k.run}]
           k2 == TakeFlags(k1, taken)
<1>1. /\ c.op = "fwait" /\ (k' = k1 \/ k' = OsSchedUnlock(k2))
      /\ call' = [call EXCEPT ![k.run] = NoCall]
  BY DEF FlagReturn, Pending, Finish
<1>2. Safe(k, k1)
  BY Running DEF Safe, KType, Fields
<1> HIDE DEF k1
<1>3. Safe(k, k2)
  BY <1>2, TakeFlagsSafe, SafeTrans DEF Safe
<1> HIDE DEF k2
<1>4. ~Storing(call[k.run])
  BY <1>1 DEF Storing
<1> QED BY <1>1, <1>2, <1>3, <1>4, Running, CallStep

LEMMA StepAccept ==
    ASSUME Inv, UNCHANGED <<mails, prog>>, CoAcceptFlags \/ \E w \in Wanted : AcceptTest(w)
    PROVE  Inv'
<1>1. ASSUME NEW w, AcceptTest(w) PROVE Inv'
  <2> DEFINE c == [op |-> "faccept", taken |-> Ready(w)]
  <2>1. ~Storing(call[k.run]) /\ k' = k /\ call' = [call EXCEPT ![k.run] = c]
    BY <1>1, Running DEF AcceptTest, Caller, Begin
  <2>2. CallTyped(c) /\ ~Storing(c)
    BY DEF CallTyped, Storing
  <2> HIDE DEF c
  <2> QED BY <2>1, <2>2, Running, CallStep
<1>2. ASSUME CoAcceptFlags PROVE Inv'
  <2> DEFINE y == TakeFlags(k, call[k.run].taken)
  <2>1. ~Storing(call[k.run]) /\ k' = OsSchedUnlock(y) /\ call' = [call EXCEPT ![k.run] = NoCall]
    BY <1>2 DEF CoAcceptFlags, Pending, Finish, Storing
  <2>2. Safe(k, y)
    BY Running, TakeFlagsSafe
  <2> HIDE DEF y
  <2> QED BY <2>1, <2>2, Running, CallStep
<1> QED BY <1>1, <1>2

\* The callers of CoSetFlag and CoClearFlag have locked the scheduler, so
\* nobody else is between load and store.
LEMMA StepLoad ==
    ASSUME Guarded, Inv, UNCHANGED <<mails, prog>>, NEW f \in prog.flags, SetLoad(f) \/ ClearLoad(f)
    PROVE  Inv'
<1>1. ~Storing(call[k.run]) /\ k' = k /\ k.lock > 0
  BY Running DEF SetLoad, ClearLoad, Caller, Protected
<1>2. PICK c : /\ call' = [call EXCEPT ![k.run] = c]
               /\ c.op \in {"fset", "fclear"} /\ c.flag = f /\ c.rdy = k.flg.rdy
  <2>1. CASE SetLoad(f)
    <3> DEFINE c == [op |-> "fset", flag |-> f, rdy |-> k.flg.rdy]
    <3>1. call' = [call EXCEPT ![k.run] = c]
      BY <2>1 DEF SetLoad, Begin
    <3>2. c.op = "fset" /\ c.flag = f /\ c.rdy = k.flg.rdy
      OBVIOUS
    <3> HIDE DEF c
    <3> QED BY <3>1, <3>2
  <2>2. CASE ClearLoad(f)
    <3> DEFINE c == [op |-> "fclear", flag |-> f, rdy |-> k.flg.rdy]
    <3>1. call' = [call EXCEPT ![k.run] = c]
      BY <2>2 DEF ClearLoad, Begin
    <3>2. c.op = "fclear" /\ c.flag = f /\ c.rdy = k.flg.rdy
      OBVIOUS
    <3> HIDE DEF c
    <3> QED BY <3>1, <3>2
  <2> QED BY <2>1, <2>2
<1>3. f \in Flag
  BY Running, FlagSyncAssumption
<1>4. CallTyped(c)
  BY <1>2, <1>3 DEF CallTyped
<1>5. \A t \in Task : ~Storing(call[t])
  BY <1>1, Elsewhere
<1>6. DOMAIN call' = Task /\ \A t \in Task : call'[t] = IF t = k.run THEN c ELSE call[t]
  BY <1>2, Running
<1>7. Typed'
  BY <1>1, <1>4, <1>6 DEF Inv, Typed
<1>8. LoadedIsRdy'
  BY <1>1, <1>2, <1>5, <1>6 DEF LoadedIsRdy
<1>9. SetsKept'
  BY <1>1 DEF Inv, SetsKept
<1> QED BY <1>7, <1>8, <1>9 DEF Inv

\* The store writes what was loaded, which is what flagRdy still is, with one
\* flag changed.
LEMMA StepStore ==
    ASSUME Inv, UNCHANGED <<mails, prog>>, SetStore \/ CoClearFlag
    PROVE  Inv'
<1> DEFINE c == call[k.run]
           d == [op |-> "fwake", flag |-> c.flag]
           k1 == MarkSet([k EXCEPT !.flg.rdy = c.rdy \cup {c.flag}], c.flag)
           k2 == [k EXCEPT !.flg.rdy = c.rdy \ {c.flag}, !.due = @ \ {c.flag}]
<1>1. \/ c.op = "fset" /\ k' = k1 /\ call' = [call EXCEPT ![k.run] = d]
      \/ c.op = "fclear" /\ k' = k2 /\ call' = [call EXCEPT ![k.run] = NoCall]
  BY DEF SetStore, CoClearFlag, Pending, Begin, Finish
<1>2. Storing(c) /\ (c.op = "fset" => c.flag \in Flag)
  BY <1>1, Running DEF Storing, CallTyped
<1>3. c.rdy = k.flg.rdy /\ \A t \in Task : Storing(call[t]) => t = k.run
  BY <1>2, Running DEF Inv, LoadedIsRdy
<1>4. CallTyped(d) /\ ~Storing(d)
  BY DEF CallTyped, Storing
<1> HIDE DEF c, d
<1>5. c.flag \in Flag => Safe(k, k1)
  BY <1>3, Running DEF MarkSet, Safe, KType, Fields
<1>6. Safe(k, k2)
  BY <1>3, Running DEF Safe, KType, Fields
<1> HIDE DEF k1, k2
<1>7. Safe(k, k')
  BY <1>1, <1>2, <1>5, <1>6
<1>8. /\ DOMAIN call' = Task
      /\ \A t \in Task : CallTyped(call'[t]) /\ ~Storing(call'[t])
  BY <1>1, <1>3, <1>4, Running DEF Inv, Typed
<1>9. Typed' /\ SetsKept'
  BY <1>7, <1>8 DEF Inv, Typed, SetsKept, Safe
<1>10. LoadedIsRdy'
  BY <1>8 DEF LoadedIsRdy
<1> QED BY <1>9, <1>10 DEF Inv

LEMMA StepWake ==
    ASSUME Inv, UNCHANGED <<mails, prog>>, CoSetFlag
    PROVE  Inv'
<1> DEFINE y == WakeForFlag(k, call[k.run].flag)
<1>1. ~Storing(call[k.run]) /\ k' = OsSchedUnlock(y) /\ call' = [call EXCEPT ![k.run] = NoCall]
  BY DEF CoSetFlag, Pending, Finish, Storing
<1>2. Safe(k, y)
  BY Running, WakeKept, KeptSafe
<1> HIDE DEF y
<1> QED BY <1>1, <1>2, Running, CallStep

\* A request that an interrupt leaves in ServiceReq changes no flag.
LEMMA RequestStep ==
    ASSUME Inv, NEW r \in Request, k' = [k EXCEPT !.srq = Append(@, r)], call' = call,
           prog' = prog, mails' \in Nat
    PROVE  Inv'
<1>1. Append(k.srq, r) \in Seq(Request)
  BY Running DEF KType
<1>2. Kept(k, k')
  BY <1>1, Running DEF Kept, KType, Fields
<1>3. Typed' /\ SetsKept'
  BY <1>2 DEF Inv, Typed, SetsKept, Kept
<1>4. LoadedIsRdy'
  BY <1>2 DEF Inv, LoadedIsRdy, Kept
<1> QED BY <1>3, <1>4 DEF Inv

\* Only an interrupt that finds the scheduler unlocked sets a flag itself.
LEMMA StepIsrFlag ==
    ASSUME Inv, UNCHANGED <<mails, prog>>, NEW f \in Flag, isr_SetFlag(f)
    PROVE  Inv'
<1>1. CASE k.lock = 0 /\ k' = OsSchedUnlock(SetFlag(k, f))
  <2> DEFINE y == SetFlag(k, f)
  <2>1. Safe(k, y)
    BY Running, SetFlagSafe
  <2> HIDE DEF y
  <2>2. KType(k') /\ (k.due \subseteq k.flg.rdy => k'.due \subseteq k'.flg.rdy)
    BY <1>1, <2>1, Running, UnlockStep DEF y
  <2>3. call' = call
    BY DEF isr_SetFlag
  <2> QED BY <1>1, <2>2, <2>3, Running, QuietStep
<1>2. CASE k' = [k EXCEPT !.srq = Append(@, [flag |-> f])]
  <2>1. [flag |-> f] \in Request /\ call' = call
    BY DEF Request, isr_SetFlag
  <2> QED BY <1>2, <2>1, Running, RequestStep
<1> QED BY <1>1, <1>2 DEF isr_SetFlag

LEMMA StepDelFlag ==
    ASSUME Inv, UNCHANGED <<mails, prog>>, NEW f, NEW b, CoDelFlag(f, b)
    PROVE  Inv'
<1> DEFINE y == DropFlag(k, f)
<1>1. /\ ~Storing(call[k.run]) /\ call' = call
      /\ k' = OsSchedUnlock(y) \/ k' = OsSchedUnlock(k)
  BY Running DEF CoDelFlag, Caller
<1>2. Safe(k, y)
  BY Running, DropSafe
<1> HIDE DEF y
<1> QED BY <1>1, <1>2, Running, CallStep

LEMMA StepNewFlag ==
    ASSUME Inv, UNCHANGED <<mails, prog>>, NEW b, CoCreateFlag(b)
    PROVE  Inv'
<1> DEFINE f == CHOOSE g \in Flag \ k.flg.act : \A h \in Flag \ k.flg.act : g <= h
           k1 == [k EXCEPT !.flg.act = @ \cup {f}]
           k2 == MarkSet([k1 EXCEPT !.flg.rdy = @ \cup {f}], f)
<1>1. /\ ~Storing(call[k.run]) /\ call' = call
      /\ k' = OsSchedUnlock(k1) \/ k' = OsSchedUnlock(k2)
  BY Running DEF CoCreateFlag, Caller
<1>2. f \in Flag
  <2> DEFINE S == Flag \ k.flg.act
  <2>1. S \in SUBSET Nat /\ S # {}
    BY FlagsAssumption, Running DEF CoCreateFlag, KType
  <2> HIDE DEF S
  <2>2. \E g \in S : \A h \in S : g <= h
    BY <2>1, Least
  <2> QED BY <2>2 DEF S
<1> HIDE DEF f
<1>3. Safe(k, k1)
  BY <1>2, Running DEF Safe, KType, Fields
<1> HIDE DEF k1
<1>4. Safe(k, k2)
  BY <1>2, <1>3, Running DEF MarkSet, Safe, KType, Fields
<1> HIDE DEF k2
<1> QED BY <1>1, <1>3, <1>4, Running, CallStep

LEMMA StepFlags ==
    ASSUME Guarded, Inv, FProgram, UNCHANGED <<mails, prog>>
    PROVE  Inv'
<1>1. ASSUME NEW w \in Wanted, AcceptTest(w) \/ \E n \in Timeouts : CoWaitForFlags(w, n) PROVE Inv'
  BY <1>1, StepAccept, StepWaitFlags
<1>2. CASE FlagReturn \/ CoAcceptFlags \/ SetStore \/ CoSetFlag \/ CoClearFlag
  BY <1>2, StepFlagReturn, StepAccept, StepStore, StepWake
<1> QED BY <1>1, <1>2, StepLoad, StepDelFlag, StepNewFlag DEF FProgram

(***************************************************************************)
(* Part 4.  The steps of EventSync.                                        *)
(***************************************************************************)
LEMMA MakeMailTyped ==
    ASSUME Inv, NEW e, MakeMail(e)
    PROVE  mails' \in Nat /\ Mail(e) \in Nat
BY DEF Inv, Typed, MakeMail, Mail

LEMMA StepTake ==
    ASSUME Inv, UNCHANGED prog, NEW e, ~Storing(call[k.run]), TakeNow(e)
    PROVE  Inv'
<1> DEFINE y == Take(k, e)
<1>1. k' = OsSchedUnlock(y) /\ call' = call /\ mails' = mails
  BY DEF TakeNow
<1>2. Safe(k, y)
  BY Running, TakeKept, KeptSafe
<1> HIDE DEF y
<1> QED BY <1>1, <1>2, Running, CallStep

LEMMA StepWaitFor ==
    ASSUME Inv, UNCHANGED prog, NEW e \in Event, NEW n, ~Storing(call[k.run]), WaitFor(e, n)
    PROVE  Inv'
<1> DEFINE c == [op |-> "wait", ev |-> e, ticks |-> n]
           k1 == EventTaskToWait(k, e, k.run)
           k2 == InsertDelayList(k1, k.run, n)
<1>1. k' = OsSchedUnlock(k2) /\ call' = [call EXCEPT ![k.run] = c] /\ mails' = mails
  BY DEF WaitFor, Begin
<1>2. Kept(k, k1)
  BY Running, ToWaitKept
<1> HIDE DEF k1
<1>3. Kept(k, k2)
  BY <1>2, Running, InsertDelayKept, KeptTrans DEF Kept
<1>4. CallTyped(c) /\ ~Storing(c)
  BY DEF CallTyped, Storing
<1> HIDE DEF c, k2
<1> QED BY <1>1, <1>3, <1>4, Running, KeptSafe, CallStep

LEMMA StepPend ==
    ASSUME Inv, UNCHANGED prog, NEW e \in Event, NEW n, CoPendSem(e, n) \/ CoPendMail(e, n)
    PROVE  Inv'
<1> DEFINE c == [op |-> "empty", ev |-> e, ticks |-> n]
<1>1. ~Storing(call[k.run])
  BY Running DEF CoPendSem, CoPendMail, Caller
<1>2. \/ TakeNow(e) \/ WaitFor(e, n)
      \/ k' = OsSchedUnlock(k) /\ call' = [call EXCEPT ![k.run] = c] /\ mails' = mails
  BY DEF CoPendSem, CoPendMail, Begin
<1>3. CallTyped(c) /\ ~Storing(c)
  BY DEF CallTyped, Storing
<1> HIDE DEF c
<1> QED BY <1>1, <1>2, <1>3, StepTake, StepWaitFor, Running, CallStep

LEMMA StepPendReturn ==
    ASSUME Inv, UNCHANGED prog, PendWait \/ PendReturn
    PROVE  Inv'
<1>1. CASE PendWait
  <2> DEFINE c == call[k.run]
  <2>1. c.op = "empty" /\ WaitFor(c.ev, c.ticks)
    BY <1>1 DEF PendWait, Pending
  <2>2. c.ev \in Event /\ ~Storing(c)
    BY <2>1, Running DEF CallTyped, Storing
  <2> HIDE DEF c
  <2> QED BY <2>1, <2>2, StepWaitFor DEF c
<1>2. CASE PendReturn
  <2> DEFINE y == [k EXCEPT !.pmail[k.run] = 0]
  <2>1. /\ ~Storing(call[k.run]) /\ k' = y /\ mails' = mails
        /\ call' = [call EXCEPT ![k.run] = NoCall]
    BY <1>2 DEF PendReturn, Pending, Finish, Storing
  <2>2. Kept(k, y)
    BY Running DEF Kept, KType, Fields
  <2> HIDE DEF y
  <2> QED BY <2>1, <2>2, Running, KeptSafe, CallStep
<1> QED BY <1>1, <1>2

LEMMA StepAcceptEvent ==
    ASSUME Inv, UNCHANGED prog, NEW e, CoAccept(e)
    PROVE  Inv'
<1>1. /\ ~Storing(call[k.run])
      /\ TakeNow(e) \/ (k' = OsSchedUnlock(k) /\ call' = call /\ mails' = mails)
  BY Running DEF CoAccept, Caller
<1> QED BY <1>1, StepTake, Running, CallStep

LEMMA StepPost ==
    ASSUME Inv, UNCHANGED prog, CoPost \/ \E e \in Event : PostTest(e)
    PROVE  Inv'
<1>1. ASSUME NEW e \in Event, PostTest(e) PROVE Inv'
  <2> DEFINE c == [op |-> "post", ev |-> e, mail |-> Mail(e)]
  <2>1. ~Storing(call[k.run]) /\ k' = k /\ call' = [call EXCEPT ![k.run] = c] /\ mails' \in Nat
    BY <1>1, Running, MakeMailTyped DEF PostTest, Caller, Begin
  <2>2. CallTyped(c) /\ ~Storing(c)
    BY DEF CallTyped, Storing
  <2> HIDE DEF c
  <2> QED BY <2>1, <2>2, Running, CallStep
<1>2. ASSUME CoPost PROVE Inv'
  <2> DEFINE c == call[k.run]
             y == Put(k, c.ev, c.mail)
  <2>1. /\ c.op = "post" /\ k' = OsSchedUnlock(y) /\ mails' = mails
        /\ call' = [call EXCEPT ![k.run] = NoCall]
    BY <1>2 DEF CoPost, Pending, Finish
  <2>2. c.ev \in Event /\ ~Storing(c)
    BY <2>1, Running DEF CallTyped, Storing
  <2>3. Safe(k, y)
    BY <2>2, Running, PutKept, KeptSafe
  <2> HIDE DEF y
  <2> QED BY <2>1, <2>2, <2>3, Running, CallStep
<1> QED BY <1>1, <1>2

LEMMA StepInterrupt ==
    ASSUME Inv, UNCHANGED prog, NEW e \in Event, Interrupt(e)
    PROVE  Inv'
<1> DEFINE r == [ev |-> e, mail |-> Mail(e)]
           y == Post(k, r)
<1>1. /\ call' = call
      /\ \/ k.lock = 0 /\ k' = OsSchedUnlock(y)
         \/ k' = [k EXCEPT !.srq = Append(@, r)]
  BY DEF Interrupt
<1>2. mails' \in Nat /\ Mail(e) \in Nat
  BY MakeMailTyped DEF Interrupt
<1>3. r \in Request /\ r.ev \in Event
  BY <1>2 DEF Request
<1> HIDE DEF r
<1>4. Safe(k, y)
  BY <1>3, Running, PostKept, KeptSafe
<1> HIDE DEF y
<1>5. CASE k.lock = 0 /\ k' = OsSchedUnlock(y)
  <2>1. KType(k') /\ (k.due \subseteq k.flg.rdy => k'.due \subseteq k'.flg.rdy)
    BY <1>4, <1>5, Running, UnlockStep
  <2> QED BY <1>1, <1>2, <1>5, <2>1, Running, QuietStep
<1>6. CASE k' = [k EXCEPT !.srq = Append(@, r)]
  BY <1>1, <1>2, <1>3, <1>6, RequestStep
<1> QED BY <1>1, <1>5, <1>6

LEMMA StepDelEvent ==
    ASSUME Inv, UNCHANGED prog, ReleaseECB \/ \E e \in Event, b \in BOOLEAN : DelEvent(e, b)
    PROVE  Inv'
<1>1. ASSUME NEW e \in Event, NEW b, DelEvent(e, b) PROVE Inv'
  <2> DEFINE c == [op |-> "release", ev |-> e]
             y == WakeAll(k, e)
  <2>1. /\ ~Storing(call[k.run]) /\ (k' = OsSchedUnlock(y) \/ k' = k) /\ mails' = mails
        /\ call' = [call EXCEPT ![k.run] = c]
    BY <1>1, Running DEF DelEvent, Caller, Begin
  <2>2. CallTyped(c) /\ ~Storing(c)
    BY DEF CallTyped, Storing
  <2>3. Safe(k, y)
    BY Running, WakeAllKept, KeptSafe
  <2> HIDE DEF c, y
  <2> QED BY <2>1, <2>2, <2>3, Running, CallStep
<1>2. ASSUME ReleaseECB PROVE Inv'
  <2> DEFINE c == call[k.run]
             y == Release(k, c.ev)
  <2>1. /\ c.op = "release" /\ k' = OsSchedUnlock(y) /\ mails' = mails
        /\ call' = [call EXCEPT ![k.run] = NoCall]
    BY <1>2 DEF ReleaseECB, Pending, Finish
  <2>2. c.ev \in Event /\ ~Storing(c)
    BY <2>1, Running DEF CallTyped, Storing
  <2>3. Safe(k, y)
    BY <2>2, Running, ReleaseKept, KeptSafe
  <2> HIDE DEF y
  <2> QED BY <2>1, <2>2, <2>3, Running, CallStep
<1> QED BY <1>1, <1>2

LEMMA StepNewEvent ==
    ASSUME Inv, UNCHANGED prog, NEW e \in Event, CreatEvent(e)
    PROVE  Inv'
<1> DEFINE ecb == NewECB(e)
           intact == k.intact /\ k.wait[e] = << >>
           y == [k EXCEPT !.ecb[e] = ecb, !.wait[e] = << >>, !.intact = intact]
<1>1. ~Storing(call[k.run]) /\ k' = OsSchedUnlock(y) /\ UNCHANGED <<call, mails>>
  BY Running DEF CreatEvent, Caller
<1> HIDE DEF ecb, intact
<1>2. << >> \in Seq(Task)
  BY EmptySeq
<1>3. Kept(k, y)
  BY <1>2, Running DEF Kept, KType, Fields
<1> HIDE DEF y
<1> QED BY <1>1, <1>3, Running, KeptSafe, CallStep

LEMMA StepEvents ==
    ASSUME Inv, EProgram, UNCHANGED prog
    PROVE  Inv'
<1>1. ASSUME NEW e \in Event, CoAccept(e) \/ PostTest(e) \/ CreatEvent(e) PROVE Inv'
  BY <1>1, StepAcceptEvent, StepPost, StepNewEvent
<1> QED BY <1>1, StepPend, StepPendReturn, StepPost, StepDelEvent DEF EProgram

(***************************************************************************)
(* Part 5.  The start, and the theorem.                                    *)
(***************************************************************************)
LEMMA InitInv ==
    ASSUME EInit
    PROVE  Inv
<1>1. PICK p \in prog.boot : \E spare \in Spare(p) : k = Boot(p, spare)
  BY DEF EInit, Init
<1>2. PICK spare \in Spare(p) : k = Boot(p, spare)
  BY <1>1
<1>3. prog \in Programs /\ mails = 0 /\ call = [t \in Task |-> NoCall]
  BY DEF EInit, Init
<1>4. p \in Seq(0 .. Lowest) /\ DOMAIN p \subseteq Task
  BY <1>3, TaskSchedAssumption
<1>5. spare \in Seq(Task)
  <2> DEFINE rest == Task \ ({Idle} \cup DOMAIN p)
  <2>1. spare \in [1 .. Cardinality(rest) -> rest]
    BY DEF Spare
  <2>2. IsFiniteSet(rest)
    BY KernelAssumption, FS_Subset
  <2>3. Cardinality(rest) \in Nat
    BY <2>2, FS_CardinalityType
  <2>4. rest \subseteq Task
    OBVIOUS
  <2> HIDE DEF rest
  <2>5. \A n \in Nat : [1 .. n -> rest] \subseteq Seq(rest)
    BY SeqDef
  <2>6. spare \in Seq(rest)
    BY <2>1, <2>3, <2>5
  <2> QED BY <2>4, <2>6, SeqMonotonic
<1>6. KType(k) /\ SetsKept
  BY <1>2, <1>4, <1>5, BootType DEF SetsKept
<1>7. ~Storing(NoCall) /\ CallTyped(NoCall)
  BY DEF Storing, CallTyped, NoCall
<1>8. Typed
  BY <1>3, <1>6, <1>7 DEF Typed
<1>9. LoadedIsRdy
  BY <1>3, <1>7 DEF LoadedIsRdy
<1> QED BY <1>6, <1>8, <1>9 DEF Inv

LEMMA NextInv ==
    ASSUME Guarded, Inv, [ENext]_evars
    PROVE  Inv'
<1>1. CASE UNCHANGED evars
  BY <1>1 DEF evars, Inv, Typed, LoadedIsRdy, SetsKept
<1>2. CASE ENext
  <2>1. UNCHANGED prog
    BY <1>2 DEF ENext
  <2>2. CASE EProgram
    BY <2>1, <2>2, StepEvents
  <2>3. CASE Program /\ UNCHANGED <<mails, got>>
    BY <2>1, <2>3, StepProgram
  <2>4. CASE FProgram /\ UNCHANGED <<mails, got>>
    BY <2>1, <2>4, StepFlags
  <2>5. ASSUME NEW f \in Flag, isr_SetFlag(f), UNCHANGED <<mails, got>> PROVE Inv'
    BY <2>1, <2>5, StepIsrFlag
  <2>6. CASE ETick
    BY <2>1, <2>6, StepTick DEF ETick
  <2>7. ASSUME NEW e \in Event, Interrupt(e) PROVE Inv'
    BY <2>1, <2>7, StepInterrupt
  <2> QED BY <1>2, <2>2, <2>3, <2>4, <2>5, <2>6, <2>7 DEF ENext
<1> QED BY <1>1, <1>2

\* A flag that CoSetFlag, isr_SetFlag or CoCreateFlag has set stays set until
\* it is cleared, deleted or taken, in every program that calls CoSetFlag and
\* CoClearFlag with the scheduler locked: the load and the store of flagRdy
\* that these two make outside of OsSchedLock never overwrite the store of
\* another task or of an interrupt.
THEOREM FlagStays == Guarded => (ESpec => []SetsKept)
<1> SUFFICES ASSUME Guarded PROVE ESpec => []SetsKept
  OBVIOUS
<1>1. EInit => Inv
  BY InitInv
<1>2. Inv /\ [ENext]_evars => Inv'
  BY NextInv
<1>3. Inv => SetsKept
  BY DEF Inv
<1> QED BY <1>1, <1>2, <1>3, PTL DEF ESpec
=============================================================================
