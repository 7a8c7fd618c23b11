------------------------------- MODULE CoreLock -------------------------------
(***************************************************************************)
(* The scheduler lock of the CoOS kernel: how task code, the SysTick       *)
(* handler, PendSV and nested user interrupts share OSSchedLock,           *)
(* OSIntNesting, TaskSchedReq, IsrReq, TimeReq and the service request     *)
(* queue (kernel/core.c, kernel/serviceReq.c, portable/arch.c,             *)
(* portable/GCC/port.c, Schedule in kernel/task.c).                        *)
(*                                                                         *)
(* A context is a task or an exception level.  Level 0 is the lowest       *)
(* exception priority, shared by SysTick and PendSV (InitInt gives both    *)
(* the lowest priority); level l > 0 is a user interrupt that preempts     *)
(* every lower level.  A context takes one step per memory access another  *)
(* context could observe; code between CPSID and CPSIE is one step.        *)
(* Kernel lists (ready, delay, wait lists) appear only as the labels at    *)
(* which a context works on them: what is done there is the business of    *)
(* the other modules.                                                      *)
(***************************************************************************)
EXTENDS Integers

CONSTANTS Task,       \* tasks that exist; at least one, the idle task
          NIsr,       \* number of user interrupt priorities
          MaxNest,    \* bound on how deep a task nests CoSchedLock
          MaxReq,     \* CFG_MAX_SERVICE_REQUEST
          Req         \* requests an ISR can queue: (type, id, arg) of a cell

Levels == 0 .. NIsr
IsrLevels == 1 .. NIsr
Ctx == Task \cup Levels

ASSUME CoreLockAssumption ==
    /\ NIsr \in Nat
    /\ MaxNest \in Nat \ {0}
    /\ MaxReq \in Nat \ {0}
    /\ Task # {}
    /\ Req # {}
    /\ Task \cap Levels = {}

VARIABLES
    pc,             \* where each context is; a level that is not active is "idle"
    reg,            \* OSSchedLock as loaded by a ++ or -- that has not stored yet
    entry,          \* history: OSSchedLock when the level was entered
    thold,          \* history: how much of OSSchedLock the running task owns
    OSSchedLock, OSIntNesting, TaskSchedReq,
    IsrReq, TimeReq,
    due,            \* the head of the delay list or of the timer list has expired
    TCBRunning, TCBNext,
    pendsv,         \* PendSV is pending in the NVIC
    svNext,         \* TCBNext as loaded by PendSV_Handler
    cnt, head, cell,  \* ServiceReq
    slot, arg,      \* locals of InsertInSRQ: cnt, then the cell index; the request
    served          \* the cell copy RespondSRQ works on

lockVars == <<reg, entry, thold, OSSchedLock>>
reqVars  == <<IsrReq, TimeReq, due>>
taskVars == <<TCBRunning, TCBNext, pendsv, svNext>>
srqVars  == <<cnt, head, cell, slot, arg, served>>
vars == <<pc, lockVars, OSIntNesting, TaskSchedReq, reqVars, taskVars, srqVars>>

Goto(c, l) == pc' = [pc EXCEPT ![c] = l]

(***************************************************************************)
(* Who runs.  An active level runs when no higher level is active; the     *)
(* running task runs when no level is active and PendSV is not pending.    *)
(***************************************************************************)
LevelRuns(l) == /\ pc[l] # "idle"
                /\ \A m \in Levels : m > l => pc[m] = "idle"

TaskRuns(t) == /\ t = TCBRunning
               /\ \A l \in Levels : pc[l] = "idle"
               /\ ~pendsv

Runs(c) == (c \in Levels /\ LevelRuns(c)) \/ (c \in Task /\ TaskRuns(c))

\* Where OsSchedUnlock returns to.
Return(c) == IF c \in Task THEN "user" ELSE IF c = 0 THEN "idle" ELSE "isr"

\* A step of c that leaves the task, if c is one, owning n of OSSchedLock.
TaskHolds(c, n) == thold' = IF c \in Task THEN n ELSE thold

\* The register is dead after the store.
DropReg(c) == reg' = [reg EXCEPT ![c] = 0]

\* The history of a level ends when it returns.
Leave(c, l) == /\ Goto(c, l)
               /\ entry' = IF l = "idle" THEN [entry EXCEPT ![c] = 0] ELSE entry

-----------------------------------------------------------------------------
(***************************************************************************)
(* OSSchedLock++ is a load and a store (OsSchedLock(), CoSchedLock).       *)
(***************************************************************************)

\* A task, an ISR whose isr_Post found the scheduler unlocked, or SysTick
\* loads OSSchedLock.
LockLoad(c) ==
    /\ Runs(c)
    /\ \/ c \in Task /\ pc[c] = "user" /\ thold < MaxNest
       \/ c \notin Task /\ pc[c] = "lock"
    /\ reg' = [reg EXCEPT ![c] = OSSchedLock]
    /\ Goto(c, "lockst")
    /\ UNCHANGED <<entry, thold, OSSchedLock, OSIntNesting, TaskSchedReq,
                   reqVars, taskVars, srqVars>>

\* ... and stores it: the task is then inside a kernel operation ("crit") or
\* has returned from CoSchedLock ("user").
LockStore(c) ==
    /\ Runs(c)
    /\ pc[c] = "lockst"
    /\ OSSchedLock' = reg[c] + 1
    /\ DropReg(c)
    /\ TaskHolds(c, thold + 1)
    /\ \E l \in IF c \in Task THEN {"crit", "user"}
                ELSE IF c = 0 THEN {"tick"} ELSE {"crit"} : Goto(c, l)
    /\ UNCHANGED <<entry, OSIntNesting, TaskSchedReq, reqVars, taskVars, srqVars>>

\* The body of a kernel operation works on the kernel lists and may ask for a
\* schedule (InsertToTCBRdyList, InsertDelayList, CoDelTask ...).
KernelOp(c) ==
    /\ Runs(c)
    /\ pc[c] = "crit"
    /\ TaskSchedReq' \in {TaskSchedReq, TRUE}
    /\ Goto(c, "unlock")
    /\ UNCHANGED <<lockVars, OSIntNesting, reqVars, taskVars, srqVars>>

\* CoSchedUnlock by a task that called CoSchedLock.
CoSchedUnlock(t) ==
    /\ TaskRuns(t)
    /\ pc[t] = "user"
    /\ thold > 0
    /\ Goto(t, "unlock")
    /\ UNCHANGED <<lockVars, OSIntNesting, TaskSchedReq, reqVars, taskVars, srqVars>>

-----------------------------------------------------------------------------
(***************************************************************************)
(* OsSchedUnlock and the RespondSRQ it calls.                              *)
(***************************************************************************)

\* if(OSSchedLock == 1) ... else OSSchedLock-- (whose load this step is)
UnlockTest(c) ==
    /\ Runs(c)
    /\ pc[c] = "unlock"
    /\ IF OSSchedLock = 1
       THEN Goto(c, "isrq") /\ UNCHANGED reg
       ELSE Goto(c, "dec") /\ reg' = [reg EXCEPT ![c] = OSSchedLock]
    /\ UNCHANGED <<entry, thold, OSSchedLock, OSIntNesting, TaskSchedReq,
                   reqVars, taskVars, srqVars>>

\* The store of OSSchedLock--, in OsSchedUnlock and in CoExitISR.
LockDec(c) ==
    /\ Runs(c)
    /\ pc[c] \in {"dec", "xdec"}
    /\ OSSchedLock' = reg[c] - 1
    /\ TaskHolds(c, thold - 1)
    /\ DropReg(c)
    /\ Leave(c, IF pc[c] = "dec" THEN Return(c) ELSE "idle")
    /\ UNCHANGED <<OSIntNesting, TaskSchedReq, reqVars, taskVars, srqVars>>

\* if(IsrReq == Co_TRUE) RespondSRQ(), whose first test is TimeReq
IsrReqTest(c) ==
    /\ Runs(c)
    /\ pc[c] = "isrq"
    /\ Goto(c, IF ~IsrReq THEN "schedreq" ELSE IF TimeReq THEN "time" ELSE "loop")
    /\ UNCHANGED <<lockVars, OSIntNesting, TaskSchedReq, reqVars, taskVars, srqVars>>

\* TimeDispose(): moves the expired tasks to the ready list.
TimeDispose(c) ==
    /\ Runs(c)
    /\ pc[c] = "time"
    /\ due' = FALSE
    /\ TaskSchedReq' \in {TaskSchedReq, TRUE}
    /\ Goto(c, "timeclr")
    /\ UNCHANGED <<lockVars, OSIntNesting, IsrReq, TimeReq, taskVars, srqVars>>

\* TimeReq = Co_FALSE, after the disposal: a request raised in between is lost.
TimeReqClear(c) ==
    /\ Runs(c)
    /\ pc[c] = "timeclr"
    /\ TimeReq' = FALSE
    /\ Goto(c, "loop")
    /\ UNCHANGED <<lockVars, OSIntNesting, TaskSchedReq, IsrReq, due, taskVars, srqVars>>

\* while(ServiceReq.cnt != 0): take one cell with interrupts off ...
PopSRQ(c) ==
    /\ Runs(c)
    /\ pc[c] = "loop"
    /\ cnt # 0
    /\ served' = cell[head]
    /\ head' = (head + 1) % MaxReq
    /\ cnt' = cnt - 1
    /\ Goto(c, "serve")
    /\ UNCHANGED <<lockVars, OSIntNesting, TaskSchedReq, reqVars, taskVars, cell, slot, arg>>

\* ... and post it.  The nested OsSchedLock/OsSchedUnlock of the post takes
\* OSSchedLock from 1 to 2 and back, which no other context tells from 1.
Serve(c) ==
    /\ Runs(c)
    /\ pc[c] = "serve"
    /\ TaskSchedReq' \in {TaskSchedReq, TRUE}
    /\ Goto(c, "loop")
    /\ UNCHANGED <<lockVars, OSIntNesting, reqVars, taskVars, srqVars>>

PopEnd(c) ==
    /\ Runs(c)
    /\ pc[c] = "loop"
    /\ cnt = 0
    /\ Goto(c, "srqend")
    /\ UNCHANGED <<lockVars, OSIntNesting, TaskSchedReq, reqVars, taskVars, srqVars>>

\* Mutant of IsrReqClear: IsrReq is cleared without looking at the queue again.
IsrReqClearAlways(c) ==
    /\ Runs(c)
    /\ pc[c] = "srqend"
    /\ IsrReq' = FALSE
    /\ Goto(c, "schedreq")
    /\ UNCHANGED <<lockVars, OSIntNesting, TaskSchedReq, TimeReq, due, taskVars, srqVars>>

\* With interrupts off: if (ServiceReq.cnt == 0) IsrReq = Co_FALSE
IsrReqClear(c) ==
    /\ Runs(c)
    /\ pc[c] = "srqend"
    /\ IsrReq' = (IsrReq /\ cnt # 0)
    /\ Goto(c, "schedreq")
    /\ UNCHANGED <<lockVars, OSIntNesting, TaskSchedReq, TimeReq, due, taskVars, srqVars>>

\* if(TaskSchedReq == Co_TRUE) Schedule()
SchedReqTest(c) ==
    /\ Runs(c)
    /\ pc[c] = "schedreq"
    /\ Goto(c, IF TaskSchedReq THEN "sched" ELSE "release")
    /\ UNCHANGED <<lockVars, OSIntNesting, TaskSchedReq, reqVars, taskVars, srqVars>>

\* OSSchedLock = 0.  A task reaches this line after it was switched out by
\* the Schedule above and resumed, too.
Release(c) ==
    /\ Runs(c)
    /\ pc[c] = "release"
    /\ OSSchedLock' = 0
    /\ TaskHolds(c, 0)
    /\ Leave(c, Return(c))
    /\ UNCHANGED <<reg, OSIntNesting, TaskSchedReq, reqVars, taskVars, srqVars>>

-----------------------------------------------------------------------------
(***************************************************************************)
(* Schedule, called at "sched" by OsSchedUnlock and at "xsched" by         *)
(* CoExitISR, and PendSV_Handler, which carries the switch out.            *)
(***************************************************************************)
AfterSchedule(l) == IF l \in {"sched", "switch"} THEN "release" ELSE "xdecld"

\* Mutants of SchedRefused, each without one of the tests.
RefusedUnlessLocked == TCBRunning # TCBNext \/ OSIntNesting > 0
RefusedUnlessSwitching == OSSchedLock > 1 \/ OSIntNesting > 0
RefusedUnlessNested == TCBRunning # TCBNext \/ OSSchedLock > 1

\* The early returns of Schedule; no task may be ready at all.
SchedRefused == \/ TCBRunning # TCBNext
                \/ OSSchedLock > 1
                \/ OSIntNesting > 0

SchedTest(c) ==
    /\ Runs(c)
    /\ pc[c] \in {"sched", "xsched"}
    /\ \/ Goto(c, AfterSchedule(pc[c]))          \* refused, or TCBRdy == Co_NULL
       \/ /\ ~SchedRefused
          /\ Goto(c, IF pc[c] = "sched" THEN "switch" ELSE "xswitch")
    /\ UNCHANGED <<lockVars, OSIntNesting, TaskSchedReq, reqVars, taskVars, srqVars>>

\* The body: any task may turn out to be the next one; SwitchContext pends
\* PendSV when it is another one.
Switch(c) ==
    /\ Runs(c)
    /\ pc[c] \in {"switch", "xswitch"}
    /\ TaskSchedReq' = FALSE
    /\ \E t \in Task : TCBNext' = t /\ pendsv' = (pendsv \/ t # TCBRunning)
    /\ Goto(c, AfterSchedule(pc[c]))
    /\ UNCHANGED <<lockVars, OSIntNesting, reqVars, TCBRunning, svNext, srqVars>>

\* PendSV is taken when no other exception is active.
PendSVEnter ==
    /\ pendsv
    /\ \A l \in Levels : pc[l] = "idle"
    /\ pendsv' = FALSE
    /\ entry' = [entry EXCEPT ![0] = OSSchedLock]
    /\ Goto(0, "sv")
    /\ UNCHANGED <<reg, thold, OSSchedLock, OSIntNesting, TaskSchedReq, reqVars,
                   TCBRunning, TCBNext, svNext, srqVars>>

\* Load TCBRunning and TCBNext and compare them.
PendSVLoad ==
    /\ LevelRuns(0)
    /\ pc[0] = "sv"
    /\ svNext' = TCBNext
    /\ Goto(0, IF TCBRunning = TCBNext THEN "svend" ELSE "svst")
    /\ UNCHANGED <<lockVars, OSIntNesting, TaskSchedReq, reqVars,
                   TCBRunning, TCBNext, pendsv, srqVars>>

\* TCBRunning = TCBNext, and the other task's context is restored.
PendSVStore ==
    /\ LevelRuns(0)
    /\ pc[0] = "svst"
    /\ TCBRunning' = svNext
    /\ Goto(0, "svend")
    /\ UNCHANGED <<lockVars, OSIntNesting, TaskSchedReq, reqVars,
                   TCBNext, pendsv, svNext, srqVars>>

\* Mutant of PendSVExit: the lock count of the outgoing task is kept.
PendSVExitKeepsLock ==
    /\ LevelRuns(0)
    /\ pc[0] = "svend"
    /\ thold' = 0
    /\ Leave(0, "idle")
    /\ UNCHANGED <<reg, OSSchedLock, OSIntNesting, TaskSchedReq, reqVars, taskVars, srqVars>>

\* exitPendSV: OSSchedLock = 0, whatever it was.
PendSVExit ==
    /\ LevelRuns(0)
    /\ pc[0] = "svend"
    /\ OSSchedLock' = 0
    /\ thold' = 0
    /\ Leave(0, "idle")
    /\ UNCHANGED <<reg, OSIntNesting, TaskSchedReq, reqVars, taskVars, srqVars>>

-----------------------------------------------------------------------------
(***************************************************************************)
(* CoOS_SysTick_Handler.  due stands for an expired head of the delay list *)
(* or of the timer list: TimeReq/TimeDispose and TimerReq/TmrDispose are   *)
(* the same statements twice.                                              *)
(***************************************************************************)
SysTickEnter ==
    /\ ~pendsv
    /\ \A l \in Levels : pc[l] = "idle"
    /\ entry' = [entry EXCEPT ![0] = OSSchedLock]
    /\ Goto(0, "lock")
    /\ UNCHANGED <<reg, thold, OSSchedLock, OSIntNesting, TaskSchedReq, reqVars,
                   taskVars, srqVars>>

\* Mutant of Tick: an expired head is reported only by the tick at which it
\* expires.
TickReportsOnce ==
    /\ LevelRuns(0)
    /\ pc[0] = "tick"
    /\ \E expires \in {FALSE, ~due} :
         IF expires /\ OSSchedLock > 1
         THEN due' = TRUE /\ IsrReq' = TRUE /\ TimeReq' = TRUE /\ Goto(0, "ticksched")
         ELSE /\ due' = (due \/ expires)
              /\ Goto(0, IF expires THEN "dispose" ELSE "ticksched")
              /\ UNCHANGED <<IsrReq, TimeReq>>
    /\ UNCHANGED <<lockVars, OSIntNesting, TaskSchedReq, taskVars, srqVars>>

\* The head of the list is counted down; when it has expired, isr_TimeDispose
\* disposes of it or leaves a request if the scheduler was locked.
\* An expired head that was left alone expires again at the next tick.
Tick ==
    /\ LevelRuns(0)
    /\ pc[0] = "tick"
    /\ \E expires \in {due, TRUE} :
         IF expires /\ OSSchedLock > 1
         THEN due' = TRUE /\ IsrReq' = TRUE /\ TimeReq' = TRUE /\ Goto(0, "ticksched")
         ELSE /\ due' = expires
              /\ Goto(0, IF expires THEN "dispose" ELSE "ticksched")
              /\ UNCHANGED <<IsrReq, TimeReq>>
    /\ UNCHANGED <<lockVars, OSIntNesting, TaskSchedReq, taskVars, srqVars>>

\* TimeDispose() called straight from the tick.
TickDispose ==
    /\ LevelRuns(0)
    /\ pc[0] = "dispose"
    /\ due' = FALSE
    /\ TaskSchedReq' \in {TaskSchedReq, TRUE}
    /\ Goto(0, "ticksched")
    /\ UNCHANGED <<lockVars, OSIntNesting, IsrReq, TimeReq, taskVars, srqVars>>

\* TaskSchedReq = Co_TRUE, then OsSchedUnlock()
TickSched ==
    /\ LevelRuns(0)
    /\ pc[0] = "ticksched"
    /\ TaskSchedReq' = TRUE
    /\ Goto(0, "unlock")
    /\ UNCHANGED <<lockVars, OSIntNesting, reqVars, taskVars, srqVars>>

-----------------------------------------------------------------------------
(***************************************************************************)
(* User interrupts: CoEnterISR, any number of isr_Post calls, CoExitISR.   *)
(***************************************************************************)
CoEnterISR(l) ==
    /\ \A m \in Levels : m >= l => pc[m] = "idle"
    /\ entry' = [entry EXCEPT ![l] = OSSchedLock]
    /\ OSIntNesting' = OSIntNesting + 1
    /\ Goto(l, "isr")
    /\ UNCHANGED <<reg, thold, OSSchedLock, TaskSchedReq, reqVars, taskVars, srqVars>>

\* isr_PostSem, isr_PostMail, isr_PostQueueMail, isr_SetFlag: queue the
\* request if the scheduler is locked, post it directly otherwise.
IsrPost(l) ==
    /\ LevelRuns(l)
    /\ pc[l] = "isr"
    /\ \E r \in Req : arg' = [arg EXCEPT ![l] = r]
    /\ Goto(l, IF OSSchedLock > 0 THEN "ins" ELSE "lock")
    /\ UNCHANGED <<lockVars, OSIntNesting, TaskSchedReq, reqVars, taskVars,
                   cnt, head, cell, slot, served>>

\* Mutant of InsertTest: off by one in the test for a full queue.
InsertTestOffByOne(l) ==
    /\ LevelRuns(l)
    /\ pc[l] = "ins"
    /\ IF cnt > MaxReq
       THEN Goto(l, "isr") /\ UNCHANGED <<cnt, slot>>
       ELSE /\ cnt' = cnt + 1
            /\ slot' = [slot EXCEPT ![l] = cnt]
            /\ Goto(l, "insidx")
    /\ UNCHANGED <<lockVars, OSIntNesting, TaskSchedReq, reqVars, taskVars,
                   head, cell, arg, served>>

\* InsertInSRQ with interrupts off: refuse when full (E_SEV_REQ_FULL), else
\* Inc8(&ServiceReq.cnt), which switches interrupts on again.
InsertTest(l) ==
    /\ LevelRuns(l)
    /\ pc[l] = "ins"
    /\ IF cnt >= MaxReq
       THEN Goto(l, "isr") /\ UNCHANGED <<cnt, slot>>
       ELSE /\ cnt' = cnt + 1
            /\ slot' = [slot EXCEPT ![l] = cnt]
            /\ Goto(l, "insidx")
    /\ UNCHANGED <<lockVars, OSIntNesting, TaskSchedReq, reqVars, taskVars,
                   head, cell, arg, served>>

\* Mutant of InsertIndex: ServiceReq.cnt is read again instead of the value
\* Inc8 returned.
InsertIndexRereads(l) ==
    /\ LevelRuns(l)
    /\ pc[l] = "insidx"
    /\ IsrReq' = TRUE
    /\ slot' = [slot EXCEPT ![l] = (cnt - 1 + head) % MaxReq]
    /\ Goto(l, "inswr")
    /\ UNCHANGED <<lockVars, OSIntNesting, TaskSchedReq, TimeReq, due, taskVars,
                   cnt, head, cell, arg, served>>

\* heed = ServiceReq.head; IsrReq = Co_TRUE; the cell index
InsertIndex(l) ==
    /\ LevelRuns(l)
    /\ pc[l] = "insidx"
    /\ IsrReq' = TRUE
    /\ slot' = [slot EXCEPT ![l] = (slot[l] + head) % MaxReq]
    /\ Goto(l, "inswr")
    /\ UNCHANGED <<lockVars, OSIntNesting, TaskSchedReq, TimeReq, due, taskVars,
                   cnt, head, cell, arg, served>>

InsertWrite(l) ==
    /\ LevelRuns(l)
    /\ pc[l] = "inswr"
    /\ cell' = [cell EXCEPT ![slot[l]] = arg[l]]
    /\ slot' = [slot EXCEPT ![l] = 0]
    /\ Goto(l, "isr")
    /\ UNCHANGED <<lockVars, OSIntNesting, TaskSchedReq, reqVars, taskVars,
                   cnt, head, arg, served>>

\* CoExitISR: Dec8(&OSIntNesting) ...
CoExitISR(l) ==
    /\ LevelRuns(l)
    /\ pc[l] = "isr"
    /\ OSIntNesting' = OSIntNesting - 1
    /\ Goto(l, "xtest")
    /\ UNCHANGED <<lockVars, TaskSchedReq, reqVars, taskVars, srqVars>>

\* ... if(OSIntNesting == 0) if(TaskSchedReq == Co_TRUE) ...
ExitTest(l) ==
    /\ LevelRuns(l)
    /\ pc[l] = "xtest"
    /\ Leave(l, IF OSIntNesting = 0 /\ TaskSchedReq THEN "xlock" ELSE "idle")
    /\ UNCHANGED <<reg, thold, OSSchedLock, OSIntNesting, TaskSchedReq, reqVars, taskVars, srqVars>>

\* ... OSSchedLock++; Schedule(); OSSchedLock--.
ExitLoad(l) ==
    /\ LevelRuns(l)
    /\ pc[l] \in {"xlock", "xdecld"}
    /\ reg' = [reg EXCEPT ![l] = OSSchedLock]
    /\ Goto(l, IF pc[l] = "xlock" THEN "xlockst" ELSE "xdec")
    /\ UNCHANGED <<entry, thold, OSSchedLock, OSIntNesting, TaskSchedReq,
                   reqVars, taskVars, srqVars>>

ExitStore(l) ==
    /\ LevelRuns(l)
    /\ pc[l] = "xlockst"
    /\ OSSchedLock' = reg[l] + 1
    /\ DropReg(l)
    /\ Goto(l, "xsched")
    /\ UNCHANGED <<entry, thold, OSIntNesting, TaskSchedReq,
                   reqVars, taskVars, srqVars>>

-----------------------------------------------------------------------------
\* After CoStartOS: one task runs user code, the others are about to start.
Init ==
    /\ pc = [c \in Ctx |-> IF c \in Task THEN "user" ELSE "idle"]
    /\ reg = [c \in Ctx |-> 0]
    /\ entry = [l \in Levels |-> 0]
    /\ thold = 0
    /\ OSSchedLock = 0
    /\ OSIntNesting = 0
    /\ TaskSchedReq \in BOOLEAN
    /\ IsrReq = FALSE
    /\ TimeReq = FALSE
    /\ due = FALSE
    /\ TCBRunning \in Task
    /\ TCBNext = TCBRunning
    /\ pendsv = FALSE
    /\ svNext = TCBRunning
    /\ cnt = 0
    /\ head = 0
    /\ \E r \in Req : /\ cell = [i \in 0 .. MaxReq - 1 |-> r]
                      /\ arg = [l \in Levels |-> r]
                      /\ served = r
    /\ slot = [l \in Levels |-> 0]

\* OsSchedUnlock and RespondSRQ in context c.
UnlockStep(c) ==
    \/ UnlockTest(c) \/ LockDec(c) \/ IsrReqTest(c) \/ TimeDispose(c)
    \/ TimeReqClear(c) \/ PopSRQ(c) \/ Serve(c) \/ PopEnd(c) \/ IsrReqClear(c)
    \/ SchedReqTest(c) \/ SchedTest(c) \/ Switch(c) \/ Release(c)

LockStep(c) == LockLoad(c) \/ LockStore(c) \/ KernelOp(c)

PendSVStep == PendSVLoad \/ PendSVStore \/ PendSVExit

SysTickStep == Tick \/ TickDispose \/ TickSched

IsrStep(l) ==
    \/ IsrPost(l) \/ InsertTest(l) \/ InsertIndex(l) \/ InsertWrite(l)
    \/ CoExitISR(l) \/ ExitTest(l) \/ ExitLoad(l) \/ ExitStore(l)

Next ==
    \/ \E c \in Ctx : LockStep(c) \/ UnlockStep(c)
    \/ \E t \in Task : CoSchedUnlock(t)
    \/ PendSVEnter \/ PendSVStep
    \/ SysTickEnter \/ SysTickStep
    \/ \E l \in IsrLevels : CoEnterISR(l) \/ IsrStep(l)

Spec == Init /\ [][Next]_vars

-----------------------------------------------------------------------------
(***************************************************************************)
(* Fairness.  Exceptions are not continuous: whatever is ready to run      *)
(* again and again (task code between interrupts, a lower level between    *)
(* higher ones, the next tick) does run; an ISR returns; a task that       *)
(* called CoSchedLock calls CoSchedUnlock.  Nothing makes a task enter a   *)
(* kernel operation or an interrupt arrive.                                *)
(***************************************************************************)
Level0Step == \/ PendSVStep \/ SysTickStep
              \/ LockStep(0) \/ UnlockStep(0)

Fairness ==
    /\ SF_vars(\E t \in Task : LockStore(t) \/ KernelOp(t) \/ UnlockStep(t))
    /\ SF_vars(\E t \in Task : CoSchedUnlock(t))
    /\ SF_vars(PendSVEnter)
    /\ SF_vars(SysTickEnter)
    /\ SF_vars(Level0Step)
    /\ \A l \in IsrLevels : /\ SF_vars(CoExitISR(l))
                            /\ SF_vars(LockStep(l) \/ UnlockStep(l) \/ IsrStep(l))

FairSpec == Spec /\ Fairness

-----------------------------------------------------------------------------
UnlockLabels == {"unlock", "dec", "isrq", "time", "timeclr", "loop", "serve",
                 "srqend", "schedreq", "sched", "switch", "release"}
TaskLabels == {"user", "lockst", "crit"} \cup UnlockLabels
SvLabels   == {"sv", "svst", "svend"}
TickLabels == {"idle", "lock", "lockst", "tick", "dispose", "ticksched"} \cup UnlockLabels
IsrLabels  == {"idle", "isr", "lock", "lockst", "crit", "ins", "insidx", "inswr",
               "xtest", "xlock", "xlockst", "xsched", "xswitch", "xdecld", "xdec"}
              \cup UnlockLabels

\* Type invariant: the lock count never goes below zero, a task never owns
\* more than it may nest, the request count stays within the ring, and every
\* context is at a label of its own code.
TypeOK ==
    /\ pc \in [Ctx -> TaskLabels \cup SvLabels \cup TickLabels \cup IsrLabels]
    /\ \A t \in Task : pc[t] \in TaskLabels
    /\ pc[0] \in TickLabels \cup SvLabels
    /\ \A l \in IsrLevels : pc[l] \in IsrLabels
    /\ reg \in [Ctx -> Int]
    /\ entry \in [Levels -> Int]
    /\ thold \in 0 .. MaxNest
    /\ OSSchedLock \in Nat
    /\ OSIntNesting \in Int
    /\ TaskSchedReq \in BOOLEAN /\ IsrReq \in BOOLEAN /\ TimeReq \in BOOLEAN
    /\ due \in BOOLEAN /\ pendsv \in BOOLEAN
    /\ TCBRunning \in Task /\ TCBNext \in Task /\ svNext \in Task
    /\ cnt \in 0 .. MaxReq
    /\ head \in 0 .. MaxReq - 1
    /\ cell \in [0 .. MaxReq - 1 -> Req]
    /\ slot \in [Levels -> 0 .. MaxReq - 1]
    /\ arg \in [Levels -> Req]
    /\ served \in Req

\* A context at one of these labels reads and writes the ready list, the
\* delay list, the timer list or a wait list.
Touching(c) == pc[c] \in {"crit", "time", "serve", "switch", "xswitch", "dispose"}

\* OSSchedLock is a lock although it is neither tested-and-set nor counted
\* atomically: no two contexts (tasks, tick, nested interrupts) are ever
\* inside the kernel lists together, PendSV's OSSchedLock = 0 included.
KernelExclusive == \A c, d \in Ctx : c # d /\ Touching(c) => ~Touching(d)

\* When task code runs, OSSchedLock is exactly what that task has taken: no
\* interrupt or context switch leaves the scheduler locked or unlocks it.
LockBalanced ==
    (\A l \in Levels : pc[l] = "idle") /\ ~pendsv => OSSchedLock = thold

\* Schedule refuses to run while TCBRunning differs from TCBNext, so a switch
\* that PendSV lost would stop scheduling for good: it is never lost.
SwitchDelivered ==
    TCBRunning # TCBNext => pendsv \/ pc[0] \in {"sv", "svst"}

\* A queued request is never invisible: IsrReq is up whenever the queue is
\* not empty, unless the ISR that queued it is still inside InsertInSRQ.
RequestVisible == cnt > 0 => IsrReq \/ \E l \in IsrLevels : pc[l] = "insidx"

\* CoExitISR must not schedule from inside another interrupt: a switch is
\* decided at an ISR level only when every lower user interrupt has ended.
SwitchFromOutermost ==
    \A l \in IsrLevels : pc[l] \in {"xswitch", "switch"} =>
        \A m \in IsrLevels : m < l => pc[m] \in {"idle", "xtest", "xlock", "xlockst"}

\* The request at the head of the service queue is eventually served, though
\* RespondSRQ runs only when some context unlocks from 1.
RequestServed == \A n \in 0 .. MaxReq - 1 : (cnt > 0 /\ head = n) ~> (head # n)

\* An expired delay or timer is eventually disposed of, although TimeReq can
\* be cleared after a tick has raised it anew and IsrReq can be cleared while
\* TimeReq is up: the next tick repeats the request.  Premise: interrupts do
\* not keep a context inside RespondSRQ's while loop for ever.
ExpiryServed == []<>(\A c \in Ctx : pc[c] \notin {"loop", "serve"}) => (due ~> ~due)

-----------------------------------------------------------------------------
\* The ISR, if any, that has taken place i of the queue (0 is the oldest) and
\* has not written its cell yet.
Writers(i) == {l \in IsrLevels : \/ pc[l] = "insidx" /\ slot[l] = i
                                 \/ pc[l] = "inswr" /\ slot[l] = (head + i) % MaxReq}

\* The abstract queue: the cells from head on, with the request of an ISR that
\* is still inside InsertInSRQ at the place it has taken.
AbsQueue == [i \in 1 .. cnt |-> IF Writers(i - 1) = {} THEN cell[(head + i - 1) % MaxReq]
                                ELSE arg[CHOOSE l \in Writers(i - 1) : TRUE]]

AbstractQueue == INSTANCE ServiceQueue WITH queue <- AbsQueue

\* ServiceReq with InsertInSRQ interrupted half way and RespondSRQ running in
\* tasks, SysTick and ISRs implements the bounded FIFO queue: no request is
\* lost, duplicated, reordered or read before it is written.
ImplementsServiceQueue == AbstractQueue!Spec
=============================================================================
