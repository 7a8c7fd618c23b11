--------------------------- MODULE CoreLockProofs ---------------------------
(***************************************************************************)
(* Proofs about CoreLock, for any set of tasks and any number of interrupt *)
(* priorities, nesting depths and queue cells: the lock excludes and is    *)
(* balanced, no switch and no request is lost, interrupts are counted      *)
(* exactly, and the ring of requests implements a queue, with InsertInSRQ  *)
(* interrupted anywhere.                                                   *)
(***************************************************************************)
EXTENDS CoreLock, FiniteSets, Sequences, TLAPS, FiniteSetTheorems, SequenceTheorems

Labels == TaskLabels \cup SvLabels \cup TickLabels \cup IsrLabels

(***************************************************************************)
(* Part 1.  What each variable ranges over, before anything is known of    *)
(* the size of the lock count.                                             *)
(***************************************************************************)
LabelsOf(c) == IF c \in Task THEN TaskLabels
               ELSE IF c = 0 THEN TickLabels \cup SvLabels ELSE IsrLabels

PcShape ==
    /\ pc \in [Ctx -> Labels]
    /\ \A c \in Ctx : pc[c] \in LabelsOf(c)

LockShape ==
    /\ reg \in [Ctx -> Int]
    /\ entry \in [Levels -> Int]
    /\ thold \in Int
    /\ OSSchedLock \in Int
    /\ OSIntNesting \in Int

FlagShape ==
    /\ TaskSchedReq \in BOOLEAN /\ IsrReq \in BOOLEAN /\ TimeReq \in BOOLEAN
    /\ due \in BOOLEAN /\ pendsv \in BOOLEAN
    /\ TCBRunning \in Task /\ TCBNext \in Task /\ svNext \in Task

SrqShape ==
    /\ cnt \in 0 .. MaxReq
    /\ head \in 0 .. MaxReq - 1
    /\ cell \in [0 .. MaxReq - 1 -> Req]
    /\ slot \in [Levels -> 0 .. MaxReq - 1]
    /\ arg \in [Levels -> Req]
    /\ served \in Req

Shape == PcShape /\ LockShape /\ FlagShape /\ SrqShape

\* A remainder is a cell index (the ring arithmetic of serviceReq.c).
LEMMA ModRange ==
    ASSUME NEW a \in Nat
    PROVE  a % MaxReq \in 0 .. MaxReq - 1
BY CoreLockAssumption

\* Contexts are tasks or levels, never both.
LEMMA CtxSplit ==
    /\ 0 \in Levels /\ 0 \notin Task
    /\ \A l \in IsrLevels : l \in Levels /\ l > 0 /\ l \notin Task
    /\ \A l \in Levels : l = 0 \/ l \in IsrLevels
    /\ \A t \in Task : t \notin Levels /\ t \notin IsrLevels
    /\ Ctx = Task \cup {0} \cup IsrLevels
BY CoreLockAssumption DEF Ctx, Levels, IsrLevels

\* A context only ever goes to a label of its own code.
LEMMA GotoShape ==
    ASSUME PcShape, NEW c \in Ctx, NEW x \in LabelsOf(c), Goto(c, x)
    PROVE  PcShape'
<1>1. x \in Labels
  BY DEF LabelsOf, Labels
<1>2. \A d \in Ctx : pc'[d] = IF d = c THEN x ELSE pc[d]
  BY DEF PcShape, Goto
<1> QED BY <1>1, <1>2 DEF PcShape, Goto, LabelsOf

\* The kernel starts in a state of this shape (CoInitOS and CoStartOS).
LEMMA ShapeInit == Init => Shape
<1> SUFFICES ASSUME Init PROVE Shape
  OBVIOUS
<1> USE CoreLockAssumption, CtxSplit
<1>1. PICK r \in Req : /\ cell = [i \in 0 .. MaxReq - 1 |-> r]
                       /\ arg = [l \in Levels |-> r]
                       /\ served = r
  BY DEF Init
<1>2. PcShape
  BY DEF Init, PcShape, LabelsOf, Labels, TaskLabels, TickLabels, IsrLabels
<1>3. LockShape
  BY DEF Init, LockShape
<1>4. cell \in [0 .. MaxReq - 1 -> Req] /\ arg \in [Levels -> Req] /\ served \in Req
  BY <1>1
<1>5. slot \in [Levels -> 0 .. MaxReq - 1] /\ cnt \in 0 .. MaxReq /\ head \in 0 .. MaxReq - 1
  BY DEF Init
<1>6. FlagShape
  BY DEF Init, FlagShape
<1> QED BY <1>2, <1>3, <1>4, <1>5, <1>6 DEF SrqShape, Shape

\* Taking the lock and the work under it keep the shape.
LEMMA ShapeLock ==
    ASSUME Shape, NEW c \in Ctx, LockStep(c)
    PROVE  Shape'
<1> USE CoreLockAssumption, CtxSplit
        DEF lockVars, reqVars, taskVars, srqVars, Shape
<1> USE DEF LabelsOf, TaskLabels, TickLabels, SvLabels, IsrLabels, UnlockLabels
<1>0. pc[c] \in LabelsOf(c)
  BY DEF PcShape
<1> USE <1>0
<1>1. CASE LockLoad(c)
  <2>1. PcShape'
    BY <1>1, GotoShape DEF LockLoad
  <2>2. LockShape'
    BY <1>1 DEF LockLoad, LockShape
  <2>3. FlagShape'
    BY <1>1 DEF LockLoad, FlagShape
  <2>4. SrqShape'
    BY <1>1 DEF LockLoad, SrqShape
  <2> QED BY <2>1, <2>2, <2>3, <2>4
<1>2. CASE LockStore(c)
  <2>1. PcShape'
    BY <1>2, GotoShape DEF LockStore
  <2>2. LockShape'
    BY <1>2 DEF LockStore, LockShape, TaskHolds, DropReg
  <2>3. FlagShape'
    BY <1>2 DEF LockStore, FlagShape
  <2>4. SrqShape'
    BY <1>2 DEF LockStore, SrqShape
  <2> QED BY <2>1, <2>2, <2>3, <2>4
<1>3. CASE KernelOp(c)
  <2>1. PcShape'
    BY <1>3, GotoShape DEF KernelOp
  <2>2. LockShape'
    BY <1>3 DEF KernelOp, LockShape
  <2>3. FlagShape'
    BY <1>3 DEF KernelOp, FlagShape
  <2>4. SrqShape'
    BY <1>3 DEF KernelOp, SrqShape
  <2> QED BY <2>1, <2>2, <2>3, <2>4
<1>q. QED
  BY <1>1, <1>2, <1>3 DEF LockStep

\* The steps of OsSchedUnlock, RespondSRQ included, keep the shape.
LEMMA ShapeUnlock ==
    ASSUME Shape, NEW c \in Ctx, UnlockStep(c)
    PROVE  Shape'
<1> USE CoreLockAssumption, CtxSplit
        DEF lockVars, reqVars, taskVars, srqVars, Shape
<1> USE DEF LabelsOf, TaskLabels, TickLabels, SvLabels, IsrLabels, UnlockLabels
<1>0. pc[c] \in LabelsOf(c)
  BY DEF PcShape
<1> USE <1>0
<1>1. CASE UnlockTest(c)
  <2>1. PcShape'
    BY <1>1, GotoShape DEF UnlockTest
  <2>2. LockShape'
    BY <1>1 DEF UnlockTest, LockShape
  <2>3. FlagShape'
    BY <1>1 DEF UnlockTest, FlagShape
  <2>4. SrqShape'
    BY <1>1 DEF UnlockTest, SrqShape
  <2> QED BY <2>1, <2>2, <2>3, <2>4
<1>2. CASE LockDec(c)
  <2>1. PcShape'
    BY <1>2, GotoShape DEF LockDec, Leave, Return
  <2>2. LockShape'
    <3>1. entry' = entry \/ entry' = [entry EXCEPT ![c] = 0]
      BY <1>2 DEF LockDec, Leave
    <3>2. entry' \in [Levels -> Int]
      BY <3>1 DEF LockShape
    <3> QED BY <1>2, <3>2 DEF LockDec, LockShape, TaskHolds, DropReg
  <2>3. FlagShape'
    BY <1>2 DEF LockDec, FlagShape
  <2>4. SrqShape'
    BY <1>2 DEF LockDec, SrqShape
  <2> QED BY <2>1, <2>2, <2>3, <2>4
<1>3. CASE IsrReqTest(c)
  <2>1. PcShape'
    BY <1>3, GotoShape DEF IsrReqTest
  <2>2. LockShape'
    BY <1>3 DEF IsrReqTest, LockShape
  <2>3. FlagShape'
    BY <1>3 DEF IsrReqTest, FlagShape
  <2>4. SrqShape'
    BY <1>3 DEF IsrReqTest, SrqShape
  <2> QED BY <2>1, <2>2, <2>3, <2>4
<1>4. CASE TimeDispose(c)
  <2>1. PcShape'
    BY <1>4, GotoShape DEF TimeDispose
  <2>2. LockShape'
    BY <1>4 DEF TimeDispose, LockShape
  <2>3. FlagShape'
    BY <1>4 DEF TimeDispose, FlagShape
  <2>4. SrqShape'
    BY <1>4 DEF TimeDispose, SrqShape
  <2> QED BY <2>1, <2>2, <2>3, <2>4
<1>5. CASE TimeReqClear(c)
  <2>1. PcShape'
    BY <1>5, GotoShape DEF TimeReqClear
  <2>2. LockShape'
    BY <1>5 DEF TimeReqClear, LockShape
  <2>3. FlagShape'
    BY <1>5 DEF TimeReqClear, FlagShape
  <2>4. SrqShape'
    BY <1>5 DEF TimeReqClear, SrqShape
  <2> QED BY <2>1, <2>2, <2>3, <2>4
<1>6. CASE PopSRQ(c)
  <2>1. PcShape'
    BY <1>6, GotoShape DEF PopSRQ
  <2>2. LockShape'
    BY <1>6 DEF PopSRQ, LockShape
  <2>3. FlagShape'
    BY <1>6 DEF PopSRQ, FlagShape
  <2>4. SrqShape'
    BY <1>6 DEF PopSRQ, SrqShape
  <2> QED BY <2>1, <2>2, <2>3, <2>4
<1>7. CASE Serve(c)
  <2>1. PcShape'
    BY <1>7, GotoShape DEF Serve
  <2>2. LockShape'
    BY <1>7 DEF Serve, LockShape
  <2>3. FlagShape'
    BY <1>7 DEF Serve, FlagShape
  <2>4. SrqShape'
    BY <1>7 DEF Serve, SrqShape
  <2> QED BY <2>1, <2>2, <2>3, <2>4
<1>8. CASE PopEnd(c)
  <2>1. PcShape'
    BY <1>8, GotoShape DEF PopEnd
  <2>2. LockShape'
    BY <1>8 DEF PopEnd, LockShape
  <2>3. FlagShape'
    BY <1>8 DEF PopEnd, FlagShape
  <2>4. SrqShape'
    BY <1>8 DEF PopEnd, SrqShape
  <2> QED BY <2>1, <2>2, <2>3, <2>4
<1>9. CASE IsrReqClear(c)
  <2>1. PcShape'
    BY <1>9, GotoShape DEF IsrReqClear
  <2>2. LockShape'
    BY <1>9 DEF IsrReqClear, LockShape
  <2>3. FlagShape'
    BY <1>9 DEF IsrReqClear, FlagShape
  <2>4. SrqShape'
    BY <1>9 DEF IsrReqClear, SrqShape
  <2> QED BY <2>1, <2>2, <2>3, <2>4
<1>10. CASE SchedReqTest(c)
  <2>1. PcShape'
    BY <1>10, GotoShape DEF SchedReqTest
  <2>2. LockShape'
    BY <1>10 DEF SchedReqTest, LockShape
  <2>3. FlagShape'
    BY <1>10 DEF SchedReqTest, FlagShape
  <2>4. SrqShape'
    BY <1>10 DEF SchedReqTest, SrqShape
  <2> QED BY <2>1, <2>2, <2>3, <2>4
<1>11. CASE SchedTest(c)
  <2>1. PcShape'
    BY <1>11, GotoShape DEF SchedTest, AfterSchedule
  <2>2. LockShape'
    BY <1>11 DEF SchedTest, LockShape
  <2>3. FlagShape'
    BY <1>11 DEF SchedTest, FlagShape
  <2>4. SrqShape'
    BY <1>11 DEF SchedTest, SrqShape
  <2> QED BY <2>1, <2>2, <2>3, <2>4
<1>12. CASE Switch(c)
  <2>1. PcShape'
    BY <1>12, GotoShape DEF Switch, AfterSchedule
  <2>2. LockShape'
    BY <1>12 DEF Switch, LockShape
  <2>3. FlagShape'
    BY <1>12 DEF Switch, FlagShape
  <2>4. SrqShape'
    BY <1>12 DEF Switch, SrqShape
  <2> QED BY <2>1, <2>2, <2>3, <2>4
<1>13. CASE Release(c)
  <2>1. PcShape'
    BY <1>13, GotoShape DEF Release, Leave, Return
  <2>2. LockShape'
    <3>1. entry' = entry \/ entry' = [entry EXCEPT ![c] = 0]
      BY <1>13 DEF Release, Leave
    <3>2. entry' \in [Levels -> Int]
      BY <3>1 DEF LockShape
    <3> QED BY <1>13, <3>2 DEF Release, LockShape, TaskHolds
  <2>3. FlagShape'
    BY <1>13 DEF Release, FlagShape
  <2>4. SrqShape'
    BY <1>13 DEF Release, SrqShape
  <2> QED BY <2>1, <2>2, <2>3, <2>4
<1>q. QED
  BY <1>1, <1>2, <1>3, <1>4, <1>5, <1>6, <1>7, <1>8, <1>9, <1>10, <1>11, <1>12, <1>13 DEF UnlockStep

\* SysTick and PendSV keep the shape.
LEMMA ShapeLevel0 ==
    ASSUME Shape, PendSVEnter \/ PendSVStep \/ SysTickEnter \/ SysTickStep
    PROVE  Shape'
<1> USE CoreLockAssumption, CtxSplit
        DEF lockVars, reqVars, taskVars, srqVars, Shape
<1> USE DEF LabelsOf, TaskLabels, TickLabels, SvLabels, IsrLabels, UnlockLabels
<1>0. 0 \in Ctx
  OBVIOUS
<1> USE <1>0
<1>1. CASE PendSVEnter
  <2>1. PcShape'
    BY <1>1, GotoShape DEF PendSVEnter
  <2>2. LockShape'
    BY <1>1 DEF PendSVEnter, LockShape
  <2>3. FlagShape'
    BY <1>1 DEF PendSVEnter, FlagShape
  <2>4. SrqShape'
    BY <1>1 DEF PendSVEnter, SrqShape
  <2> QED BY <2>1, <2>2, <2>3, <2>4
<1>2. CASE PendSVLoad
  <2>1. PcShape'
    BY <1>2, GotoShape DEF PendSVLoad
  <2>2. LockShape'
    BY <1>2 DEF PendSVLoad, LockShape
  <2>3. FlagShape'
    BY <1>2 DEF PendSVLoad, FlagShape
  <2>4. SrqShape'
    BY <1>2 DEF PendSVLoad, SrqShape
  <2> QED BY <2>1, <2>2, <2>3, <2>4
<1>3. CASE PendSVStore
  <2>1. PcShape'
    BY <1>3, GotoShape DEF PendSVStore
  <2>2. LockShape'
    BY <1>3 DEF PendSVStore, LockShape
  <2>3. FlagShape'
    BY <1>3 DEF PendSVStore, FlagShape
  <2>4. SrqShape'
    BY <1>3 DEF PendSVStore, SrqShape
  <2> QED BY <2>1, <2>2, <2>3, <2>4
<1>4. CASE PendSVExit
  <2>1. PcShape'
    BY <1>4, GotoShape DEF PendSVExit, Leave
  <2>2. LockShape'
    BY <1>4 DEF PendSVExit, LockShape, Leave
  <2>3. FlagShape'
    BY <1>4 DEF PendSVExit, FlagShape
  <2>4. SrqShape'
    BY <1>4 DEF PendSVExit, SrqShape
  <2> QED BY <2>1, <2>2, <2>3, <2>4
<1>5. CASE SysTickEnter
  <2>1. PcShape'
    BY <1>5, GotoShape DEF SysTickEnter
  <2>2. LockShape'
    BY <1>5 DEF SysTickEnter, LockShape
  <2>3. FlagShape'
    BY <1>5 DEF SysTickEnter, FlagShape
  <2>4. SrqShape'
    BY <1>5 DEF SysTickEnter, SrqShape
  <2> QED BY <2>1, <2>2, <2>3, <2>4
<1>6. CASE Tick
  <2>1. PcShape'
    BY <1>6, GotoShape DEF Tick
  <2>2. LockShape'
    BY <1>6 DEF Tick, LockShape
  <2>3. FlagShape'
    BY <1>6 DEF Tick, FlagShape
  <2>4. SrqShape'
    BY <1>6 DEF Tick, SrqShape
  <2> QED BY <2>1, <2>2, <2>3, <2>4
<1>7. CASE TickDispose
  <2>1. PcShape'
    BY <1>7, GotoShape DEF TickDispose
  <2>2. LockShape'
    BY <1>7 DEF TickDispose, LockShape
  <2>3. FlagShape'
    BY <1>7 DEF TickDispose, FlagShape
  <2>4. SrqShape'
    BY <1>7 DEF TickDispose, SrqShape
  <2> QED BY <2>1, <2>2, <2>3, <2>4
<1>8. CASE TickSched
  <2>1. PcShape'
    BY <1>8, GotoShape DEF TickSched
  <2>2. LockShape'
    BY <1>8 DEF TickSched, LockShape
  <2>3. FlagShape'
    BY <1>8 DEF TickSched, FlagShape
  <2>4. SrqShape'
    BY <1>8 DEF TickSched, SrqShape
  <2> QED BY <2>1, <2>2, <2>3, <2>4
<1>q. QED
  BY <1>1, <1>2, <1>3, <1>4, <1>5, <1>6, <1>7, <1>8 DEF PendSVStep, SysTickStep

\* The steps of a user interrupt, InsertInSRQ included, keep the shape.
LEMMA ShapeIsr ==
    ASSUME Shape, NEW l \in IsrLevels, CoEnterISR(l) \/ IsrStep(l)
    PROVE  Shape'
<1> USE CoreLockAssumption, CtxSplit
        DEF lockVars, reqVars, taskVars, srqVars, Shape
<1> USE DEF LabelsOf, TaskLabels, TickLabels, SvLabels, IsrLabels, UnlockLabels
<1>0. l \in Ctx /\ l \in Levels /\ l \notin Task /\ l # 0
  OBVIOUS
<1> USE <1>0
<1>1. CASE CoEnterISR(l)
  <2>1. PcShape'
    BY <1>1, GotoShape DEF CoEnterISR
  <2>2. LockShape'
    BY <1>1 DEF CoEnterISR, LockShape
  <2>3. FlagShape'
    BY <1>1 DEF CoEnterISR, FlagShape
  <2>4. SrqShape'
    BY <1>1 DEF CoEnterISR, SrqShape
  <2> QED BY <2>1, <2>2, <2>3, <2>4
<1>2. CASE IsrPost(l)
  <2>1. PcShape'
    BY <1>2, GotoShape DEF IsrPost
  <2>2. LockShape'
    BY <1>2 DEF IsrPost, LockShape
  <2>3. FlagShape'
    BY <1>2 DEF IsrPost, FlagShape
  <2>4. SrqShape'
    BY <1>2 DEF IsrPost, SrqShape
  <2> QED BY <2>1, <2>2, <2>3, <2>4
<1>3. CASE InsertTest(l)
  <2>1. PcShape'
    BY <1>3, GotoShape DEF InsertTest
  <2>2. LockShape'
    BY <1>3 DEF InsertTest, LockShape
  <2>3. FlagShape'
    BY <1>3 DEF InsertTest, FlagShape
  <2>4. SrqShape'
    BY <1>3 DEF InsertTest, SrqShape
  <2> QED BY <2>1, <2>2, <2>3, <2>4
<1>4. CASE InsertIndex(l)
  <2>1. PcShape'
    BY <1>4, GotoShape DEF InsertIndex
  <2>2. LockShape'
    BY <1>4 DEF InsertIndex, LockShape
  <2>3. FlagShape'
    BY <1>4 DEF InsertIndex, FlagShape
  <2>4. SrqShape'
    BY <1>4 DEF InsertIndex, SrqShape
  <2> QED BY <2>1, <2>2, <2>3, <2>4
<1>5. CASE InsertWrite(l)
  <2>1. PcShape'
    BY <1>5, GotoShape DEF InsertWrite
  <2>2. LockShape'
    BY <1>5 DEF InsertWrite, LockShape
  <2>3. FlagShape'
    BY <1>5 DEF InsertWrite, FlagShape
  <2>4. SrqShape'
    BY <1>5 DEF InsertWrite, SrqShape
  <2> QED BY <2>1, <2>2, <2>3, <2>4
<1>6. CASE CoExitISR(l)
  <2>1. PcShape'
    BY <1>6, GotoShape DEF CoExitISR
  <2>2. LockShape'
    BY <1>6 DEF CoExitISR, LockShape
  <2>3. FlagShape'
    BY <1>6 DEF CoExitISR, FlagShape
  <2>4. SrqShape'
    BY <1>6 DEF CoExitISR, SrqShape
  <2> QED BY <2>1, <2>2, <2>3, <2>4
<1>7. CASE ExitTest(l)
  <2>1. PcShape'
    BY <1>7, GotoShape DEF ExitTest, Leave
  <2>2. LockShape'
    BY <1>7 DEF ExitTest, LockShape, Leave
  <2>3. FlagShape'
    BY <1>7 DEF ExitTest, FlagShape
  <2>4. SrqShape'
    BY <1>7 DEF ExitTest, SrqShape
  <2> QED BY <2>1, <2>2, <2>3, <2>4
<1>8. CASE ExitLoad(l)
  <2>1. PcShape'
    BY <1>8, GotoShape DEF ExitLoad
  <2>2. LockShape'
    BY <1>8 DEF ExitLoad, LockShape
  <2>3. FlagShape'
    BY <1>8 DEF ExitLoad, FlagShape
  <2>4. SrqShape'
    BY <1>8 DEF ExitLoad, SrqShape
  <2> QED BY <2>1, <2>2, <2>3, <2>4
<1>9. CASE ExitStore(l)
  <2>1. PcShape'
    BY <1>9, GotoShape DEF ExitStore
  <2>2. LockShape'
    BY <1>9 DEF ExitStore, LockShape, DropReg
  <2>3. FlagShape'
    BY <1>9 DEF ExitStore, FlagShape
  <2>4. SrqShape'
    BY <1>9 DEF ExitStore, SrqShape
  <2> QED BY <2>1, <2>2, <2>3, <2>4
<1>q. QED
  BY <1>1, <1>2, <1>3, <1>4, <1>5, <1>6, <1>7, <1>8, <1>9 DEF IsrStep

\* Every step keeps the shape.
LEMMA ShapeNext == Shape /\ [Next]_vars => Shape'
<1> SUFFICES ASSUME Shape, [Next]_vars PROVE Shape'
  OBVIOUS
<1>1. ASSUME NEW t \in Task, CoSchedUnlock(t)
      PROVE  Shape'
  <2>1. PcShape'
    BY <1>1, GotoShape, CtxSplit DEF CoSchedUnlock, Shape, LabelsOf, TaskLabels, UnlockLabels, Ctx
  <2> QED BY <1>1, <2>1 DEF CoSchedUnlock, Shape, LockShape, FlagShape, SrqShape,
                            lockVars, reqVars, taskVars, srqVars
<1>2. CASE UNCHANGED vars
  BY <1>2 DEF vars, Shape, PcShape, LockShape, FlagShape, SrqShape,
              reqVars, taskVars, srqVars, lockVars
<1>q. QED
  BY <1>1, <1>2, ShapeLock, ShapeUnlock, ShapeLevel0, ShapeIsr DEF Next

-----------------------------------------------------------------------------
(***************************************************************************)
(* Part 2.  The lock count.  Every active level owns one or nothing of     *)
(* OSSchedLock, and what it found on entry is what the contexts below it   *)
(* own: an interrupted ++ or -- therefore stores the right value.          *)
(***************************************************************************)
HoldLabels == {"crit", "tick", "dispose", "ticksched",
               "xsched", "xswitch", "xdecld", "xdec"} \cup UnlockLabels
HoldAt(x) == IF x \in HoldLabels THEN 1 ELSE 0
Hold(l) == HoldAt(pc[l])
Active(l) == pc[l] # "idle"

Chain ==
    /\ (\A l \in Levels : ~Active(l)) => OSSchedLock = thold
    /\ \A l \in Levels : LevelRuns(l) => OSSchedLock = entry[l] + Hold(l)
    /\ \A l \in Levels : Active(l) => /\ entry[l] >= thold
                                      /\ OSSchedLock >= entry[l] + Hold(l)
    /\ \A l \in Levels : Active(l) /\ (\A m \in Levels : m < l => ~Active(m))
                            => entry[l] = thold
    /\ \A l, m \in Levels :
         l < m /\ Active(l) /\ Active(m) =>
            /\ entry[m] >= entry[l] + Hold(l)
            /\ (\A k \in Levels : l < k /\ k < m => ~Active(k))
                  => entry[m] = entry[l] + Hold(l)

\* At these labels the level works alone: it found the scheduler unlocked.
AloneLabels == {"crit", "dispose", "xswitch", "isrq", "time", "timeclr", "loop",
                "serve", "srqend", "schedreq", "sched", "switch", "release"}

LocalAt(l) ==
    /\ pc[l] \in {"lockst", "xlockst"} => reg[l] = entry[l]
    /\ pc[l] \in {"dec", "xdec"} => reg[l] = entry[l] + 1
    /\ pc[l] \in AloneLabels => entry[l] = 0
    /\ l # 0 /\ pc[l] \in {"lock", "lockst"} => entry[l] = 0

LevelLocal == \A l \in Levels : LocalAt(l)

Switching == pendsv \/ pc[0] \in SvLabels

TaskLocal ==
    /\ thold \in 0 .. MaxNest
    /\ \A t \in Task :
        /\ pc[t] \in {"crit"} \cup (UnlockLabels \ {"release"}) =>
              t = TCBRunning /\ thold > 0 /\ ~Switching
        /\ pc[t] = "dec" => reg[t] = thold
        /\ pc[t] = "lockst" =>
              IF t = TCBRunning /\ ~Switching THEN reg[t] = thold /\ thold < MaxNest
              ELSE reg[t] = 0

SwitchInv ==
    /\ SwitchDelivered
    /\ pc[0] = "svst" => svNext = TCBNext /\ TCBRunning # TCBNext
    /\ \A c \in Ctx : pc[c] \in {"switch", "xswitch"} => TCBRunning = TCBNext

Inv == Shape /\ Chain /\ LevelLocal /\ TaskLocal /\ SwitchInv /\ RequestVisible

\* The three ways in which OSSchedLock and the labels of the levels change.
\* A running level moves on: the count is what it found plus what it owns.
Stay(c, x) == /\ LevelRuns(c) /\ x # "idle"
              /\ Goto(c, x)
              /\ OSSchedLock' = entry[c] + HoldAt(x)
              /\ entry' = entry /\ thold' = thold

\* A level is entered, owning nothing yet.
Enter(c, x) == /\ \A m \in Levels : m >= c => pc[m] = "idle"
               /\ x # "idle" /\ HoldAt(x) = 0
               /\ Goto(c, x)
               /\ entry' = [entry EXCEPT ![c] = OSSchedLock]
               /\ OSSchedLock' = OSSchedLock /\ thold' = thold

\* A running level returns and leaves the count as it found it.
Exit(c) == /\ LevelRuns(c)
           /\ Goto(c, "idle")
           /\ OSSchedLock' = entry[c]
           /\ entry' = [entry EXCEPT ![c] = 0] /\ thold' = thold

\* Goto moves one context and no other.
LEMMA PcAfter ==
    ASSUME Shape, NEW c \in Ctx, NEW x, Goto(c, x)
    PROVE  /\ pc'[c] = x
           /\ \A d \in Ctx : d # c => pc'[d] = pc[d]
BY DEF Shape, PcShape, Goto

\* A level that takes or gives the lock counts it itself.
LEMMA StayChain ==
    ASSUME Shape, Chain, NEW c \in Levels, NEW x, Stay(c, x)
    PROVE  Chain'
<1>1. /\ pc'[c] = x
      /\ \A l \in Levels : l # c => pc'[l] = pc[l]
  BY PcAfter DEF Stay, Ctx
<1>2. /\ \A l \in Levels : Active(l)' <=> Active(l)
      /\ \A l \in Levels : LevelRuns(l)' <=> LevelRuns(l)
      /\ \A l \in Levels : l > c => ~Active(l)
      /\ \A l \in Levels : l # c => Hold(l)' = Hold(l)
      /\ Hold(c)' = HoldAt(x)
      /\ Active(c)
  BY <1>1 DEF Stay, Active, LevelRuns, Hold, HoldAt
<1>3. /\ \A l \in Levels : entry[l] \in Int /\ l \in Int
      /\ HoldAt(x) \in {0, 1}
      /\ \A l \in Levels : Hold(l) \in {0, 1}
      /\ thold \in Int
  BY CoreLockAssumption DEF Levels, HoldAt, Hold, Shape, LockShape
<1>4. \A l \in Levels : LevelRuns(l) => l = c
  BY <1>2, <1>3 DEF LevelRuns, Active
<1> QED BY <1>2, <1>3, <1>4 DEF Chain, Stay

\* An interrupt that begins finds the count of the context it interrupts.
LEMMA EnterChain ==
    ASSUME Shape, Chain, NEW c \in Levels, NEW x, Enter(c, x)
    PROVE  Chain'
<1>1. /\ pc'[c] = x
      /\ \A l \in Levels : l # c => pc'[l] = pc[l]
  BY PcAfter DEF Enter, Ctx
<1>2. /\ \A l \in Levels : l # c => (Active(l)' <=> Active(l)) /\ Hold(l)' = Hold(l)
      /\ \A l \in Levels : l >= c => ~Active(l)
      /\ Active(c)' /\ Hold(c)' = 0
  BY <1>1 DEF Enter, Active, Hold, HoldAt
<1>3. /\ \A l \in Levels : entry[l] \in Int /\ l \in Int
      /\ \A l \in Levels : Hold(l) \in {0, 1}
      /\ thold \in Int /\ OSSchedLock \in Int
  BY CoreLockAssumption DEF Levels, HoldAt, Hold, Shape, LockShape
<1>4. /\ entry'[c] = OSSchedLock
      /\ \A l \in Levels : l # c => entry'[l] = entry[l]
  BY DEF Enter, Shape, LockShape
<1>5. \A l \in Levels : LevelRuns(l)' => l = c
  BY <1>1, <1>2, <1>3 DEF LevelRuns, Active
<1>6. \A l \in Levels : l < c /\ Active(l) /\ (\A k \in Levels : l < k /\ k < c => ~Active(k))
                           => LevelRuns(l)
  BY <1>2, <1>3 DEF LevelRuns, Active
<1>7. (\A m \in Levels : m < c => ~Active(m)) => OSSchedLock = thold
  BY <1>2, <1>3 DEF Chain
<1>8. \A l, m \in Levels :
         l < m /\ Active(l)' /\ Active(m)' =>
            /\ entry'[m] >= entry'[l] + Hold(l)'
            /\ (\A k \in Levels : l < k /\ k < m => ~Active(k)')
                  => entry'[m] = entry'[l] + Hold(l)'
  <2> SUFFICES ASSUME NEW l \in Levels, NEW m \in Levels, l < m, Active(l)', Active(m)'
               PROVE  /\ entry'[m] >= entry'[l] + Hold(l)'
                      /\ (\A k \in Levels : l < k /\ k < m => ~Active(k)')
                            => entry'[m] = entry'[l] + Hold(l)'
    OBVIOUS
  <2>1. l # c /\ m <= c
    BY <1>2, <1>3
  <2>2. CASE m = c
    BY <2>1, <2>2, <1>2, <1>3, <1>4, <1>6 DEF Chain
  <2>3. CASE m # c
    BY <2>1, <2>3, <1>2, <1>3, <1>4 DEF Chain
  <2> QED BY <2>2, <2>3
<1>9. \A l \in Levels : Active(l)' => entry'[l] >= thold /\ OSSchedLock >= entry'[l] + Hold(l)'
  <2>1. OSSchedLock >= thold
    BY <1>2, <1>3 DEF Chain
  <2> QED BY <2>1, <1>2, <1>3, <1>4 DEF Chain
<1>10. \A l \in Levels : Active(l)' /\ (\A m \in Levels : m < l => ~Active(m)') => entry'[l] = thold
  BY <1>2, <1>3, <1>4, <1>7 DEF Chain
<1> QED BY <1>2, <1>3, <1>4, <1>5, <1>8, <1>9, <1>10 DEF Chain, Enter

\* An interrupt that ends leaves the count as it found it.
LEMMA ExitChain ==
    ASSUME Shape, Chain, NEW c \in Levels, Exit(c)
    PROVE  Chain'
<1>1. /\ pc'[c] = "idle"
      /\ \A l \in Levels : l # c => pc'[l] = pc[l]
  BY PcAfter DEF Exit, Ctx
<1>2. /\ \A l \in Levels : l # c => (Active(l)' <=> Active(l)) /\ Hold(l)' = Hold(l)
      /\ \A l \in Levels : l > c => ~Active(l)
      /\ ~Active(c)' /\ Active(c)
  BY <1>1 DEF Exit, Active, Hold, HoldAt, LevelRuns
<1>3. /\ \A l \in Levels : entry[l] \in Int /\ l \in Int
      /\ \A l \in Levels : Hold(l) \in {0, 1}
      /\ thold \in Int /\ OSSchedLock \in Int
  BY CoreLockAssumption DEF Levels, HoldAt, Hold, Shape, LockShape
<1>4. \A l \in Levels : l # c => entry'[l] = entry[l]
  BY DEF Exit, Shape, LockShape
<1>5. \A l \in Levels : LevelRuns(l)' => /\ l < c /\ Active(l)
                                         /\ \A k \in Levels : l < k /\ k < c => ~Active(k)
  BY <1>1, <1>2, <1>3 DEF LevelRuns, Active
<1>6. \A l \in Levels : Active(l)' => l < c
  BY <1>2, <1>3
<1>7. (\A l \in Levels : ~Active(l)') => entry[c] = thold
  BY <1>2, <1>3 DEF Chain
<1>8. \A l \in Levels : LevelRuns(l)' => OSSchedLock' = entry'[l] + Hold(l)'
  BY <1>2, <1>3, <1>4, <1>5 DEF Chain, Exit
<1>9. \A l \in Levels : Active(l)' => entry'[l] >= thold /\ OSSchedLock' >= entry'[l] + Hold(l)'
  BY <1>2, <1>3, <1>4, <1>6 DEF Chain, Exit
<1>10. \A l \in Levels : Active(l)' /\ (\A m \in Levels : m < l => ~Active(m)') => entry'[l] = thold
  BY <1>2, <1>3, <1>4, <1>6 DEF Chain
<1>11. \A l, m \in Levels :
         l < m /\ Active(l)' /\ Active(m)' =>
            /\ entry'[m] >= entry'[l] + Hold(l)'
            /\ (\A k \in Levels : l < k /\ k < m => ~Active(k)')
                  => entry'[m] = entry'[l] + Hold(l)'
  BY <1>2, <1>3, <1>4, <1>6 DEF Chain
<1> QED BY <1>7, <1>8, <1>9, <1>10, <1>11 DEF Chain, Exit

\* While no level is active only the running task's share counts.
LEMMA TaskChain ==
    ASSUME Shape, \A l \in Levels : pc'[l] = "idle", OSSchedLock' = thold'
    PROVE  Chain'
BY DEF Chain, Active, LevelRuns

-----------------------------------------------------------------------------
(***************************************************************************)
(* Part 3.  Every step of a level is one of the three.                     *)
(***************************************************************************)
\* The running level knows OSSchedLock: its entry value and its own share.
LEMMA LevelRunsCount ==
    ASSUME Shape, Chain, NEW c \in Levels, LevelRuns(c)
    PROVE  /\ OSSchedLock = entry[c] + Hold(c)
           /\ entry[c] \in Int /\ OSSchedLock \in Int /\ thold \in Int
           /\ entry[c] >= thold
           /\ pc[c] \in HoldLabels => OSSchedLock = entry[c] + 1
           /\ pc[c] \notin HoldLabels => OSSchedLock = entry[c]
BY DEF Chain, Hold, HoldAt, Shape, LockShape, LevelRuns, Active

\* OsSchedLock at a level is a move within the level.
LEMMA LevelLockMoves ==
    ASSUME Shape, Chain, LevelLocal, NEW c \in Levels, LockStep(c)
    PROVE  \E x \in LabelsOf(c) : Stay(c, x)
<1> USE CtxSplit DEF LabelsOf, TickLabels, IsrLabels, UnlockLabels
<1>1. LevelRuns(c) /\ c \notin Task
  BY DEF LockStep, LockLoad, LockStore, KernelOp, Runs
<1>2. CASE LockLoad(c)
  BY <1>1, <1>2, LevelRunsCount DEF LockLoad, Stay, HoldAt, HoldLabels
<1>3. CASE LockStore(c)
  <2>1. reg[c] = entry[c] /\ entry[c] \in Int
    BY <1>3 DEF LockStore, LevelLocal, LocalAt, Shape, LockShape
  <2> QED BY <1>1, <1>3, <2>1 DEF LockStore, Stay, HoldAt, HoldLabels, TaskHolds
<1>4. CASE KernelOp(c)
  <2>1. c # 0
    BY <1>4 DEF KernelOp, Shape, PcShape, SvLabels
  <2> QED BY <1>1, <1>4, <2>1, LevelRunsCount DEF KernelOp, Stay, HoldAt, HoldLabels, lockVars
<1> QED BY <1>2, <1>3, <1>4 DEF LockStep

\* OsSchedUnlock at a level is a move within it, or ends the tick.
LEMMA LevelUnlockMoves ==
    ASSUME Shape, Chain, LevelLocal, NEW c \in Levels, UnlockStep(c)
    PROVE  Exit(c) \/ \E x \in LabelsOf(c) : Stay(c, x)
<1> USE CtxSplit DEF LabelsOf, TickLabels, IsrLabels, UnlockLabels
<1>1. LevelRuns(c) /\ c \notin Task
  BY DEF UnlockStep, UnlockTest, LockDec, IsrReqTest, TimeDispose, TimeReqClear, PopSRQ,
         Serve, PopEnd, IsrReqClear, SchedReqTest, SchedTest, Switch, Release, Runs
<1>2. /\ OSSchedLock = entry[c] + Hold(c)
      /\ entry[c] \in Int /\ OSSchedLock \in Int
      /\ pc[c] \in LabelsOf(c)
  BY <1>1, LevelRunsCount DEF Shape, PcShape, Ctx
<1> USE DEF Stay, HoldAt, Hold, HoldLabels
<1>3. CASE UnlockTest(c)
  BY <1>1, <1>2, <1>3 DEF UnlockTest
<1>4. CASE LockDec(c)
  <2>1. reg[c] = entry[c] + 1
    BY <1>4 DEF LockDec, LevelLocal, LocalAt
  <2>2. CASE c = 0 \/ pc[c] = "xdec"
    BY <1>1, <1>2, <1>4, <2>1, <2>2 DEF LockDec, Exit, Leave, Return, TaskHolds, SvLabels
  <2>3. CASE c # 0 /\ pc[c] = "dec"
    BY <1>1, <1>2, <1>4, <2>1, <2>3 DEF LockDec, Leave, Return, TaskHolds
  <2> QED BY <1>4, <2>2, <2>3 DEF LockDec
<1>5. CASE IsrReqTest(c) \/ TimeDispose(c) \/ TimeReqClear(c) \/ PopSRQ(c) \/ Serve(c)
  BY <1>1, <1>2, <1>5 DEF IsrReqTest, TimeDispose, TimeReqClear, PopSRQ, Serve, lockVars
<1>6. CASE PopEnd(c) \/ IsrReqClear(c) \/ SchedReqTest(c)
  BY <1>1, <1>2, <1>6 DEF PopEnd, IsrReqClear, SchedReqTest, lockVars
<1>7. CASE SchedTest(c) \/ Switch(c)
  BY <1>1, <1>2, <1>7 DEF SchedTest, Switch, AfterSchedule, lockVars, SvLabels
<1>8. CASE Release(c)
  <2>1. entry[c] = 0
    BY <1>8 DEF Release, LevelLocal, LocalAt, AloneLabels
  <2>2. CASE c = 0
    BY <1>1, <1>2, <1>8, <2>1, <2>2 DEF Release, Exit, Leave, Return, TaskHolds
  <2>3. CASE c # 0
    BY <1>1, <1>2, <1>8, <2>1, <2>3 DEF Release, Leave, Return, TaskHolds
  <2> QED BY <2>2, <2>3
<1> QED BY <1>3, <1>4, <1>5, <1>6, <1>7, <1>8 DEF UnlockStep

\* The tick, and PendSV before its end, are moves within level 0.
LEMMA SysTickMoves ==
    ASSUME Shape, Chain, LevelLocal, SysTickStep \/ PendSVLoad \/ PendSVStore
    PROVE  \E x \in LabelsOf(0) : Stay(0, x)
<1> USE CtxSplit DEF LabelsOf, TickLabels, SvLabels, UnlockLabels
<1>1. LevelRuns(0)
  BY DEF SysTickStep, Tick, TickDispose, TickSched, PendSVLoad, PendSVStore
<1>2. OSSchedLock = entry[0] + Hold(0) /\ entry[0] \in Int /\ OSSchedLock \in Int
  BY <1>1, LevelRunsCount
<1>3. CASE Tick
  <2>1. \E x \in {"dispose", "ticksched"} : Goto(0, x)
    BY <1>3, Zenon DEF Tick
  <2> QED BY <1>1, <1>2, <1>3, <2>1 DEF Tick, Stay, HoldAt, Hold, HoldLabels, lockVars
<1>4. CASE TickDispose \/ TickSched
  BY <1>1, <1>2, <1>4 DEF TickDispose, TickSched, Stay, HoldAt, Hold, HoldLabels, lockVars
<1>5. CASE PendSVLoad \/ PendSVStore
  BY <1>1, <1>2, <1>5 DEF PendSVLoad, PendSVStore, Stay, HoldAt, Hold, HoldLabels, lockVars
<1> QED BY <1>3, <1>4, <1>5 DEF SysTickStep

\* A step of a user interrupt is a move within its level, or ends it.
LEMMA IsrMoves ==
    ASSUME Shape, Chain, LevelLocal, NEW c \in IsrLevels, IsrStep(c)
    PROVE  Exit(c) \/ \E x \in LabelsOf(c) : Stay(c, x)
<1> USE CtxSplit DEF LabelsOf, IsrLabels, UnlockLabels
<1>1. LevelRuns(c)
  BY DEF IsrStep, IsrPost, InsertTest, InsertIndex, InsertWrite, CoExitISR, ExitTest,
         ExitLoad, ExitStore
<1>2. OSSchedLock = entry[c] + Hold(c) /\ entry[c] \in Int /\ OSSchedLock \in Int
  BY <1>1, LevelRunsCount
<1> USE DEF Stay, HoldAt, Hold, HoldLabels
<1>3. CASE IsrPost(c) \/ InsertTest(c) \/ InsertIndex(c) \/ InsertWrite(c) \/ CoExitISR(c)
  BY <1>1, <1>2, <1>3 DEF IsrPost, InsertTest, InsertIndex, InsertWrite, CoExitISR, lockVars
<1>4. CASE ExitTest(c)
  BY <1>1, <1>2, <1>4 DEF ExitTest, Leave, Exit
<1>5. CASE ExitLoad(c)
  BY <1>1, <1>2, <1>5 DEF ExitLoad
<1>6. CASE ExitStore(c)
  <2>1. reg[c] = entry[c]
    BY <1>6 DEF ExitStore, LevelLocal, LocalAt
  <2> QED BY <1>1, <1>2, <1>6, <2>1 DEF ExitStore
<1> QED BY <1>3, <1>4, <1>5, <1>6 DEF IsrStep

\* The three ways an interrupt begins.
LEMMA Entries ==
    ASSUME Shape
    PROVE  /\ SysTickEnter => Enter(0, "lock")
           /\ PendSVEnter => Enter(0, "sv")
           /\ \A l \in IsrLevels : CoEnterISR(l) => Enter(l, "isr")
BY DEF SysTickEnter, PendSVEnter, CoEnterISR, Enter, HoldAt, HoldLabels, UnlockLabels

-----------------------------------------------------------------------------
(***************************************************************************)
(* Part 4.  What a level knows at each of its labels.                      *)
(***************************************************************************)
\* A step of one context leaves what the other levels hold in registers.
LEMMA LocalFrame ==
    ASSUME Shape, LevelLocal, NEW c \in Ctx, NEW x, Goto(c, x),
           \A l \in Levels : l # c => reg'[l] = reg[l] /\ entry'[l] = entry[l],
           c \in Levels => LocalAt(c)'
    PROVE  LevelLocal'
BY PcAfter DEF LevelLocal, LocalAt, Ctx

\* OsSchedLock keeps LevelLocal.
LEMMA LocalLock ==
    ASSUME Shape, Chain, LevelLocal, NEW c \in Ctx, LockStep(c)
    PROVE  LevelLocal'
<1> USE CtxSplit DEF LockStep, LockLoad, LockStore, KernelOp, lockVars, DropReg
<1>1. \A l \in Levels : l # c => reg'[l] = reg[l] /\ entry'[l] = entry[l]
  BY DEF Shape, LockShape, Ctx
<1>2. PICK x : Goto(c, x)
  OBVIOUS
<1>3. ASSUME c \in Levels PROVE LocalAt(c)'
  <2>1. LevelRuns(c) /\ c \notin Task
    BY <1>3 DEF Runs
  <2>2. /\ pc[c] \notin HoldLabels => OSSchedLock = entry[c]
        /\ LocalAt(c)
    BY <1>3, <2>1, LevelRunsCount DEF LevelLocal
  <2> QED
    BY <1>3, <2>1, <2>2, PcAfter
       DEF LocalAt, Goto, Shape, LockShape, PcShape, HoldLabels, UnlockLabels, AloneLabels
<1> QED BY <1>1, <1>2, <1>3, LocalFrame

\* OsSchedUnlock keeps LevelLocal.
LEMMA LocalUnlock ==
    ASSUME Shape, Chain, LevelLocal, TaskLocal, NEW c \in Ctx, UnlockStep(c)
    PROVE  LevelLocal'
<1> USE CtxSplit
<1>0. /\ \E x : Goto(c, x)
      /\ reg' = reg \/ \E v : reg' = [reg EXCEPT ![c] = v]
      /\ entry' = entry \/ entry' = [entry EXCEPT ![c] = 0]
  BY DEF UnlockStep, UnlockTest, LockDec, IsrReqTest, TimeDispose, TimeReqClear, PopSRQ,
         Serve, PopEnd, IsrReqClear, SchedReqTest, SchedTest, Switch, Release, Leave,
         DropReg, lockVars
<1>1. \A l \in Levels : l # c => reg'[l] = reg[l] /\ entry'[l] = entry[l]
  BY <1>0 DEF Shape, LockShape, Ctx
<1>2. ASSUME c \in Levels PROVE LocalAt(c)'
  <2>1. LevelRuns(c) /\ c \notin Task
    BY <1>2 DEF UnlockStep, UnlockTest, LockDec, IsrReqTest, TimeDispose, TimeReqClear,
         PopSRQ, Serve, PopEnd, IsrReqClear, SchedReqTest, SchedTest, Switch, Release, Runs
  <2>2. /\ pc[c] \in HoldLabels => OSSchedLock = entry[c] + 1
        /\ entry[c] \in Int /\ OSSchedLock \in Int /\ entry[c] >= 0
        /\ LocalAt(c)
        /\ pc[c] \in Labels
    BY <1>2, <2>1, LevelRunsCount DEF LevelLocal, Shape, PcShape, Ctx, TaskLocal
  <2>3. \A x : Goto(c, x) => pc'[c] = x
    BY PcAfter
  <2>4. reg \in [Ctx -> Int] /\ entry \in [Levels -> Int] /\ c \in Ctx
    BY DEF Shape, LockShape
  <2> USE <1>2 DEF LocalAt, HoldLabels, UnlockLabels, AloneLabels
  <2>5. CASE UnlockTest(c)
    BY <2>2, <2>3, <2>4, <2>5 DEF UnlockTest
  <2>6. CASE LockDec(c) \/ Release(c)
    BY <2>2, <2>3, <2>4, <2>6 DEF LockDec, Release, Leave, Return, DropReg
  <2>7. CASE IsrReqTest(c) \/ TimeDispose(c) \/ TimeReqClear(c) \/ PopSRQ(c) \/ Serve(c)
    BY <2>2, <2>3, <2>7 DEF IsrReqTest, TimeDispose, TimeReqClear, PopSRQ, Serve, lockVars
  <2>8. CASE PopEnd(c) \/ IsrReqClear(c) \/ SchedReqTest(c)
    BY <2>2, <2>3, <2>8 DEF PopEnd, IsrReqClear, SchedReqTest, lockVars
  <2>9. CASE SchedTest(c) \/ Switch(c)
    BY <2>2, <2>3, <2>9 DEF SchedTest, SchedRefused, Switch, AfterSchedule, lockVars
  <2> QED BY <2>5, <2>6, <2>7, <2>8, <2>9 DEF UnlockStep
<1> QED BY <1>0, <1>1, <1>2, LocalFrame

\* SysTick and PendSV keep LevelLocal.
LEMMA LocalLevel0 ==
    ASSUME Shape, Chain, LevelLocal, TaskLocal,
           PendSVEnter \/ PendSVStep \/ SysTickEnter \/ SysTickStep
    PROVE  LevelLocal'
<1> USE CtxSplit DEF PendSVStep, SysTickStep
<1>0. 0 \in Ctx /\ 0 \in Levels
  OBVIOUS
<1>1. /\ \E x : Goto(0, x)
      /\ reg' = reg
      /\ entry' = entry \/ \E v : entry' = [entry EXCEPT ![0] = v]
  BY DEF PendSVEnter, PendSVLoad, PendSVStore, PendSVExit, SysTickEnter, Tick, TickDispose,
         TickSched, Leave, lockVars
<1>2. \A l \in Levels : l # 0 => reg'[l] = reg[l] /\ entry'[l] = entry[l]
  BY <1>1 DEF Shape, LockShape
<1>3. \A x : Goto(0, x) => pc'[0] = x
  BY <1>0, PcAfter
<1>4. LocalAt(0)'
  <2>1. CASE PendSVEnter \/ PendSVStep \/ SysTickEnter
    BY <1>3, <2>1 DEF PendSVEnter, PendSVLoad, PendSVStore, PendSVExit, SysTickEnter, Leave,
       LocalAt, AloneLabels
  <2>2. CASE TickDispose \/ TickSched
    BY <1>3, <2>2 DEF TickDispose, TickSched, LocalAt, AloneLabels
  <2>3. CASE Tick
    <3>1. OSSchedLock = entry[0] + 1 /\ entry[0] \in Int /\ entry[0] >= thold
      BY <1>0, <2>3, LevelRunsCount DEF Tick, HoldLabels
    <3>2. thold \in Int /\ thold >= 0
      BY DEF TaskLocal
    <3>3. pc'[0] = "ticksched" \/ (pc'[0] = "dispose" /\ ~(OSSchedLock > 1))
      BY <1>3, <2>3, Zenon DEF Tick
    <3>4. entry'[0] = entry[0]
      BY <2>3 DEF Tick, lockVars
    <3> QED BY <3>1, <3>2, <3>3, <3>4 DEF LocalAt, AloneLabels
  <2> QED BY <2>1, <2>2, <2>3
<1> QED BY <1>0, <1>1, <1>2, <1>4, LocalFrame

\* A user interrupt keeps LevelLocal.
LEMMA LocalIsr ==
    ASSUME Shape, Chain, LevelLocal, TaskLocal, NEW c \in IsrLevels, CoEnterISR(c) \/ IsrStep(c)
    PROVE  LevelLocal'
<1> USE CtxSplit
<1>0. c \in Ctx /\ c \in Levels
  OBVIOUS
<1>1. /\ \E x : Goto(c, x)
      /\ reg' = reg \/ \E v : reg' = [reg EXCEPT ![c] = v]
      /\ entry' = entry \/ \E v : entry' = [entry EXCEPT ![c] = v]
  BY DEF CoEnterISR, IsrStep, IsrPost, InsertTest, InsertIndex, InsertWrite, CoExitISR,
         ExitTest, ExitLoad, ExitStore, Leave, DropReg, lockVars
<1>2. \A l \in Levels : l # c => reg'[l] = reg[l] /\ entry'[l] = entry[l]
  BY <1>0, <1>1 DEF Shape, LockShape, Ctx
<1>3. \A x : Goto(c, x) => pc'[c] = x
  BY <1>0, PcAfter
<1>4. LocalAt(c)'
  <2>1. CASE CoEnterISR(c)
    BY <1>3, <2>1 DEF CoEnterISR, LocalAt, AloneLabels
  <2>2. CASE IsrStep(c)
    <3>1. LevelRuns(c)
      BY <2>2 DEF IsrStep, IsrPost, InsertTest, InsertIndex, InsertWrite, CoExitISR,
                  ExitTest, ExitLoad, ExitStore
    <3>2. /\ pc[c] \in HoldLabels => OSSchedLock = entry[c] + 1
          /\ pc[c] \notin HoldLabels => OSSchedLock = entry[c]
          /\ entry[c] \in Int /\ entry[c] >= 0
          /\ reg \in [Ctx -> Int]
      BY <1>0, <3>1, LevelRunsCount DEF Shape, LockShape, TaskLocal
    <3> USE <1>0 DEF LocalAt, HoldLabels, UnlockLabels, AloneLabels
    <3>3. CASE IsrPost(c) \/ CoExitISR(c)
      BY <1>3, <3>2, <3>3 DEF IsrPost, CoExitISR, lockVars
    <3>4. CASE InsertTest(c) \/ InsertIndex(c) \/ InsertWrite(c)
      BY <1>3, <3>2, <3>4 DEF InsertTest, InsertIndex, InsertWrite, lockVars
    <3>5. CASE ExitTest(c) \/ ExitLoad(c) \/ ExitStore(c)
      BY <1>3, <3>2, <3>5 DEF ExitTest, ExitLoad, ExitStore, Leave, DropReg
    <3> QED BY <2>2, <3>3, <3>4, <3>5 DEF IsrStep
  <2> QED BY <2>1, <2>2
<1> QED BY <1>0, <1>1, <1>2, <1>4, LocalFrame

-----------------------------------------------------------------------------
(***************************************************************************)
(* Part 5.  Mutual exclusion follows from the invariant.                   *)
(***************************************************************************)
\* The invariant implies that at most one context is in the kernel lists.
LEMMA Exclusion ==
    ASSUME Shape, Chain, LevelLocal, TaskLocal
    PROVE  KernelExclusive
<1> SUFFICES ASSUME NEW c \in Ctx, NEW d \in Ctx, c # d, Touching(c), Touching(d)
             PROVE  FALSE
  BY DEF KernelExclusive
<1> USE CtxSplit DEF Touching
<1>1. ASSUME NEW l \in Levels, Touching(l)
      PROVE  entry[l] = 0 /\ Hold(l) = 1 /\ Active(l) /\ entry[l] >= thold
  BY <1>1 DEF LevelLocal, LocalAt, AloneLabels, Hold, HoldAt, HoldLabels, UnlockLabels, Active, Chain
<1>2. ASSUME NEW t \in Task, Touching(t)
      PROVE  t = TCBRunning /\ thold > 0
  BY <1>2 DEF TaskLocal, UnlockLabels, Shape, PcShape, LabelsOf, TaskLabels, Ctx
<1>3. thold \in Int
  BY DEF TaskLocal
<1>4. CASE c \in Task \/ d \in Task
  BY <1>1, <1>2, <1>3, <1>4 DEF Ctx
<1>5. CASE c \in Levels /\ d \in Levels
  <2>1. c < d \/ d < c
    BY <1>5, CoreLockAssumption DEF Levels
  <2> QED BY <1>1, <1>5, <2>1 DEF Chain
<1> QED BY <1>4, <1>5 DEF Ctx

-----------------------------------------------------------------------------
(***************************************************************************)
(* Part 6.  What is known of the tasks.                                    *)
(***************************************************************************)
\* Steps of a level that do not start or end a context switch.
LEMMA TaskFrame ==
    ASSUME Shape, TaskLocal, NEW c \in Levels, NEW x, Goto(c, x),
           \A t \in Task : reg'[t] = reg[t],
           thold' = thold, TCBRunning' = TCBRunning, Switching' = Switching
    PROVE  TaskLocal'
<1>1. \A t \in Task : pc'[t] = pc[t]
  BY PcAfter, CtxSplit DEF Ctx
<1> QED BY <1>1 DEF TaskLocal

\* A level decides on a switch only when the interrupted task owns nothing.
LEMMA TaskLevelSwitch ==
    ASSUME Shape, Chain, LevelLocal, TaskLocal, NEW c \in Levels, Switch(c)
    PROVE  TaskLocal'
<1>1. /\ \A t \in Task : pc'[t] = pc[t]
      /\ reg' = reg /\ thold' = thold /\ TCBRunning' = TCBRunning
  BY PcAfter, CtxSplit DEF Switch, lockVars, Ctx
<1>2. entry[c] = 0 /\ entry[c] >= thold
  BY CtxSplit DEF Switch, LevelLocal, LocalAt, AloneLabels, Chain, Active
<1>3. thold = 0
  BY <1>2 DEF TaskLocal
<1> QED BY <1>1, <1>3, CoreLockAssumption DEF TaskLocal

\* OsSchedLock and OsSchedUnlock at a level keep TaskLocal.
LEMMA TaskUnlockLevel ==
    ASSUME Shape, Chain, LevelLocal, TaskLocal, NEW c \in Levels, LockStep(c) \/ UnlockStep(c)
    PROVE  TaskLocal'
<1>1. CASE Switch(c)
  BY <1>1, TaskLevelSwitch
<1>2. CASE ~Switch(c)
  <2> DEFINE Goal == /\ \E x : x \notin SvLabels /\ Goto(c, x)
                     /\ reg' = reg \/ \E v : reg' = [reg EXCEPT ![c] = v]
                     /\ thold' = thold /\ TCBRunning' = TCBRunning /\ pendsv' = pendsv
                     /\ pc[c] \notin SvLabels
  <2>1. Goal
    <3> USE CtxSplit DEF SvLabels
    <3>1. CASE LockStep(c)
      BY <3>1 DEF LockStep, LockLoad, LockStore, KernelOp, DropReg, lockVars, TaskHolds, taskVars
    <3>2. CASE UnlockTest(c) \/ LockDec(c) \/ Release(c)
      BY <3>2 DEF UnlockTest, LockDec, Release, Leave, DropReg, TaskHolds, taskVars, Return
    <3>3. CASE IsrReqTest(c) \/ TimeDispose(c) \/ TimeReqClear(c) \/ PopSRQ(c) \/ Serve(c)
      BY <3>3 DEF IsrReqTest, TimeDispose, TimeReqClear, PopSRQ, Serve, lockVars, taskVars
    <3>4. CASE PopEnd(c) \/ IsrReqClear(c) \/ SchedReqTest(c) \/ SchedTest(c)
      BY <3>4 DEF PopEnd, IsrReqClear, SchedReqTest, SchedTest, AfterSchedule, lockVars, taskVars
    <3> QED BY <1>2, <3>1, <3>2, <3>3, <3>4 DEF UnlockStep
  <2>2. \A t \in Task : reg'[t] = reg[t]
    BY <2>1, CtxSplit DEF Shape, LockShape, Ctx
  <2>3. Switching' = Switching
    BY <2>1, PcAfter, CtxSplit DEF Switching, Ctx
  <2> QED BY <2>1, <2>2, <2>3, TaskFrame
<1> QED BY <1>1, <1>2

\* SysTick and PendSV keep TaskLocal; PendSV is where the task changes.
LEMMA TaskLevel0 ==
    ASSUME Shape, TaskLocal, SwitchInv,
           PendSVEnter \/ PendSVStep \/ SysTickEnter \/ SysTickStep
    PROVE  TaskLocal'
<1> USE CtxSplit
<1>0. 0 \in Ctx /\ 0 \in Levels /\ \A x : Goto(0, x) => pc'[0] = x
  BY PcAfter
<1>1. CASE PendSVEnter \/ PendSVLoad \/ SysTickEnter \/ SysTickStep
  <2>1. /\ \E x : Goto(0, x)
        /\ reg' = reg /\ thold' = thold /\ TCBRunning' = TCBRunning
    BY <1>1 DEF PendSVEnter, PendSVLoad, SysTickEnter, SysTickStep, Tick, TickDispose, TickSched,
                lockVars, taskVars
  <2>2. Switching' = Switching
    <3>1. CASE PendSVEnter \/ PendSVLoad
      BY <1>0, <3>1 DEF PendSVEnter, PendSVLoad, Switching, SvLabels
    <3>2. CASE SysTickEnter
      BY <1>0, <3>2 DEF SysTickEnter, Switching, SvLabels, taskVars
    <3>3. CASE SysTickStep
      <4>1. \E x \in {"dispose", "ticksched", "unlock"} : Goto(0, x)
        BY <3>3, Zenon DEF SysTickStep, Tick, TickDispose, TickSched
      <4>2. pc[0] \notin SvLabels /\ pendsv' = pendsv
        BY <3>3 DEF SysTickStep, Tick, TickDispose, TickSched, SvLabels, taskVars
      <4> QED BY <1>0, <4>1, <4>2 DEF Switching, SvLabels
    <3> QED BY <1>1, <3>1, <3>2, <3>3
  <2> QED BY <1>0, <2>1, <2>2, TaskFrame
<1>2. CASE PendSVStore
  <2>1. /\ \A t \in Task : pc'[t] = pc[t]
        /\ reg' = reg /\ thold' = thold
        /\ Switching /\ Switching'
    BY <1>0, <1>2, PcAfter DEF PendSVStore, Ctx, lockVars, Switching, SvLabels
  <2> QED BY <2>1 DEF TaskLocal
<1>3. CASE PendSVExit
  <2>1. /\ \A t \in Task : pc'[t] = pc[t]
        /\ reg' = reg /\ thold' = 0
        /\ Switching
    BY <1>0, <1>3, PcAfter DEF PendSVExit, Leave, Ctx, Switching, SvLabels
  <2> QED BY <2>1, CoreLockAssumption DEF TaskLocal, UnlockLabels
<1> QED BY <1>1, <1>2, <1>3 DEF PendSVStep

\* A user interrupt keeps TaskLocal.
LEMMA TaskIsr ==
    ASSUME Shape, TaskLocal, NEW c \in IsrLevels, CoEnterISR(c) \/ IsrStep(c)
    PROVE  TaskLocal'
<1>1. /\ \E x : Goto(c, x)
      /\ reg' = reg \/ \E v : reg' = [reg EXCEPT ![c] = v]
      /\ thold' = thold /\ TCBRunning' = TCBRunning /\ pendsv' = pendsv
  BY DEF CoEnterISR, IsrStep, IsrPost, InsertTest, InsertIndex, InsertWrite, CoExitISR,
         ExitTest, ExitLoad, ExitStore, Leave, DropReg, lockVars, taskVars
<1>2. /\ \A t \in Task : reg'[t] = reg[t]
      /\ pc'[0] = pc[0]
  BY <1>1, PcAfter, CtxSplit DEF Shape, LockShape, Ctx
<1> QED BY <1>1, <1>2, TaskFrame, CtxSplit DEF Switching

\* Steps of the running task.
LEMMA TaskOwn ==
    ASSUME Shape, Chain, TaskLocal, NEW c \in Task,
           LockStep(c) \/ UnlockStep(c) \/ CoSchedUnlock(c)
    PROVE  TaskLocal' /\ Chain'
<1> USE CtxSplit
<1>1. TaskRuns(c)
  BY DEF LockStep, LockLoad, LockStore, KernelOp, CoSchedUnlock, UnlockStep, UnlockTest, LockDec,
         IsrReqTest, TimeDispose, TimeReqClear, PopSRQ, Serve, PopEnd, IsrReqClear,
         SchedReqTest, SchedTest, Switch, Release, Runs
<1>2. /\ c = TCBRunning /\ ~Switching
      /\ \A l \in Levels : pc[l] = "idle"
      /\ OSSchedLock = thold /\ thold \in 0 .. MaxNest
      /\ c \in Ctx /\ c \notin Levels
  BY <1>1 DEF TaskRuns, Switching, SvLabels, Chain, Active, TaskLocal, Ctx
<1>3. /\ \E x : Goto(c, x)
      /\ reg' = reg \/ \E v : reg' = [reg EXCEPT ![c] = v]
      /\ TCBRunning' = TCBRunning
  BY DEF LockStep, LockLoad, LockStore, KernelOp, CoSchedUnlock, UnlockStep, UnlockTest, LockDec,
         IsrReqTest, TimeDispose, TimeReqClear, PopSRQ, Serve, PopEnd, IsrReqClear,
         SchedReqTest, SchedTest, Switch, Release, Leave, DropReg, lockVars, taskVars
<1>4. /\ \A l \in Levels : pc'[l] = "idle"
      /\ \A t \in Task : t # c => pc'[t] = pc[t] /\ reg'[t] = reg[t]
      /\ \A x : Goto(c, x) => pc'[c] = x
      /\ \A v : reg' = [reg EXCEPT ![c] = v] => reg'[c] = v
      /\ reg[c] \in Int
  BY <1>2, <1>3, PcAfter DEF Shape, LockShape, Ctx
<1>5. /\ OSSchedLock' = thold' /\ thold' \in 0 .. MaxNest
      /\ pc'[c] \in {"crit"} \cup (UnlockLabels \ {"release"}) => thold' > 0 /\ pendsv' = pendsv
      /\ pc'[c] = "dec" => reg'[c] = thold'
      /\ pc'[c] = "lockst" => reg'[c] = thold' /\ thold' < MaxNest /\ pendsv' = pendsv
  <2> DEFINE Goal == /\ OSSchedLock' = thold' /\ thold' \in 0 .. MaxNest
                     /\ pc'[c] \in {"crit"} \cup (UnlockLabels \ {"release"}) =>
                          thold' > 0 /\ pendsv' = pendsv
                     /\ pc'[c] = "dec" => reg'[c] = thold'
                     /\ pc'[c] = "lockst" => reg'[c] = thold' /\ thold' < MaxNest
                                               /\ pendsv' = pendsv
  <2>0. /\ pc[c] \in {"crit"} \cup (UnlockLabels \ {"release"}) => thold > 0
        /\ pc[c] = "dec" => reg[c] = thold
        /\ pc[c] = "lockst" => reg[c] = thold /\ thold < MaxNest
        /\ MaxNest \in Nat
    BY <1>2, CoreLockAssumption DEF TaskLocal
  <2> USE <1>2, <1>4, <2>0 DEF UnlockLabels
  <2>1. CASE LockStep(c)
    <3>1. CASE LockLoad(c)
      BY <3>1 DEF LockLoad, taskVars
    <3>2. CASE LockStore(c)
      BY <3>2 DEF LockStore, TaskHolds, DropReg, taskVars
    <3>3. CASE KernelOp(c)
      BY <3>3 DEF KernelOp, lockVars, taskVars
    <3> QED BY <2>1, <3>1, <3>2, <3>3 DEF LockStep
  <2>2. CASE CoSchedUnlock(c)
    BY <2>2 DEF CoSchedUnlock, lockVars, taskVars
  <2>3. CASE UnlockStep(c)
    <3>1. CASE UnlockTest(c)
      BY <3>1 DEF UnlockTest, taskVars
    <3>2. CASE LockDec(c)
      <4>1. pc[c] = "dec" /\ pc'[c] = "user"
        BY <3>2 DEF LockDec, Leave, Return, Shape, PcShape, LabelsOf, TaskLabels
      <4> QED BY <3>2, <4>1 DEF LockDec, TaskHolds
    <3>3. CASE Release(c)
      <4>1. pc'[c] = "user"
        BY <3>3 DEF Release, Leave, Return
      <4> QED BY <3>3, <4>1 DEF Release, TaskHolds
    <3>4. CASE IsrReqTest(c) \/ TimeDispose(c) \/ TimeReqClear(c) \/ PopSRQ(c) \/ Serve(c)
      BY <3>4 DEF IsrReqTest, TimeDispose, TimeReqClear, PopSRQ, Serve, lockVars, taskVars
    <3>5. CASE PopEnd(c) \/ IsrReqClear(c) \/ SchedReqTest(c)
      BY <3>5 DEF PopEnd, IsrReqClear, SchedReqTest, lockVars, taskVars
    <3>6. CASE SchedTest(c) \/ Switch(c)
      <4>1. pc[c] \in {"sched", "switch"}
        BY <3>6 DEF SchedTest, Switch, Shape, PcShape, LabelsOf, TaskLabels
      <4> QED BY <3>6, <4>1 DEF SchedTest, Switch, AfterSchedule, lockVars, taskVars
    <3> QED BY <2>3, <3>1, <3>2, <3>3, <3>4, <3>5, <3>6 DEF UnlockStep
  <2> QED BY <2>1, <2>2, <2>3
<1>6. pc'[0] \notin SvLabels
  BY <1>4 DEF SvLabels
<1>7. TaskLocal'
  <2>1. \A t \in Task : t # c =>
           /\ pc[t] \notin {"crit"} \cup (UnlockLabels \ {"release"})
           /\ pc[t] = "lockst" => reg[t] = 0
    BY <1>2 DEF TaskLocal
  <2> QED
    BY <1>2, <1>3, <1>4, <1>5, <1>6, <2>1 DEF TaskLocal, Switching, UnlockLabels
<1> QED BY <1>4, <1>5, <1>7, TaskChain

-----------------------------------------------------------------------------
(***************************************************************************)
(* Part 7.  Context switches and service requests.                         *)
(***************************************************************************)
\* A step that leaves the tasks to run and PendSV alone.
LEMMA SwitchFrame ==
    ASSUME Shape, SwitchInv, NEW c \in Ctx, NEW x, Goto(c, x),
           UNCHANGED taskVars, pc[0] \in {"sv", "svst"} => c # 0,
           c = 0 => x # "svst",
           x \in {"switch", "xswitch"} => TCBRunning = TCBNext
    PROVE  SwitchInv'
<1>1. pc'[c] = x /\ \A d \in Ctx : d # c => pc'[d] = pc[d]
  BY PcAfter
<1> QED BY <1>1, CtxSplit DEF SwitchInv, SwitchDelivered, taskVars

\* A step that decides on no switch keeps SwitchInv.
LEMMA SwitchLock ==
    ASSUME Shape, SwitchInv, NEW c \in Ctx,
           LockStep(c) \/ (UnlockStep(c) /\ ~Switch(c)) \/ (c \in Task /\ CoSchedUnlock(c))
    PROVE  SwitchInv'
<1>1. PICK x : /\ Goto(c, x) /\ x # "svst"
               /\ UNCHANGED taskVars /\ pc[c] \notin {"sv", "svst"}
               /\ x \in {"switch", "xswitch"} => TCBRunning = TCBNext
  <2>1. CASE LockStep(c) \/ (c \in Task /\ CoSchedUnlock(c))
    <3>1. \E x \in {"lockst", "crit", "user", "tick", "unlock"} : Goto(c, x)
      BY <2>1 DEF LockStep, LockLoad, LockStore, KernelOp, CoSchedUnlock
    <3>2. UNCHANGED taskVars /\ pc[c] \notin {"sv", "svst"}
      BY <2>1 DEF LockStep, LockLoad, LockStore, KernelOp, CoSchedUnlock
    <3> QED BY <3>1, <3>2
  <2>2. CASE UnlockTest(c) \/ LockDec(c) \/ Release(c)
    BY <2>2 DEF UnlockTest, LockDec, Release, Leave, Return
  <2>3. CASE IsrReqTest(c) \/ TimeDispose(c) \/ TimeReqClear(c) \/ PopSRQ(c) \/ Serve(c)
    <3>1. \E x \in {"schedreq", "time", "timeclr", "loop", "serve"} : Goto(c, x)
      BY <2>3 DEF IsrReqTest, TimeDispose, TimeReqClear, PopSRQ, Serve
    <3>2. UNCHANGED taskVars /\ pc[c] \notin {"sv", "svst"}
      BY <2>3 DEF IsrReqTest, TimeDispose, TimeReqClear, PopSRQ, Serve
    <3> QED BY <3>1, <3>2
  <2>4. CASE PopEnd(c) \/ IsrReqClear(c) \/ SchedReqTest(c) \/ SchedTest(c)
    BY <2>4 DEF PopEnd, IsrReqClear, SchedReqTest, SchedTest, AfterSchedule, SchedRefused
  <2> QED BY <2>1, <2>2, <2>3, <2>4 DEF UnlockStep
<1> QED BY <1>1, SwitchFrame

\* Schedule chooses the next task: it is alone, and no switch is under way.
LEMMA SwitchChoose ==
    ASSUME Shape, SwitchInv, KernelExclusive, NEW c \in Ctx, Switch(c)
    PROVE  SwitchInv'
<1>1. TCBRunning = TCBNext /\ pc[0] # "svst"
  BY DEF SwitchInv, Switch
<1>2. \A d \in Ctx : d # c => pc[d] \notin {"switch", "xswitch"}
  BY DEF KernelExclusive, Touching, Switch
<1>3. /\ pc'[c] \in {"release", "xdecld"}
      /\ \A d \in Ctx : d # c => pc'[d] = pc[d]
  BY PcAfter DEF Switch, AfterSchedule
<1>4. TCBRunning' = TCBRunning /\ (pendsv' \/ TCBNext' = TCBRunning)
  BY DEF Switch
<1> QED BY <1>1, <1>2, <1>3, <1>4, CtxSplit DEF SwitchInv, SwitchDelivered

\* SysTick and PendSV keep SwitchInv; PendSV delivers the switch.
LEMMA SwitchLevel0 ==
    ASSUME Shape, SwitchInv, PendSVEnter \/ PendSVStep \/ SysTickEnter \/ SysTickStep
    PROVE  SwitchInv'
<1> USE CtxSplit
<1>0. /\ \A x : Goto(0, x) => pc'[0] = x
      /\ \A x : Goto(0, x) => \A d \in Ctx : d # 0 => pc'[d] = pc[d]
      /\ 0 \in Ctx
  BY PcAfter
<1>1. CASE PendSVEnter
  BY <1>0, <1>1 DEF PendSVEnter, SwitchInv, SwitchDelivered
<1>2. CASE PendSVLoad
  BY <1>0, <1>2 DEF PendSVLoad, SwitchInv, SwitchDelivered
<1>3. CASE PendSVStore
  BY <1>0, <1>3 DEF PendSVStore, SwitchInv, SwitchDelivered
<1>4. CASE PendSVExit
  BY <1>0, <1>4 DEF PendSVExit, Leave, taskVars, SwitchInv, SwitchDelivered
<1>5. CASE SysTickEnter
  BY <1>0, <1>5 DEF SysTickEnter, taskVars, SwitchInv, SwitchDelivered
<1>6. CASE SysTickStep
  <2>1. \E x \in {"dispose", "ticksched", "unlock"} : Goto(0, x)
    BY <1>6, Zenon DEF SysTickStep, Tick, TickDispose, TickSched
  <2>2. pc[0] \notin {"sv", "svst"} /\ UNCHANGED taskVars
    BY <1>6 DEF SysTickStep, Tick, TickDispose, TickSched
  <2> QED BY <1>0, <2>1, <2>2, SwitchFrame
<1> QED BY <1>1, <1>2, <1>3, <1>4, <1>5, <1>6 DEF PendSVStep

\* A user interrupt keeps SwitchInv.
LEMMA SwitchIsr ==
    ASSUME Shape, SwitchInv, NEW c \in IsrLevels, CoEnterISR(c) \/ IsrStep(c)
    PROVE  SwitchInv'
<1>1. PICK x : Goto(c, x) /\ x \notin {"switch", "xswitch"} /\ UNCHANGED taskVars
  BY DEF CoEnterISR, IsrStep, IsrPost, InsertTest, InsertIndex, InsertWrite, CoExitISR,
         ExitTest, ExitLoad, ExitStore, Leave
<1> QED BY <1>1, SwitchFrame, CtxSplit DEF Ctx

\* IsrReq is cleared only over an empty queue, and cnt grows only on the way
\* to IsrReq = Co_TRUE.
LEMMA VisibleFrame ==
    ASSUME Shape, RequestVisible, NEW c \in Ctx, NEW x, Goto(c, x), pc[c] # "insidx",
           cnt' \in Int, cnt' <= cnt, IsrReq => (IsrReq' \/ cnt' = 0)
    PROVE  RequestVisible'
<1>1. \A d \in Ctx : pc[d] = "insidx" => pc'[d] = "insidx"
  BY PcAfter
<1> QED BY <1>1, CtxSplit DEF RequestVisible, Shape, SrqShape, Ctx

\* Every step keeps queued requests visible to OsSchedUnlock.
LEMMA VisibleNext ==
    ASSUME Shape, RequestVisible, Next
    PROVE  RequestVisible'
<1> USE CtxSplit
<1>0. cnt \in Int
  BY DEF Shape, SrqShape
<1>1. ASSUME NEW c \in Ctx, LockStep(c) \/ UnlockStep(c) \/ (c \in Task /\ CoSchedUnlock(c))
      PROVE  RequestVisible'
  <2>1. CASE LockStep(c) \/ (c \in Task /\ CoSchedUnlock(c))
    <3>1. \E x : Goto(c, x)
      BY <2>1 DEF LockStep, LockLoad, LockStore, KernelOp, CoSchedUnlock
    <3>2. UNCHANGED <<cnt, IsrReq>> /\ pc[c] # "insidx"
      BY <2>1 DEF LockStep, LockLoad, LockStore, KernelOp, CoSchedUnlock, reqVars, srqVars
    <3> QED BY <1>0, <3>1, <3>2, VisibleFrame
  <2>2. CASE UnlockTest(c) \/ LockDec(c) \/ Release(c)
    BY <2>2, VisibleFrame DEF UnlockTest, LockDec, Release, Leave, reqVars, srqVars, Shape, SrqShape
  <2>3. CASE IsrReqTest(c) \/ TimeDispose(c) \/ TimeReqClear(c) \/ Serve(c)
    <3>1. \E x : Goto(c, x)
      BY <2>3 DEF IsrReqTest, TimeDispose, TimeReqClear, Serve
    <3>2. UNCHANGED <<cnt, IsrReq>> /\ pc[c] # "insidx"
      BY <2>3 DEF IsrReqTest, TimeDispose, TimeReqClear, Serve, reqVars, srqVars
    <3> QED BY <1>0, <3>1, <3>2, VisibleFrame
  <2>4. CASE PopSRQ(c)
    BY <2>4, VisibleFrame DEF PopSRQ, reqVars, Shape, SrqShape
  <2>5. CASE PopEnd(c) \/ SchedReqTest(c) \/ SchedTest(c) \/ Switch(c)
    BY <2>5, VisibleFrame DEF PopEnd, SchedReqTest, SchedTest, Switch, reqVars, srqVars, Shape, SrqShape
  <2>6. CASE IsrReqClear(c)
    <3>1. cnt' = cnt /\ (IsrReq => (IsrReq' \/ cnt' = 0)) /\ pc[c] # "insidx"
      BY <2>6 DEF IsrReqClear, srqVars, Shape, FlagShape
    <3> QED BY <1>0, <2>6, <3>1, VisibleFrame DEF IsrReqClear
  <2> QED BY <1>1, <2>1, <2>2, <2>3, <2>4, <2>5, <2>6 DEF UnlockStep
<1>2. CASE PendSVEnter \/ PendSVStep \/ SysTickEnter
  BY <1>2, VisibleFrame DEF PendSVEnter, PendSVStep, PendSVLoad, PendSVStore, PendSVExit, SysTickEnter,
     Leave, reqVars, srqVars, Shape, SrqShape
<1>3. CASE SysTickStep
  <2>1. \E x : Goto(0, x)
    BY <1>3, Zenon DEF SysTickStep, Tick, TickDispose, TickSched
  <2>2. (IsrReq => IsrReq') /\ cnt' = cnt /\ pc[0] # "insidx"
    <3>1. CASE Tick
      <4>1. IsrReq => IsrReq'
        BY <3>1, Zenon DEF Tick
      <4> QED BY <3>1, <4>1 DEF Tick, srqVars
    <3>2. CASE TickDispose \/ TickSched
      <4>1. IsrReq' = IsrReq /\ cnt' = cnt
        BY <3>2 DEF TickDispose, TickSched, reqVars, srqVars
      <4> QED BY <3>2, <4>1 DEF TickDispose, TickSched
    <3> QED BY <1>3, <3>1, <3>2 DEF SysTickStep
  <2> QED BY <2>1, <2>2, VisibleFrame DEF Shape, SrqShape
<1>4. ASSUME NEW l \in IsrLevels, CoEnterISR(l) \/ IsrStep(l)
      PROVE  RequestVisible'
  <2>0. l \in Ctx
    OBVIOUS
  <2>1. CASE CoEnterISR(l) \/ IsrPost(l) \/ InsertWrite(l) \/ CoExitISR(l)
    <3>1. (\E x : Goto(l, x)) /\ UNCHANGED <<cnt, IsrReq>>
      BY <2>1 DEF CoEnterISR, IsrPost, InsertWrite, CoExitISR, reqVars, srqVars
    <3>2. pc[l] # "insidx"
      <4>1. CASE CoEnterISR(l)
        <5>1. l \in Levels /\ l >= l
          BY CoreLockAssumption DEF Levels
        <5> QED BY <4>1, <5>1 DEF CoEnterISR
      <4> QED BY <2>1, <4>1 DEF IsrPost, InsertWrite, CoExitISR
    <3> QED BY <1>0, <2>0, <3>1, <3>2, VisibleFrame
  <2>2. CASE ExitTest(l) \/ ExitLoad(l) \/ ExitStore(l)
    BY <2>0, <2>2, VisibleFrame DEF ExitTest, ExitLoad, ExitStore, Leave, reqVars, srqVars, Shape, SrqShape
  <2>3. CASE InsertTest(l)
    <3>1. CASE cnt >= MaxReq
      BY <2>0, <2>3, <3>1, VisibleFrame DEF InsertTest, reqVars, Shape, SrqShape
    <3>2. CASE ~(cnt >= MaxReq)
      <4>1. pc'[l] = "insidx"
        BY <2>0, <2>3, <3>2, PcAfter DEF InsertTest
      <4> QED BY <4>1 DEF RequestVisible
    <3> QED BY <3>1, <3>2
  <2>4. CASE InsertIndex(l)
    BY <2>4 DEF InsertIndex, RequestVisible
  <2> QED BY <1>4, <2>1, <2>2, <2>3, <2>4 DEF IsrStep
<1> QED BY <1>1, <1>2, <1>3, <1>4 DEF Next, Ctx

-----------------------------------------------------------------------------
(***************************************************************************)
(* Part 8.  The invariant and the theorems.                                *)
(***************************************************************************)
\* The inductive invariant holds when the kernel starts.
LEMMA InvInit == Init => Inv
<1> SUFFICES ASSUME Init PROVE Inv
  OBVIOUS
<1>1. Shape
  BY ShapeInit
<1>2. /\ \A l \in Levels : pc[l] = "idle"
      /\ \A t \in Task : pc[t] = "user"
      /\ \A c \in Ctx : pc[c] \in {"idle", "user"}
      /\ OSSchedLock = 0 /\ thold = 0 /\ TCBNext = TCBRunning /\ cnt = 0
  BY CtxSplit DEF Init, Ctx
<1>3. Chain /\ LevelLocal
  BY <1>2 DEF Chain, Active, LevelRuns, LevelLocal, LocalAt, AloneLabels
<1>4. TaskLocal
  BY <1>2, CoreLockAssumption DEF TaskLocal, UnlockLabels
<1>5. SwitchInv /\ RequestVisible
  BY <1>2, CtxSplit DEF SwitchInv, SwitchDelivered, RequestVisible
<1> QED BY <1>1, <1>3, <1>4, <1>5 DEF Inv

\* Every step of the kernel keeps the inductive invariant.
LEMMA InvNext == Inv /\ [Next]_vars => Inv'
<1> SUFFICES ASSUME Inv, [Next]_vars PROVE Inv'
  OBVIOUS
<1> USE CtxSplit DEF Inv
<1>1. Shape'
  BY ShapeNext
<1>2. KernelExclusive
  BY Exclusion
<1>3. ASSUME NEW c \in Levels, LockStep(c) \/ UnlockStep(c)
      PROVE  Chain' /\ LevelLocal' /\ TaskLocal' /\ SwitchInv'
  <2>0. c \in Ctx
    BY DEF Ctx
  <2>1. Chain'
    BY <1>3, LevelLockMoves, LevelUnlockMoves, StayChain, ExitChain
  <2>2. LevelLocal'
    BY <2>0, <1>3, LocalLock, LocalUnlock
  <2>3. SwitchInv'
    BY <2>0, <1>2, <1>3, SwitchLock, SwitchChoose
  <2> QED BY <2>1, <2>2, <2>3, <1>3, TaskUnlockLevel
<1>4. ASSUME NEW t \in Task, LockStep(t) \/ UnlockStep(t) \/ CoSchedUnlock(t)
      PROVE  Chain' /\ LevelLocal' /\ TaskLocal' /\ SwitchInv'
  <2>0. t \in Ctx /\ t \notin Levels
    BY DEF Ctx
  <2>1. LevelLocal'
    <3>1. CASE CoSchedUnlock(t)
      BY <2>0, <3>1, LocalFrame DEF CoSchedUnlock, lockVars
    <3> QED BY <2>0, <1>4, <3>1, LocalLock, LocalUnlock
  <2>2. SwitchInv'
    BY <2>0, <1>2, <1>4, SwitchLock, SwitchChoose
  <2> QED BY <2>1, <2>2, <1>4, TaskOwn
<1>5. ASSUME PendSVEnter \/ PendSVStep \/ SysTickEnter \/ SysTickStep
      PROVE  Chain' /\ LevelLocal' /\ TaskLocal' /\ SwitchInv'
  <2>1. Chain'
    <3>1. CASE PendSVEnter \/ SysTickEnter
      BY <3>1, Entries, EnterChain
    <3>2. CASE SysTickStep \/ PendSVLoad \/ PendSVStore
      BY <3>2, SysTickMoves, StayChain
    <3>3. CASE PendSVExit
      <4>1. \A l \in Levels : pc'[l] = "idle"
        BY <3>3, PcAfter, CoreLockAssumption DEF PendSVExit, Leave, LevelRuns, Levels, Ctx
      <4> QED BY <3>3, <4>1, TaskChain DEF PendSVExit
    <3> QED BY <1>5, <3>1, <3>2, <3>3 DEF PendSVStep
  <2> QED BY <2>1, <1>5, LocalLevel0, TaskLevel0, SwitchLevel0
<1>6. ASSUME NEW l \in IsrLevels, CoEnterISR(l) \/ IsrStep(l)
      PROVE  Chain' /\ LevelLocal' /\ TaskLocal' /\ SwitchInv'
  <2>1. Chain'
    BY <1>6, Entries, EnterChain, IsrMoves, StayChain, ExitChain
  <2> QED BY <2>1, <1>6, LocalIsr, TaskIsr, SwitchIsr
<1>7. CASE Next
  <2>1. RequestVisible'
    BY <1>7, VisibleNext
  <2> QED BY <1>1, <1>3, <1>4, <1>5, <1>6, <1>7, <2>1 DEF Next, Ctx
<1>8. CASE UNCHANGED vars
  <2>1. Chain' /\ LevelLocal' /\ TaskLocal'
    BY <1>8 DEF vars, lockVars, taskVars, Chain, Active, LevelRuns, Hold, LevelLocal, LocalAt,
                TaskLocal, Switching
  <2>2. SwitchInv' /\ RequestVisible'
    BY <1>8 DEF vars, taskVars, reqVars, srqVars, SwitchInv, SwitchDelivered, RequestVisible
  <2> QED BY <1>1, <2>1, <2>2
<1> QED BY <1>7, <1>8

\* Inv is an invariant of the kernel's locking protocol.
THEOREM Invariance == Spec => []Inv
BY InvInit, InvNext, PTL DEF Spec

\* Type correctness: OSSchedLock never goes below zero, the service queue
\* never overflows and every context stays within its own code.
THEOREM TypeCorrect == Spec => []TypeOK
<1>1. Inv => TypeOK
  <2> SUFFICES ASSUME Inv PROVE TypeOK
    OBVIOUS
  <2> USE CtxSplit DEF Inv, Shape
  <2>1. pc \in [Ctx -> TaskLabels \cup SvLabels \cup TickLabels \cup IsrLabels]
    BY DEF PcShape, Labels
  <2>2. /\ \A t \in Task : pc[t] \in TaskLabels
        /\ pc[0] \in TickLabels \cup SvLabels
        /\ \A l \in IsrLevels : pc[l] \in IsrLabels
    BY DEF PcShape, LabelsOf, Ctx
  <2>3. thold \in 0 .. MaxNest
    BY DEF TaskLocal
  <2>4. OSSchedLock \in Nat
    BY <2>3 DEF Chain, LockShape, Hold, HoldAt
  <2> QED BY <2>1, <2>2, <2>3, <2>4 DEF TypeOK, LockShape, FlagShape, SrqShape
<1> QED BY <1>1, Invariance, PTL

\* The scheduler lock gives mutual exclusion on the kernel lists, for any
\* tasks and any number of nested interrupt priorities.
THEOREM MutualExclusion == Spec => []KernelExclusive
<1>1. Inv => KernelExclusive
  BY Exclusion DEF Inv
<1> QED BY <1>1, Invariance, PTL

\* Task code always finds OSSchedLock as it left it.
THEOREM LockIsBalanced == Spec => []LockBalanced
<1>1. Inv => LockBalanced
  BY DEF Inv, Chain, Active, LockBalanced
<1> QED BY <1>1, Invariance, PTL

\* No context switch decided by Schedule is lost: as long as the task that
\* runs is not the one chosen, PendSV is pending or about to switch.
THEOREM SwitchesDelivered == Spec => []SwitchDelivered
<1>1. Inv => SwitchDelivered
  BY DEF Inv, SwitchInv
<1> QED BY <1>1, Invariance, PTL

\* No queued service request is invisible to OsSchedUnlock: IsrReq is up, or
\* the ISR that queued the request is about to raise it.
THEOREM RequestsVisible == Spec => []RequestVisible
<1>1. Inv => RequestVisible
  BY DEF Inv
<1> QED BY <1>1, Invariance, PTL

(***************************************************************************)
(* Part 9.  OSIntNesting is the number of interrupts between CoEnterISR    *)
(* and CoExitISR.                                                          *)
(***************************************************************************)
InsLabels == {"ins", "insidx", "inswr"}
NestLabels == {"isr", "lock", "lockst", "crit"} \cup InsLabels \cup UnlockLabels
Nested == {l \in IsrLevels : pc[l] \in NestLabels}

NestInv ==
    /\ OSIntNesting = Cardinality(Nested)
    /\ \A l \in IsrLevels : pc[l] # "switch"
    /\ \A l \in IsrLevels : pc[l] = "xswitch" =>
          \A m \in IsrLevels : m < l => m \notin Nested

\* The nested interrupts are finitely many.
LEMMA NestedCount ==
    /\ IsFiniteSet(Nested) /\ Cardinality(Nested) \in Nat
    /\ Cardinality(Nested) = 0 <=> Nested = {}
<1>1. IsFiniteSet(IsrLevels)
  BY CoreLockAssumption, FS_Interval DEF IsrLevels
<1>2. Nested \in SUBSET IsrLevels
  BY DEF Nested
<1>3. IsFiniteSet(Nested)
  BY <1>1, <1>2, FS_Subset
<1> QED BY <1>3, FS_CardinalityType, FS_EmptySet

\* A step that neither begins nor ends an interrupt and decides on no switch.
LEMMA NestFrame ==
    ASSUME Shape, NestInv, NEW c \in Ctx, NEW x, Goto(c, x), OSIntNesting' = OSIntNesting,
           c \in IsrLevels => /\ x \in NestLabels <=> pc[c] \in NestLabels
                              /\ x \notin {"switch", "xswitch"}
    PROVE  NestInv'
<1>1. pc'[c] = x /\ \A d \in Ctx : d # c => pc'[d] = pc[d]
  BY PcAfter
<1>2. IsrLevels \subseteq Ctx
  BY CtxSplit
<1>3. Nested' = Nested
  BY <1>1, <1>2 DEF Nested
<1> QED BY <1>1, <1>2, <1>3 DEF NestInv

\* OsSchedLock, and OsSchedUnlock up to Schedule, stay within the interrupt.
LEMMA NestLock ==
    ASSUME Shape, NestInv, NEW c \in Ctx,
           \/ LockStep(c)
           \/ UnlockStep(c) /\ ~SchedTest(c)
           \/ c \in Task /\ CoSchedUnlock(c)
    PROVE  NestInv'
<1> USE CtxSplit DEF NestLabels, InsLabels, UnlockLabels
<1>0. c \in IsrLevels => c \notin Task /\ c # 0 /\ pc[c] # "switch"
  BY DEF NestInv
<1>1. CASE LockStep(c) \/ (c \in Task /\ CoSchedUnlock(c))
  <2>1. OSIntNesting' = OSIntNesting
    BY <1>1 DEF LockStep, LockLoad, LockStore, KernelOp, CoSchedUnlock
  <2>2. CASE LockLoad(c)
    BY <1>0, <2>1, <2>2, NestFrame DEF LockLoad
  <2>3. CASE LockStore(c)
    <3>1. PICK x : Goto(c, x) /\ x \in {"crit", "user", "tick"}
                   /\ (c \in IsrLevels => x = "crit") /\ pc[c] = "lockst"
      BY <1>0, <2>3 DEF LockStore
    <3> QED BY <2>1, <3>1, NestFrame
  <2>4. CASE KernelOp(c) \/ (c \in Task /\ CoSchedUnlock(c))
    BY <1>0, <2>1, <2>4, NestFrame DEF KernelOp, CoSchedUnlock
  <2> QED BY <1>1, <2>2, <2>3, <2>4 DEF LockStep
<1>2. CASE UnlockTest(c)
  BY <1>0, <1>2, NestFrame DEF UnlockTest
<1>3. CASE LockDec(c) \/ Release(c)
  BY <1>0, <1>3, NestFrame DEF LockDec, Release, Leave, Return
<1>4. CASE IsrReqTest(c)
  BY <1>0, <1>4, NestFrame DEF IsrReqTest
<1>5. CASE TimeDispose(c) \/ TimeReqClear(c) \/ PopSRQ(c) \/ Serve(c)
  BY <1>0, <1>5, NestFrame DEF TimeDispose, TimeReqClear, PopSRQ, Serve
<1>6. CASE PopEnd(c) \/ IsrReqClear(c) \/ SchedReqTest(c)
  BY <1>0, <1>6, NestFrame DEF PopEnd, IsrReqClear, SchedReqTest
<1>7. CASE Switch(c)
  BY <1>0, <1>7, NestFrame DEF Switch, AfterSchedule
<1> QED BY <1>1, <1>2, <1>3, <1>4, <1>5, <1>6, <1>7 DEF UnlockStep

\* Schedule goes on at an interrupt level only when no interrupt is nested.
LEMMA NestSched ==
    ASSUME Shape, NestInv, NEW c \in Ctx, SchedTest(c)
    PROVE  NestInv'
<1> USE CtxSplit DEF NestLabels, InsLabels, UnlockLabels
<1>1. /\ pc[c] \in {"sched", "xsched"} /\ OSIntNesting' = OSIntNesting
      /\ \/ Goto(c, AfterSchedule(pc[c]))
         \/ ~SchedRefused /\ Goto(c, IF pc[c] = "sched" THEN "switch" ELSE "xswitch")
  BY DEF SchedTest
<1>2. CASE Goto(c, AfterSchedule(pc[c])) \/ c \notin IsrLevels
  BY <1>1, <1>2, NestFrame DEF AfterSchedule
<1>3. CASE ~SchedRefused /\ c \in IsrLevels /\ Goto(c, IF pc[c] = "sched" THEN "switch" ELSE "xswitch")
  <2>1. Nested = {}
    BY <1>3, NestedCount DEF SchedRefused, NestInv
  <2>2. pc[c] = "xsched"
    BY <1>1, <1>3, <2>1 DEF Nested
  <2>3. pc'[c] = "xswitch" /\ \A d \in Ctx : d # c => pc'[d] = pc[d]
    BY <1>3, <2>2, PcAfter
  <2>4. Nested' = {}
    BY <2>1, <2>3 DEF Nested
  <2> QED BY <1>1, <1>3, <2>1, <2>3, <2>4 DEF NestInv
<1> QED BY <1>1, <1>2, <1>3

\* CoEnterISR and CoExitISR count; the other steps of an interrupt do not.
LEMMA NestIsr ==
    ASSUME Shape, NestInv, NEW l \in IsrLevels, CoEnterISR(l) \/ IsrStep(l)
    PROVE  NestInv'
<1> USE CtxSplit
<1>0. l \in Ctx /\ l \in Levels /\ l >= l /\ \A m \in IsrLevels : m \in Int
  BY CoreLockAssumption DEF Levels, IsrLevels
<1>1. CASE CoEnterISR(l)
  <2>1. pc'[l] = "isr" /\ \A d \in Ctx : d # l => pc'[d] = pc[d]
    BY <1>0, <1>1, PcAfter DEF CoEnterISR
  <2>2. \A m \in Levels : m >= l => pc[m] = "idle"
    BY <1>1 DEF CoEnterISR
  <2>3. Nested' = Nested \cup {l} /\ l \notin Nested
    BY <1>0, <2>1, <2>2 DEF Nested, NestLabels, InsLabels, UnlockLabels
  <2>4. OSIntNesting' = Cardinality(Nested')
    BY <1>1, <2>3, NestedCount, FS_AddElement DEF CoEnterISR, NestInv
  <2>5. \A k \in IsrLevels : pc'[k] = "xswitch" => pc[k] = "xswitch" /\ k < l
    BY <1>0, <2>1, <2>2
  <2>6. \A k \in IsrLevels : pc'[k] # "switch"
    BY <2>1 DEF NestInv
  <2> QED BY <1>0, <2>3, <2>4, <2>5, <2>6 DEF NestInv
<1>2. CASE CoExitISR(l)
  <2>1. /\ pc[l] = "isr" /\ pc'[l] = "xtest"
        /\ \A d \in Ctx : d # l => pc'[d] = pc[d]
    BY <1>0, <1>2, PcAfter DEF CoExitISR
  <2>2. Nested' = Nested \ {l} /\ l \in Nested
    BY <2>1 DEF Nested, NestLabels, InsLabels, UnlockLabels
  <2>3. OSIntNesting' = Cardinality(Nested')
    BY <1>2, <2>2, NestedCount, FS_RemoveElement DEF CoExitISR, NestInv
  <2>4. \A k \in IsrLevels : pc'[k] \in {"switch", "xswitch"} => pc[k] = pc'[k]
    BY <2>1
  <2> QED BY <2>2, <2>3, <2>4 DEF NestInv
<1>3. CASE IsrPost(l) \/ InsertTest(l) \/ InsertIndex(l) \/ InsertWrite(l)
  BY <1>0, <1>3, NestFrame DEF IsrPost, InsertTest, InsertIndex, InsertWrite, NestLabels, InsLabels,
     UnlockLabels
<1>4. CASE ExitTest(l) \/ ExitLoad(l) \/ ExitStore(l)
  BY <1>0, <1>4, NestFrame DEF ExitTest, ExitLoad, ExitStore, Leave, NestLabels, InsLabels,
     UnlockLabels
<1> QED BY <1>1, <1>2, <1>3, <1>4 DEF IsrStep

\* Every step of the kernel keeps the count.
LEMMA NestNext == Inv /\ NestInv /\ [Next]_vars => NestInv'
<1> SUFFICES ASSUME Inv, NestInv, [Next]_vars PROVE NestInv'
  OBVIOUS
<1> USE CtxSplit DEF Inv
<1>1. ASSUME NEW c \in Ctx, LockStep(c) \/ UnlockStep(c) \/ (c \in Task /\ CoSchedUnlock(c))
      PROVE  NestInv'
  BY <1>1, NestLock, NestSched
<1>2. CASE PendSVEnter \/ PendSVStep \/ SysTickEnter
  BY <1>2, NestFrame DEF PendSVEnter, PendSVStep, PendSVLoad, PendSVStore, PendSVExit, SysTickEnter,
     Leave
<1>3. CASE SysTickStep
  <2>1. (\E x : Goto(0, x)) /\ OSIntNesting' = OSIntNesting
    BY <1>3 DEF SysTickStep, Tick, TickDispose, TickSched
  <2> QED BY <2>1, NestFrame
<1>4. ASSUME NEW l \in IsrLevels, CoEnterISR(l) \/ IsrStep(l)
      PROVE  NestInv'
  BY <1>4, NestIsr
<1>5. CASE UNCHANGED vars
  BY <1>5 DEF vars, NestInv, Nested
<1> QED BY <1>1, <1>2, <1>3, <1>4, <1>5 DEF Next, Ctx

\* A switch is decided at an interrupt level only when every user interrupt
\* below has left its ISR: CoExitISR never switches tasks under another one.
THEOREM OutermostSwitches == Spec => []SwitchFromOutermost
<1>1. Init => NestInv
  <2> SUFFICES ASSUME Init PROVE NestInv
    OBVIOUS
  <2>1. \A l \in IsrLevels : pc[l] = "idle"
    BY CtxSplit DEF Init, Ctx
  <2>2. Nested = {}
    BY <2>1 DEF Nested, NestLabels, InsLabels, UnlockLabels
  <2> QED BY <2>1, <2>2, FS_EmptySet DEF Init, NestInv
<1>2. Inv /\ NestInv => SwitchFromOutermost
  <2> SUFFICES ASSUME Inv, NestInv, NEW l \in IsrLevels, pc[l] = "xswitch",
                      NEW m \in IsrLevels, m < l
               PROVE  pc[m] \in {"idle", "xtest", "xlock", "xlockst"}
    BY DEF SwitchFromOutermost, NestInv
  <2>1. l \in Levels /\ m \in Levels /\ m \in Ctx /\ m # 0 /\ m \notin Task
    BY CtxSplit
  <2>2. entry[l] = 0 /\ pc[m] \notin NestLabels /\ pc[m] \in IsrLabels
    BY <2>1 DEF Inv, LevelLocal, LocalAt, AloneLabels, NestInv, Nested, Shape, PcShape, LabelsOf
  <2>3. pc[m] # "idle" => entry[l] >= entry[m] + Hold(m) /\ entry[m] >= 0 /\ entry[m] \in Int
    BY <2>1, CoreLockAssumption DEF Inv, Chain, Active, TaskLocal, Shape, LockShape
  <2>4. pc[m] # "idle" => pc[m] \notin HoldLabels
    BY <2>2, <2>3 DEF Hold, HoldAt
  <2> QED BY <2>2, <2>4 DEF IsrLabels, NestLabels, InsLabels, HoldLabels
<1> QED BY <1>1, <1>2, NestNext, Invariance, PTL DEF Spec

(***************************************************************************)
(* Part 10. The ring.  An ISR inside of InsertInSRQ has a place in it that *)
(* no other has, and the scheduler was locked when it was entered.         *)
(***************************************************************************)
RingInv ==
    /\ \A l \in IsrLevels : pc[l] \in InsLabels => entry[l] > 0
    /\ \A l \in IsrLevels : pc[l] = "insidx" => slot[l] < cnt
    /\ \A l \in IsrLevels : pc[l] = "inswr" =>
          \E p \in 0 .. cnt - 1 : slot[l] = (head + p) % MaxReq
    /\ \A p \in 0 .. MaxReq - 1 : \A l, m \in Writers(p) : l = m

\* The arithmetic of the ring: a place counted from head, as an index.
LEMMA RingIndex ==
    ASSUME NEW h \in 0 .. MaxReq - 1, NEW p \in 0 .. MaxReq
    PROVE  (h + p) % MaxReq = IF h + p < MaxReq THEN h + p ELSE h + p - MaxReq
<1>1. MaxReq \in Nat /\ MaxReq > 0 /\ h \in Nat /\ p \in Nat
  BY CoreLockAssumption
<1>2. CASE h + p < MaxReq
  BY <1>1, <1>2
<1>3. CASE ~(h + p < MaxReq)
  BY <1>1, <1>3
<1> QED BY <1>2, <1>3

\* Different places have different cells.
LEMMA RingApart ==
    ASSUME NEW h \in 0 .. MaxReq - 1, NEW p \in 0 .. MaxReq - 1, NEW q \in 0 .. MaxReq - 1,
           (h + p) % MaxReq = (h + q) % MaxReq
    PROVE  p = q
<1>1. p \in 0 .. MaxReq /\ q \in 0 .. MaxReq /\ MaxReq \in Nat
  BY CoreLockAssumption
<1>2. /\ (h + p) % MaxReq = IF h + p < MaxReq THEN h + p ELSE h + p - MaxReq
      /\ (h + q) % MaxReq = IF h + q < MaxReq THEN h + q ELSE h + q - MaxReq
  BY <1>1, RingIndex
<1> QED BY <1>1, <1>2

\* Moving head on by one moves every place down by one.
LEMMA RingNext ==
    ASSUME NEW h \in 0 .. MaxReq - 1, NEW p \in 0 .. MaxReq - 1
    PROVE  /\ (h + 1) % MaxReq \in 0 .. MaxReq - 1
           /\ p + 1 < MaxReq => (((h + 1) % MaxReq) + p) % MaxReq = (h + (p + 1)) % MaxReq
           /\ (h + 0) % MaxReq = h
<1>1. /\ 1 \in 0 .. MaxReq /\ p + 1 \in 0 .. MaxReq /\ 0 \in 0 .. MaxReq
      /\ MaxReq \in Nat /\ p \in 0 .. MaxReq
  BY CoreLockAssumption
<1>2. (h + 1) % MaxReq = IF h + 1 < MaxReq THEN h + 1 ELSE h + 1 - MaxReq
  BY <1>1, RingIndex
<1>3. (h + 1) % MaxReq \in 0 .. MaxReq - 1
  BY <1>1, <1>2
<1>4. PICK g \in 0 .. MaxReq - 1 : g = (h + 1) % MaxReq
  BY <1>3
<1>5. /\ (g + p) % MaxReq = IF g + p < MaxReq THEN g + p ELSE g + p - MaxReq
      /\ (h + (p + 1)) % MaxReq = IF h + (p + 1) < MaxReq THEN h + (p + 1)
                                  ELSE h + (p + 1) - MaxReq
      /\ (h + 0) % MaxReq = IF h + 0 < MaxReq THEN h + 0 ELSE h + 0 - MaxReq
  BY <1>1, RingIndex
<1>6. p + 1 < MaxReq => (g + p) % MaxReq = (h + (p + 1)) % MaxReq
  BY <1>1, <1>2, <1>4, <1>5
<1>7. (h + 0) % MaxReq = h
  BY <1>1, <1>5
<1> QED BY <1>3, <1>4, <1>6, <1>7

\* A set with one element is that element's choice.
LEMMA ChooseOnly ==
    ASSUME NEW S, NEW x \in S, \A y \in S : y = x
    PROVE  (CHOOSE y \in S : TRUE) = x
OBVIOUS

\* Who writes at a place is known from labels and slots alone.
LEMMA WritersFrame ==
    ASSUME NEW c \in Ctx, NEW x, Shape, Goto(c, x), head' = head,
           \A l \in IsrLevels : l # c => slot'[l] = slot[l],
           pc[c] \notin {"insidx", "inswr"}, x \notin {"insidx", "inswr"}
    PROVE  \A p : Writers(p)' = Writers(p)
<1>1. pc'[c] = x /\ \A d \in Ctx : d # c => pc'[d] = pc[d]
  BY PcAfter
<1> QED BY <1>1, CtxSplit DEF Writers

\* A step outside of InsertInSRQ and of the loop of RespondSRQ leaves the
\* ring alone.
LEMMA RingFrame ==
    ASSUME Shape, RingInv, NEW c \in Ctx, NEW x, Goto(c, x),
           UNCHANGED <<cnt, head, cell, slot, served>>,
           \A l \in IsrLevels : l # c => arg'[l] = arg[l] /\ entry'[l] = entry[l],
           pc[c] \notin {"insidx", "inswr"}, x \notin {"insidx", "inswr"},
           c \in IsrLevels /\ x = "ins" => entry'[c] > 0
    PROVE  RingInv' /\ UNCHANGED <<AbsQueue, served>>
<1>1. pc'[c] = x /\ \A d \in Ctx : d # c => pc'[d] = pc[d]
  BY PcAfter
<1>2. \A p : Writers(p)' = Writers(p)
  BY WritersFrame
<1>3. \A p : \A l \in Writers(p) : l # c /\ l \in IsrLevels
  BY DEF Writers
<1>4. RingInv'
  BY <1>1, <1>2, CtxSplit DEF RingInv, InsLabels
<1>5. \A p : Writers(p) # {} => (CHOOSE l \in Writers(p) : TRUE) \in Writers(p)
  OBVIOUS
<1>6. \A p : Writers(p) # {} => arg'[CHOOSE l \in Writers(p) : TRUE] =
                                arg[CHOOSE l \in Writers(p) : TRUE]
  BY <1>3, <1>5
<1>7. AbsQueue' = AbsQueue
  BY <1>2, <1>6 DEF AbsQueue
<1> QED BY <1>4, <1>7

\* What the abstract queue has at a place.
At(p) == IF Writers(p) = {} THEN cell[(head + p) % MaxReq]
         ELSE arg[CHOOSE l \in Writers(p) : TRUE]

\* AbsQueue is a queue of requests, at most MaxReq of them.
LEMMA QueueShape ==
    ASSUME Shape
    PROVE  /\ AbsQueue = [i \in 1 .. cnt |-> At(i - 1)]
           /\ \A p \in 0 .. MaxReq - 1 : At(p) \in Req
           /\ AbsQueue \in Seq(Req) /\ Len(AbsQueue) = cnt
<1>0. cnt \in Nat /\ cnt <= MaxReq /\ head \in Nat /\ MaxReq \in Nat
  BY CoreLockAssumption DEF Shape, SrqShape
<1>1. \A i \in 1 .. cnt : head + i - 1 = head + (i - 1)
  BY <1>0
<1>2. AbsQueue = [i \in 1 .. cnt |-> At(i - 1)]
  BY <1>1 DEF AbsQueue, At
<1>3. ASSUME NEW p \in 0 .. MaxReq - 1 PROVE At(p) \in Req
  <2>1. (head + p) % MaxReq \in 0 .. MaxReq - 1
    BY <1>0, ModRange
  <2>2. \A l \in Writers(p) : l \in Levels
    BY CtxSplit DEF Writers
  <2>3. Writers(p) # {} => (CHOOSE l \in Writers(p) : TRUE) \in Writers(p)
    OBVIOUS
  <2> QED BY <2>1, <2>2, <2>3 DEF At, Shape, SrqShape
<1>4. \A i \in 1 .. cnt : At(i - 1) \in Req
  BY <1>0, <1>3
<1> QED BY <1>0, <1>2, <1>3, <1>4

\* Two queues that agree at every place are the same.
LEMMA QueueSame ==
    ASSUME Shape, Shape', cnt' = cnt, \A p \in 0 .. cnt - 1 : At(p)' = At(p)
    PROVE  AbsQueue' = AbsQueue
<1>1. cnt \in Nat /\ head' \in Nat /\ head \in Nat
  BY DEF Shape, SrqShape
<1>2. \A i \in 1 .. cnt : i - 1 \in 0 .. cnt - 1
  BY <1>1
<1>3. AbsQueue' = [i \in 1 .. cnt |-> At(i - 1)']
  <2>1. \A i \in 1 .. cnt : head' + i - 1 = head' + (i - 1)
    BY <1>1
  <2> QED BY <2>1 DEF AbsQueue, At
<1> QED BY <1>2, <1>3, QueueShape

\* A request that is accepted goes to the end of the queue at once, before
\* its cell is written.
LEMMA RingAccept ==
    ASSUME Shape, Shape', RingInv, NEW l \in IsrLevels, InsertTest(l), cnt < MaxReq
    PROVE  RingInv' /\ AbsQueue' = Append(AbsQueue, arg[l]) /\ served' = served
<1> USE CtxSplit
<1>0. /\ cnt \in 0 .. MaxReq - 1 /\ head \in 0 .. MaxReq - 1 /\ MaxReq \in Nat
      /\ l \in Ctx /\ l \in Levels
  BY CoreLockAssumption DEF Shape, SrqShape
<1>1. /\ cnt' = cnt + 1 /\ slot' = [slot EXCEPT ![l] = cnt] /\ Goto(l, "insidx")
      /\ pc[l] = "ins"
      /\ UNCHANGED <<head, cell, arg, served, entry>>
  BY <1>0 DEF InsertTest, lockVars
<1>2. /\ pc'[l] = "insidx" /\ \A d \in Ctx : d # l => pc'[d] = pc[d]
      /\ slot'[l] = cnt /\ \A d \in IsrLevels : d # l => slot'[d] = slot[d]
  BY <1>0, <1>1, PcAfter DEF Shape, SrqShape
<1>3. Writers(cnt) = {}
  <2>1. \A m \in IsrLevels : pc[m] = "insidx" => slot[m] # cnt
    BY <1>0 DEF RingInv, Shape, SrqShape
  <2>2. \A m \in IsrLevels : pc[m] = "inswr" => slot[m] # (head + cnt) % MaxReq
    <3> SUFFICES ASSUME NEW m \in IsrLevels, pc[m] = "inswr", slot[m] = (head + cnt) % MaxReq
                 PROVE  FALSE
      OBVIOUS
    <3>1. PICK p \in 0 .. cnt - 1 : slot[m] = (head + p) % MaxReq
      BY DEF RingInv
    <3>2. p \in 0 .. MaxReq - 1 /\ p # cnt
      BY <1>0
    <3> QED BY <1>0, <3>1, <3>2, RingApart
  <2> QED BY <2>1, <2>2 DEF Writers
<1>4. PICK n \in 0 .. MaxReq - 1 : n = cnt
  BY <1>0
<1>5. Writers(n)' = {l} /\ \A p \in 0 .. MaxReq - 1 : p # n => Writers(p)' = Writers(p)
  <2>1. \A p, m : m # l => (m \in Writers(p)' <=> m \in Writers(p))
    BY <1>1, <1>2 DEF Writers
  <2>2. \A p : l \notin Writers(p)
    BY <1>1 DEF Writers
  <2>3. \A p \in 0 .. MaxReq - 1 : l \in Writers(p)' <=> p = n
    BY <1>2, <1>4 DEF Writers
  <2>4. Writers(n)' = {l}
    BY <1>3, <1>4, <2>1, <2>3
  <2>5. ASSUME NEW p \in 0 .. MaxReq - 1, p # n PROVE Writers(p)' = Writers(p)
    BY <2>1, <2>2, <2>3, <2>5
  <2> QED BY <2>4, <2>5
<1>6. \A p \in 0 .. n - 1 : At(p)' = At(p)
  <2> SUFFICES ASSUME NEW p \in 0 .. n - 1 PROVE At(p)' = At(p)
    OBVIOUS
  <2>1. Writers(p)' = Writers(p)
    BY <1>0, <1>4, <1>5
  <2> QED BY <1>1, <2>1 DEF At
<1>7. At(n)' = arg[l]
  BY <1>1, <1>5, ChooseOnly DEF At
<1>8. AbsQueue' = Append(AbsQueue, arg[l])
  <2>1. AbsQueue = [i \in 1 .. n |-> At(i - 1)] /\ Len(AbsQueue) = n
    BY <1>4, QueueShape
  <2>2. AbsQueue' = [i \in 1 .. n + 1 |-> At(i - 1)']
    <3>1. \A i \in 1 .. cnt' : head' + i - 1 = head' + (i - 1)
      BY <1>0, <1>1
    <3>2. AbsQueue' = [i \in 1 .. cnt' |-> At(i - 1)']
      BY <3>1 DEF AbsQueue, At
    <3> QED BY <1>1, <1>4, <3>2
  <2>3. \A i \in 1 .. n : At(i - 1)' = At(i - 1)
    BY <1>4, <1>6
  <2>4. n \in Nat /\ n + 1 - 1 = n
    BY <1>0, <1>4
  <2>5. Append(AbsQueue, arg[l]) = [i \in 1 .. n + 1 |-> IF i = n + 1 THEN arg[l] ELSE At(i - 1)]
    BY <2>1, <2>4
  <2> QED BY <1>7, <2>2, <2>3, <2>4, <2>5
<1>9. RingInv'
  <2>1. \A m \in IsrLevels : (pc[m] \in InsLabels => entry[m] > 0)' /\ (pc[m] = "insidx" => slot[m] < cnt)'
    BY <1>0, <1>1, <1>2 DEF RingInv, InsLabels, Shape, SrqShape
  <2>2. ASSUME NEW m \in IsrLevels, pc'[m] = "inswr"
        PROVE  \E p \in 0 .. cnt' - 1 : slot'[m] = (head' + p) % MaxReq
    <3>1. m # l /\ pc[m] = "inswr" /\ slot'[m] = slot[m]
      BY <1>2, <2>2
    <3>2. PICK p \in 0 .. cnt - 1 : slot[m] = (head + p) % MaxReq
      BY <3>1 DEF RingInv
    <3>3. p \in 0 .. cnt' - 1
      BY <1>0, <1>1
    <3> QED BY <1>1, <3>1, <3>2, <3>3
  <2>3. \A p \in 0 .. MaxReq - 1 : \A k, m \in Writers(p)' : k = m
    BY <1>5 DEF RingInv
  <2> QED BY <2>1, <2>2, <2>3 DEF RingInv
<1> QED BY <1>1, <1>8, <1>9

\* Working out the index of the cell does not move the place taken.
LEMMA RingPlace ==
    ASSUME Shape, Shape', RingInv, NEW l \in IsrLevels, InsertIndex(l)
    PROVE  RingInv' /\ UNCHANGED <<AbsQueue, served>>
<1> USE CtxSplit
<1>0. /\ cnt \in 0 .. MaxReq /\ head \in 0 .. MaxReq - 1 /\ MaxReq \in Nat
      /\ l \in Ctx /\ l \in Levels
  BY CoreLockAssumption DEF Shape, SrqShape
<1>1. /\ slot' = [slot EXCEPT ![l] = (slot[l] + head) % MaxReq] /\ Goto(l, "inswr")
      /\ pc[l] = "insidx"
      /\ UNCHANGED <<cnt, head, cell, arg, served, entry>>
  BY <1>0 DEF InsertIndex, lockVars
<1>2. PICK s \in 0 .. MaxReq - 1 : s = slot[l]
  BY <1>0 DEF Shape, SrqShape
<1>3. s + head = head + s /\ s \in 0 .. cnt - 1
  BY <1>0, <1>1, <1>2 DEF RingInv
<1>4. /\ pc'[l] = "inswr" /\ \A d \in Ctx : d # l => pc'[d] = pc[d]
      /\ slot'[l] = (head + s) % MaxReq /\ \A d \in IsrLevels : d # l => slot'[d] = slot[d]
  BY <1>0, <1>1, <1>2, <1>3, PcAfter DEF Shape, SrqShape
<1>5. \A p \in 0 .. MaxReq - 1 : Writers(p)' = Writers(p)
  <2>1. \A p, m : m # l => (m \in Writers(p)' <=> m \in Writers(p))
    BY <1>1, <1>4 DEF Writers
  <2>2. ASSUME NEW p \in 0 .. MaxReq - 1
        PROVE  l \in Writers(p)' <=> l \in Writers(p)
    <3>1. l \in Writers(p) <=> p = s
      BY <1>1, <1>2 DEF Writers
    <3>2. l \in Writers(p)' <=> (head + s) % MaxReq = (head + p) % MaxReq
      BY <1>1, <1>4 DEF Writers
    <3> QED BY <1>0, <3>1, <3>2, RingApart
  <2> QED BY <2>1, <2>2
<1>6. \A p \in 0 .. cnt - 1 : At(p)' = At(p)
  <2> SUFFICES ASSUME NEW p \in 0 .. cnt - 1 PROVE At(p)' = At(p)
    OBVIOUS
  <2>1. p \in 0 .. MaxReq - 1
    BY <1>0
  <2>2. Writers(p)' = Writers(p)
    BY <1>5, <2>1
  <2> QED BY <1>1, <2>2 DEF At
<1>7. AbsQueue' = AbsQueue
  BY <1>1, <1>6, QueueSame
<1>8. RingInv'
  <2>1. \A m \in IsrLevels : (pc[m] \in InsLabels => entry[m] > 0)' /\ (pc[m] = "insidx" => slot[m] < cnt)'
    BY <1>1, <1>4 DEF RingInv, InsLabels
  <2>2. \A m \in IsrLevels : pc'[m] = "inswr" =>
           \E p \in 0 .. cnt' - 1 : slot'[m] = (head' + p) % MaxReq
    BY <1>1, <1>3, <1>4 DEF RingInv
  <2>3. \A p \in 0 .. MaxReq - 1 : \A k, m \in Writers(p)' : k = m
    BY <1>5 DEF RingInv
  <2> QED BY <2>1, <2>2, <2>3 DEF RingInv
<1> QED BY <1>1, <1>7, <1>8

\* The cell that is written is that of the place taken, and of no other.
LEMMA RingWrite ==
    ASSUME Shape, Shape', RingInv, NEW l \in IsrLevels, InsertWrite(l)
    PROVE  RingInv' /\ UNCHANGED <<AbsQueue, served>>
<1> USE CtxSplit
<1>0. /\ cnt \in 0 .. MaxReq /\ head \in 0 .. MaxReq - 1 /\ MaxReq \in Nat
      /\ l \in Ctx /\ l \in Levels
  BY CoreLockAssumption DEF Shape, SrqShape
<1>1. /\ slot' = [slot EXCEPT ![l] = 0] /\ Goto(l, "isr") /\ pc[l] = "inswr"
      /\ cell' = [cell EXCEPT ![slot[l]] = arg[l]]
      /\ UNCHANGED <<cnt, head, arg, served, entry>>
  BY <1>0 DEF InsertWrite, lockVars
<1>2. PICK s \in 0 .. cnt - 1 : slot[l] = (head + s) % MaxReq
  BY <1>1 DEF RingInv
<1>3. /\ pc'[l] = "isr" /\ \A d \in Ctx : d # l => pc'[d] = pc[d]
      /\ \A d \in IsrLevels : d # l => slot'[d] = slot[d]
      /\ s \in 0 .. MaxReq - 1
  BY <1>0, <1>1, PcAfter DEF Shape, SrqShape
<1>4. \A p \in 0 .. MaxReq - 1 : Writers(p)' = Writers(p) \ {l}
  BY <1>1, <1>3 DEF Writers
<1>5. ASSUME NEW p \in 0 .. MaxReq - 1 PROVE l \in Writers(p) <=> p = s
  <2>1. l \in Writers(p) <=> (head + s) % MaxReq = (head + p) % MaxReq
    BY <1>1, <1>2 DEF Writers
  <2> QED BY <1>0, <1>3, <2>1, RingApart
<1>6. ASSUME NEW p \in 0 .. cnt - 1 PROVE At(p)' = At(p)
  <2>0. /\ p \in 0 .. MaxReq - 1
        /\ (head + p) % MaxReq \in 0 .. MaxReq - 1
        /\ cell \in [0 .. MaxReq - 1 -> Req]
    <3>1. head + p \in Nat /\ p \in 0 .. MaxReq - 1
      BY <1>0
    <3> QED BY <3>1, ModRange DEF Shape, SrqShape
  <2>1. CASE p = s
    <3>1. Writers(p) = {l} /\ Writers(p)' = {}
      BY <1>4, <1>5, <2>0, <2>1 DEF RingInv
    <3>2. At(p) = arg[l]
      BY <3>1, ChooseOnly DEF At
    <3>3. At(p)' = cell'[(head + p) % MaxReq]
      BY <1>1, <3>1 DEF At
    <3> QED BY <1>1, <1>2, <2>0, <2>1, <3>2, <3>3
  <2>2. CASE p # s
    <3>1. Writers(p)' = Writers(p)
      BY <1>4, <1>5, <2>0, <2>2
    <3>2. (head + p) % MaxReq # slot[l]
      BY <1>0, <1>2, <1>3, <2>0, <2>2, RingApart
    <3>3. cell'[(head + p) % MaxReq] = cell[(head + p) % MaxReq]
      BY <1>1, <2>0, <3>2
    <3> QED BY <1>1, <3>1, <3>3 DEF At
  <2> QED BY <2>1, <2>2
<1>7. AbsQueue' = AbsQueue
  BY <1>1, <1>6, QueueSame
<1>8. RingInv'
  <2>1. \A m \in IsrLevels : (pc[m] \in InsLabels => entry[m] > 0)' /\ (pc[m] = "insidx" => slot[m] < cnt)'
    BY <1>1, <1>3 DEF RingInv, InsLabels
  <2>2. \A m \in IsrLevels : pc'[m] = "inswr" =>
           \E p \in 0 .. cnt' - 1 : slot'[m] = (head' + p) % MaxReq
    BY <1>1, <1>3 DEF RingInv
  <2>3. \A p \in 0 .. MaxReq - 1 : \A k, m \in Writers(p)' : k = m
    BY <1>4 DEF RingInv
  <2> QED BY <2>1, <2>2, <2>3 DEF RingInv
<1> QED BY <1>1, <1>7, <1>8

\* RespondSRQ takes a request out only when no ISR is inside InsertInSRQ: that
\* ISR found the scheduler locked, and so would whoever interrupted it.
LEMMA NoInserting ==
    ASSUME Inv, RingInv, NEW c \in Ctx, Runs(c), pc[c] = "loop"
    PROVE  \A l \in IsrLevels : pc[l] \notin InsLabels
<1> SUFFICES ASSUME NEW l \in IsrLevels, pc[l] \in InsLabels PROVE FALSE
  OBVIOUS
<1>0. /\ pc[l] # "idle" /\ l # c /\ l \in Levels /\ entry[l] > 0
      /\ l \in Int /\ entry[l] \in Int
  BY CtxSplit, CoreLockAssumption DEF InsLabels, RingInv, Inv, Shape, LockShape, Levels
<1>1. CASE c \in Task
  BY <1>0, <1>1, CtxSplit DEF Runs, TaskRuns
<1>2. CASE c \in Levels
  <2>1. LevelRuns(c) /\ entry[c] = 0 /\ c \in Int
    BY <1>2, CtxSplit, CoreLockAssumption
       DEF Runs, Inv, LevelLocal, LocalAt, AloneLabels, Levels
  <2>2. l < c
    BY <1>0, <1>2, <2>1 DEF LevelRuns
  <2>3. entry[c] >= entry[l] + Hold(l) /\ Hold(l) \in {0, 1}
    BY <1>0, <1>2, <2>2, <2>1 DEF Inv, Chain, Active, LevelRuns, Hold, HoldAt
  <2> QED BY <1>0, <2>1, <2>3
<1> QED BY <1>1, <1>2 DEF Ctx

\* Taking a cell out takes the oldest request out.
LEMMA RingServe ==
    ASSUME Inv, Shape', RingInv, NEW c \in Ctx, PopSRQ(c)
    PROVE  /\ RingInv'
           /\ AbsQueue # << >> /\ served' = Head(AbsQueue) /\ AbsQueue' = Tail(AbsQueue)
<1> USE DEF Inv
<1>0. /\ cnt \in 1 .. MaxReq /\ head \in 0 .. MaxReq - 1 /\ MaxReq \in Nat
  BY CoreLockAssumption DEF Shape, SrqShape, PopSRQ
<1>1. /\ cnt' = cnt - 1 /\ head' = (head + 1) % MaxReq /\ served' = cell[head]
      /\ Goto(c, "serve") /\ UNCHANGED <<cell, slot, arg, entry>>
      /\ pc[c] = "loop" /\ Runs(c)
  BY DEF PopSRQ, lockVars
<1>2. \A l \in IsrLevels : pc[l] \notin InsLabels /\ pc'[l] \notin InsLabels
  BY <1>1, NoInserting, PcAfter, CtxSplit DEF InsLabels
<1>3. \A p : Writers(p) = {} /\ Writers(p)' = {}
  BY <1>2 DEF Writers, InsLabels
<1>4. PICK n \in 1 .. MaxReq : n = cnt
  BY <1>0
<1>5. PICK h \in 0 .. MaxReq - 1 : h = head
  BY <1>0
<1>6. AbsQueue = [i \in 1 .. n |-> cell[(h + i - 1) % MaxReq]]
  BY <1>3, <1>4, <1>5 DEF AbsQueue
<1>7. AbsQueue' = [i \in 1 .. n - 1 |-> cell[(((h + 1) % MaxReq) + i - 1) % MaxReq]]
  BY <1>1, <1>3, <1>4, <1>5 DEF AbsQueue
<1>8. ASSUME NEW i \in 1 .. n - 1
      PROVE  (((h + 1) % MaxReq) + i - 1) % MaxReq = (h + (i + 1) - 1) % MaxReq
  <2>1. /\ i - 1 \in 0 .. MaxReq - 1 /\ (i - 1) + 1 < MaxReq /\ h + ((i - 1) + 1) = h + (i + 1) - 1
    BY <1>0
  <2>2. PICK g \in 0 .. MaxReq - 1 : g = (h + 1) % MaxReq
    BY <2>1, RingNext
  <2>3. g + (i - 1) = g + i - 1
    BY <1>0
  <2>4. (g + (i - 1)) % MaxReq = (h + ((i - 1) + 1)) % MaxReq
    BY <2>1, <2>2, RingNext
  <2> QED BY <2>1, <2>2, <2>3, <2>4
<1>9. (h + 1 - 1) % MaxReq = h
  <2>1. 0 \in 0 .. MaxReq - 1 /\ h + 1 - 1 = h + 0
    BY <1>0
  <2> QED BY <2>1, RingNext
<1>10. AbsQueue \in Seq(Req) /\ Len(AbsQueue) = n
  BY <1>4, QueueShape
<1>11. AbsQueue # << >> /\ Head(AbsQueue) = AbsQueue[1] /\ 1 \in 1 .. n
  BY <1>0, <1>10
<1>12. served' = Head(AbsQueue)
  BY <1>1, <1>5, <1>6, <1>9, <1>11
<1>13. Tail(AbsQueue) = [i \in 1 .. n - 1 |-> AbsQueue[i + 1]]
  <2>1. PICK q \in Seq(Req) : q = AbsQueue
    BY <1>10
  <2>2. q # << >> /\ Len(q) = n /\ Len(q) - 1 = n - 1
    BY <1>10, <1>11, <2>1
  <2>3. Tail(q) \in Seq(Req) /\ Len(Tail(q)) = n - 1 /\ \A i \in 1 .. n - 1 : Tail(q)[i] = q[i + 1]
    BY <2>2
  <2>4. PICK r \in [1 .. n - 1 -> Req] : r = Tail(q)
    BY <2>3, LenProperties
  <2>5. r = [i \in 1 .. n - 1 |-> q[i + 1]]
    BY <2>3, <2>4
  <2> QED BY <2>1, <2>4, <2>5
<1>14. \A i \in 1 .. n - 1 : AbsQueue[i + 1] = cell[(h + (i + 1) - 1) % MaxReq]
  BY <1>6
<1>15. AbsQueue' = Tail(AbsQueue)
  BY <1>7, <1>8, <1>13, <1>14
<1>16. RingInv'
  BY <1>2, <1>3 DEF RingInv, InsLabels
<1> QED BY <1>11, <1>12, <1>15, <1>16

\* OsSchedLock and OsSchedUnlock change the ring at PopSRQ only.
LEMMA RingLock ==
    ASSUME Shape, RingInv, NEW c \in Ctx,
           LockStep(c) \/ (UnlockStep(c) /\ ~PopSRQ(c)) \/ (c \in Task /\ CoSchedUnlock(c))
    PROVE  RingInv' /\ UNCHANGED <<AbsQueue, served>>
<1> USE DEF lockVars, srqVars
<1>0. entry \in [Levels -> Int]
  BY DEF Shape, LockShape
<1>1. PICK x : /\ Goto(c, x) /\ x \notin InsLabels /\ pc[c] \notin InsLabels
               /\ UNCHANGED <<cnt, head, cell, slot, arg, served>>
               /\ entry' = entry \/ entry' = [entry EXCEPT ![c] = 0]
  <2> USE DEF InsLabels
  <2>1. CASE LockStep(c) \/ (c \in Task /\ CoSchedUnlock(c))
    BY <2>1, Zenon DEF LockStep, LockLoad, LockStore, KernelOp, CoSchedUnlock
  <2>2. CASE UnlockTest(c)
    BY <2>2 DEF UnlockTest
  <2>3. CASE LockDec(c) \/ Release(c)
    BY <2>3 DEF LockDec, Release, Leave, Return
  <2>4. CASE IsrReqTest(c) \/ TimeDispose(c) \/ TimeReqClear(c) \/ Serve(c)
    BY <2>4 DEF IsrReqTest, TimeDispose, TimeReqClear, Serve
  <2>5. CASE PopEnd(c) \/ IsrReqClear(c) \/ SchedReqTest(c)
    BY <2>5 DEF PopEnd, IsrReqClear, SchedReqTest
  <2>6. CASE SchedTest(c) \/ Switch(c)
    BY <2>6 DEF SchedTest, Switch, AfterSchedule
  <2> QED BY <2>1, <2>2, <2>3, <2>4, <2>5, <2>6 DEF UnlockStep
<1>2. \A l \in IsrLevels : l # c => arg'[l] = arg[l] /\ entry'[l] = entry[l]
  BY <1>0, <1>1, CtxSplit
<1> QED BY <1>1, <1>2, RingFrame DEF InsLabels

\* SysTick and PendSV leave the ring alone.
LEMMA RingLevel0 ==
    ASSUME Shape, RingInv, PendSVEnter \/ PendSVStep \/ SysTickEnter \/ SysTickStep
    PROVE  RingInv' /\ UNCHANGED <<AbsQueue, served>>
<1> USE DEF lockVars, srqVars
<1>0. entry \in [Levels -> Int] /\ 0 \in Ctx /\ 0 \notin IsrLevels
  BY CtxSplit DEF Shape, LockShape
<1>1. PICK x : /\ Goto(0, x) /\ x \notin {"insidx", "inswr"} /\ pc[0] \notin {"insidx", "inswr"}
               /\ UNCHANGED <<cnt, head, cell, slot, arg, served>>
               /\ entry' = entry \/ \E v : entry' = [entry EXCEPT ![0] = v]
  <2>1. CASE PendSVEnter \/ SysTickEnter
    <3>1. pc[0] = "idle"
      BY <2>1, CtxSplit DEF PendSVEnter, SysTickEnter
    <3> QED BY <2>1, <3>1 DEF PendSVEnter, SysTickEnter
  <2>2. CASE PendSVStep
    BY <2>2 DEF PendSVStep, PendSVLoad, PendSVStore, PendSVExit, Leave
  <2>3. CASE SysTickStep
    BY <2>3, Zenon DEF SysTickStep, Tick, TickDispose, TickSched
  <2> QED BY <2>1, <2>2, <2>3
<1>2. \A l \in IsrLevels : l # 0 => arg'[l] = arg[l] /\ entry'[l] = entry[l]
  BY <1>0, <1>1, CtxSplit
<1> QED BY <1>0, <1>1, <1>2, RingFrame

\* An ISR changes the queue when InsertInSRQ accepts its request, and only then.
LEMMA RingIsr ==
    ASSUME Inv, Shape', RingInv, NEW l \in IsrLevels, CoEnterISR(l) \/ IsrStep(l)
    PROVE  /\ RingInv'
           /\ \/ UNCHANGED <<AbsQueue, served>>
              \/ Len(AbsQueue) < MaxReq /\ AbsQueue' = Append(AbsQueue, arg[l]) /\ served' = served
<1> USE DEF lockVars, srqVars, Inv
<1>0. /\ entry \in [Levels -> Int] /\ arg \in [Levels -> Req] /\ l \in Ctx /\ l \in Levels
      /\ cnt \in 0 .. MaxReq /\ MaxReq \in Nat /\ l >= l
  <2>1. l \in Int /\ MaxReq \in Nat
    BY CoreLockAssumption DEF IsrLevels
  <2> QED BY <2>1, CtxSplit DEF Shape, LockShape, SrqShape
<1>1. CASE CoEnterISR(l)
  <2>1. pc[l] = "idle"
    BY <1>0, <1>1 DEF CoEnterISR
  <2> QED BY <1>0, <1>1, <2>1, CtxSplit, RingFrame DEF CoEnterISR
<1>2. CASE IsrPost(l)
  <2>1. /\ Goto(l, IF OSSchedLock > 0 THEN "ins" ELSE "lock") /\ pc[l] = "isr" /\ LevelRuns(l)
        /\ UNCHANGED <<cnt, head, cell, slot, served, entry>>
        /\ \A m \in IsrLevels : m # l => arg'[m] = arg[m]
    BY <1>0, <1>2, CtxSplit DEF IsrPost
  <2>2. OSSchedLock = entry[l]
    BY <1>0, <2>1, LevelRunsCount DEF HoldLabels, UnlockLabels
  <2> QED BY <1>0, <2>1, <2>2, RingFrame
<1>3. CASE InsertTest(l)
  <2>1. CASE cnt < MaxReq
    BY <1>3, <2>1, RingAccept, QueueShape
  <2>2. CASE ~(cnt < MaxReq)
    <3>1. cnt >= MaxReq
      BY <1>0, <2>2
    <3> QED BY <1>0, <1>3, <3>1, RingFrame DEF InsertTest
  <2> QED BY <2>1, <2>2
<1>4. CASE InsertIndex(l)
  BY <1>4, RingPlace
<1>5. CASE InsertWrite(l)
  BY <1>5, RingWrite
<1>6. CASE CoExitISR(l) \/ ExitLoad(l) \/ ExitStore(l)
  BY <1>0, <1>6, RingFrame DEF CoExitISR, ExitLoad, ExitStore
<1>7. CASE ExitTest(l)
  <2>1. \A m \in IsrLevels : m # l => entry'[m] = entry[m]
    BY <1>0, <1>7, CtxSplit DEF ExitTest, Leave
  <2> QED BY <1>0, <1>7, <2>1, RingFrame DEF ExitTest, Leave
<1> QED BY <1>1, <1>2, <1>3, <1>4, <1>5, <1>6, <1>7 DEF IsrStep

\* Every step of the kernel is a step of the queue, or none.
LEMMA RingStep ==
    ASSUME Inv, Inv', RingInv, [Next]_vars
    PROVE  RingInv' /\ [AbstractQueue!Next]_<<AbsQueue, served>>
<1> USE DEF Inv
<1>1. ASSUME NEW c \in Ctx, LockStep(c) \/ UnlockStep(c) \/ (c \in Task /\ CoSchedUnlock(c))
      PROVE  RingInv' /\ [AbstractQueue!Next]_<<AbsQueue, served>>
  <2>1. CASE PopSRQ(c)
    BY <2>1, RingServe DEF AbstractQueue!Next, AbstractQueue!Serve
  <2>2. CASE ~PopSRQ(c)
    BY <1>1, <2>2, RingLock
  <2> QED BY <2>1, <2>2
<1>2. CASE PendSVEnter \/ PendSVStep \/ SysTickEnter \/ SysTickStep
  BY <1>2, RingLevel0
<1>3. ASSUME NEW l \in IsrLevels, CoEnterISR(l) \/ IsrStep(l)
      PROVE  RingInv' /\ [AbstractQueue!Next]_<<AbsQueue, served>>
  <2>1. arg[l] \in Req
    BY CtxSplit DEF Shape, SrqShape
  <2> QED BY <1>3, <2>1, RingIsr DEF AbstractQueue!Next, AbstractQueue!Accept
<1>4. CASE UNCHANGED vars
  BY <1>4 DEF vars, srqVars, lockVars, RingInv, Writers, AbsQueue
<1> QED BY <1>1, <1>2, <1>3, <1>4, CtxSplit DEF Next

\* ServiceReq is a bounded FIFO queue for any number of interrupt levels and
\* cells: a request is accepted at once or refused, no request is lost,
\* duplicated, overtaken, or served before its cell is written, wherever
\* InsertInSRQ and RespondSRQ are interrupted.
THEOREM RefinesServiceQueue == Spec => ImplementsServiceQueue
<1>1. Init => RingInv /\ AbstractQueue!Init
  <2> SUFFICES ASSUME Init PROVE RingInv /\ AbstractQueue!Init
    OBVIOUS
  <2>1. \A l \in IsrLevels : pc[l] = "idle"
    BY CtxSplit DEF Init, Ctx
  <2>2. cnt = 0 /\ served \in Req
    BY DEF Init
  <2>3. \A p : Writers(p) = {}
    BY <2>1 DEF Writers
  <2>4. RingInv
    BY <2>1, <2>3 DEF RingInv, InsLabels
  <2>5. AbsQueue = << >>
    BY <2>2 DEF AbsQueue
  <2> QED BY <2>2, <2>4, <2>5 DEF AbstractQueue!Init
<1>2. Inv /\ Inv' /\ RingInv /\ [Next]_vars => RingInv' /\ [AbstractQueue!Next]_<<AbsQueue, served>>
  BY RingStep
<1> QED BY <1>1, <1>2, Invariance, PTL DEF Spec, ImplementsServiceQueue, AbstractQueue!Spec
=============================================================================
