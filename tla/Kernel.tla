------------------------------- MODULE Kernel -------------------------------
(***************************************************************************)
(* The kernel state after CoInitOS, the end of delays, Schedule, the       *)
(* service requests, OsSchedUnlock and the tick handler, as operators on   *)
(* the kernel states of KernelLists.                                       *)
(***************************************************************************)
EXTENDS Flags

\* The kernel as CoInitOS leaves it, with Idle the only task and the other
\* TCBs in the order free, and every event created.
CoInitOS(free) ==
  [st   |-> [t \in Task |-> IF t = Idle THEN "RUNNING" ELSE "DORMANT"],
   prio |-> [t \in Task |-> Lowest],
   tick |-> [t \in Task |-> Invalid],
   ev   |-> [t \in Task |-> InvalidId],
   rdy  |-> << >>, dly |-> << >>, free |-> free,
   wait |-> [e \in Event |-> << >>],
   run  |-> Idle, req |-> FALSE, timeReq |-> FALSE, slice |-> 0, lock |-> 0,
   pmail |-> [t \in Task |-> 0],
   mid  |-> [t \in Task |-> InvalidId],
   mx   |-> [m \in Mutex |-> NewMutex], mnum |-> 0, mstale |-> {},
   inside |-> [t \in Task |-> {}], base |-> [t \in Task |-> Lowest],
   flg  |-> NewFlags, pset |-> {}, due |-> {},
   ecb  |-> [e \in Event |-> NewECB(e)],
   in   |-> [e \in Event |-> << >>], out |-> [e \in Event |-> << >>],
   srq  |-> << >>,
   stale |-> {}, intact |-> TRUE]

-----------------------------------------------------------------------------
(* Time and scheduling.                                                    *)

\* Mutant: the task stays in the waiting list of its event.
ExpireKeepsWaiting(k, t) ==
  InsertToTCBRdyList([k EXCEPT !.tick[t] = Invalid, !.dly = Tail(@)], t)

\* The body of TimeDispose's loop, for the task t at the head.
Expire(k, t) ==
  LET k1 == IF k.ev[t] # InvalidId THEN RemoveEventWaittingList(k, t) ELSE k
      k2 == IF Pnode(k, t) THEN RemoveLinkNode(k1, t) ELSE k1
  IN InsertToTCBRdyList([k2 EXCEPT !.tick[t] = Invalid, !.dly = Tail(@)], t)

TimeDispose(k) ==
  LET n == CHOOSE m \in 0 .. Len(k.dly) :
             /\ \A i \in 1 .. m : k.tick[k.dly[i]] = 0
             /\ m = Len(k.dly) \/ k.tick[k.dly[m + 1]] # 0
  IN Each(Expire, k, SubSeq(k.dly, 1, n))

\* Mutant: OSCheckTime is not reset.
SwitchKeepsSlice(k, t) == [k EXCEPT !.run = t, !.st[t] = "RUNNING"]

\* The reset of OSCheckTime and the switch that end Schedule.
SwitchTo(k, t) ==
  [k EXCEPT !.run = t, !.st[t] = "RUNNING",
            !.slice = IF k.prio[t] = RdyPrio(k) THEN TimeSlice ELSE @]

\* Called with OSSchedLock = 1 and OSIntNesting = 0.
Schedule(k) ==
  LET cur == k.run
      next == k.rdy[1]
      k1 == [k EXCEPT !.req = FALSE]
      robin == k.prio[next] = k.prio[cur] /\ k.slice = 0
  IN CASE k.rdy = << >> -> k
       [] k.rdy # << >> /\ k.st[cur] # "RUNNING" ->
            SwitchTo(RemoveFromTCBRdyList(k1, next), next)
       [] k.rdy # << >> /\ k.st[cur] = "RUNNING" /\ (k.prio[next] < k.prio[cur] \/ robin) ->
            SwitchTo(RemoveFromTCBRdyList(InsertToTCBRdyList(k1, cur), next), next)
       [] OTHER -> k1

\* A request that an interrupt left in ServiceReq: a flag or a post.
Serve(k, r) == IF "flag" \in DOMAIN r THEN SetFlag(k, r.flag) ELSE Post(k, r)

\* The delays that ended while the scheduler was locked, then the requests
\* that interrupts queued.
RespondSRQ(k) ==
  LET k1 == IF k.timeReq THEN [TimeDispose(k) EXCEPT !.timeReq = FALSE] ELSE k
  IN Each(Serve, [k1 EXCEPT !.srq = << >>], k1.srq)

\* OsSchedUnlock of a context that raised OSSchedLock from k.lock.
OsSchedUnlock(k) ==
  LET k1 == RespondSRQ(k)
  IN IF k.lock > 0 THEN k
     ELSE IF k1.req THEN Schedule(k1) ELSE k1

\* Mutant: a delay that ends under a lock is left to the next tick.
SysTickForgets(k) ==
  LET k1 == [k EXCEPT !.slice = IF @ < 0 THEN @ ELSE @ - 1, !.req = TRUE]
      head == k.dly[1]
      k2 == IF k.tick[head] > 1 THEN [k1 EXCEPT !.tick[head] = @ - 1]
            ELSE IF k.lock > 0 THEN [k1 EXCEPT !.tick[head] = 0]
            ELSE TimeDispose([k1 EXCEPT !.tick[head] = 0])
  IN OsSchedUnlock(IF k.dly = << >> THEN k1 ELSE k2)

\* CoOS_SysTick_Handler, for the delay list.
SysTick(k) ==
  LET k1 == [k EXCEPT !.slice = IF @ < 0 THEN @ ELSE @ - 1, !.req = TRUE]
      head == k.dly[1]
      k2 == IF k.tick[head] > 1 THEN [k1 EXCEPT !.tick[head] = @ - 1]
            ELSE IF k.lock > 0 THEN [k1 EXCEPT !.tick[head] = 0, !.timeReq = TRUE]
            ELSE TimeDispose([k1 EXCEPT !.tick[head] = 0])
  IN OsSchedUnlock(IF k.dly = << >> THEN k1 ELSE k2)
=============================================================================
