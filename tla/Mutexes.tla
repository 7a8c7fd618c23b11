------------------------------ MODULE Mutexes ------------------------------
(***************************************************************************)
(* The mutexes of mutex.c and CoSetPriority of task.c, which call each     *)
(* other: what they do while the scheduler is locked.                      *)
(*                                                                         *)
(* k.mx[m] is the mutex control block m:                                   *)
(*   own    taskID, InvalidId exactly when mutexFlag is MUTEX_FREE         *)
(*   orig   originalPrio, the priority to give back to the owner           *)
(*   hipri  hipriTaskID, the task the priority of the owner comes from     *)
(*   list   waittingList                                                   *)
(* k.mid[t] is the mutexID of task t: the mutex it holds or waits for, one *)
(* field for both.  k.mnum mutexes are created.  k.mstale are the tasks    *)
(* that wait first for a mutex and whose TCBprev still leads to the task   *)
(* that was before them.  k.inside and k.base are history: the mutexes a   *)
(* program is inside of, and the priority it asked for.                    *)
(***************************************************************************)
EXTENDS Events

\* A control block that CoCreateMutex has filled in.
NewMutex == [own |-> InvalidId, orig |-> 255, hipri |-> InvalidId, list |-> << >>]

Holds(k, t) == k.mid[t] # InvalidId /\ k.mx[k.mid[t]].own = t

\* The first of the tasks in list with the highest priority, if that is
\* higher than p; id otherwise.
Highest(k, list, p, id) ==
  LET best == {i \in DOMAIN list : /\ k.prio[list[i]] < p
                                   /\ \A j \in DOMAIN list : k.prio[list[i]] <= k.prio[list[j]]}
      first == CHOOSE i \in best : \A j \in best : i <= j
  IN IF best = {} THEN [id |-> id, prio |-> p]
                  ELSE [id |-> list[first], prio |-> k.prio[list[first]]]

\* A task that waits for an event in priority order moves to its place.
ReorderWaiting(k, t) ==
  LET e == k.ev[t]
  IN IF e # InvalidId /\ Sort[e] = "PRIO"
     THEN EventTaskToWait(RemoveEventWaittingList(k, t), e, t) ELSE k

-----------------------------------------------------------------------------
(* CoSetPriority.  It calls itself for the owner of the mutex that the     *)
(* task waits for: [k, task, prio] is a kernel state and the call that is  *)
(* left to make, with task = InvalidId for none.                           *)

Done(k) == [k |-> k, task |-> InvalidId, prio |-> 0]

\* What follows the assignment of the priority, for a task whose state was
\* seen.
SetPriorityTail(k, t, seen) ==
  LET m == k.mid[t]
      h == Highest(k, k.mx[m].list, k.mx[m].orig, k.mx[m].own)
      k1 == ReorderWaiting([k EXCEPT !.mx[m].hipri = h.id], t)
  IN CASE seen = "READY" -> Done(InsertToTCBRdyList(RemoveFromTCBRdyList(k, t), t))
       [] seen = "RUNNING" -> Done([k EXCEPT !.req = @ \/ k.prio[t] > RdyPrio(k)])
       [] seen = "WAITING" /\ m = InvalidId -> Done(ReorderWaiting(k, t))
       [] seen = "WAITING" /\ m # InvalidId /\ h.prio = k.mx[m].orig -> Done(k1)
       [] OTHER -> [k |-> k1, task |-> k.mx[m].own, prio |-> h.prio]

\* Up to the assignment: the priority of a task that holds a mutex is not
\* lowered, only the one it is given back.
KeepsRaised(k, t, p) == Holds(k, t) /\ k.prio[t] < p
SetPriorityHead(k, t, p) ==
  LET k1 == IF Holds(k, t) THEN [k EXCEPT !.mx[k.mid[t]].orig = p] ELSE k
  IN IF KeepsRaised(k, t, p) THEN k1 ELSE [k1 EXCEPT !.prio[t] = p]

\* One of the nested calls.
SetPriorityOnce(c) ==
  LET t == c.task
  IN IF t = InvalidId THEN c
     ELSE IF t = Idle \/ c.k.st[t] = "DORMANT" \/ c.k.prio[t] = c.prio THEN Done(c.k)
     ELSE IF KeepsRaised(c.k, t, c.prio) THEN Done(SetPriorityHead(c.k, t, c.prio))
     ELSE SetPriorityTail(SetPriorityHead(c.k, t, c.prio), t, c.k.st[t])

\* A chain of owners ends, as each of them is given the same priority.
Finished(c) == Each(LAMBDA d, i : SetPriorityOnce(d), c, [i \in 1 .. Cardinality(Task) |-> i]).k
SetPriority(k, t, p) == Finished([k |-> k, task |-> t, prio |-> p])

-----------------------------------------------------------------------------
\* Mutant: the owner keeps its priority.
EnterWithoutRaise(k, m) ==
  LET t == k.run
      x == k.mx[m]
      k1 == [k EXCEPT !.mid[t] = m]
  IN IF x.own = InvalidId
     THEN [k1 EXCEPT !.mx[m] = [@ EXCEPT !.own = t, !.orig = k.prio[t], !.hipri = t]]
     ELSE [k1 EXCEPT !.st[t] = "WAITING", !.req = TRUE, !.mx[m].list = Append(@, t)]

\* CoEnterMutexSection of the running task.  The owner of an occupied mutex
\* gets the priority of the task, if that is higher.
EnterMutex(k, m) ==
  LET t == k.run
      x == k.mx[m]
      o == x.own
      k1 == [k EXCEPT !.mid[t] = m]
      raised == [k1 EXCEPT !.prio[o] = k.prio[t], !.mx[m].hipri = t]
      k2 == IF k.prio[o] <= k.prio[t] THEN k1
            ELSE IF k.st[o] = "READY" THEN InsertToTCBRdyList(RemoveFromTCBRdyList(raised, o), o)
            ELSE ReorderWaiting(raised, o)
  IN IF o = InvalidId
     THEN [k1 EXCEPT !.mx[m] = [@ EXCEPT !.own = t, !.orig = k.prio[t], !.hipri = t]]
     ELSE [k2 EXCEPT !.st[t] = "WAITING", !.req = TRUE, !.mx[m].list = Append(@, t)]

\* Mutant: the priority of the owner is not given back.
LeaveRaised(k, m) ==
  LET x == k.mx[m]
      t == Head(x.list)
      k1 == [k EXCEPT !.mid[x.own] = InvalidId]
  IN IF x.list = << >> THEN [k1 EXCEPT !.mx[m].own = InvalidId]
     ELSE InsertToTCBRdyList(
            [k1 EXCEPT !.mx[m] = [@ EXCEPT !.own = t, !.orig = k.prio[t], !.list = Tail(@)],
                       !.prio[t] = IF k.prio[x.own] < @ THEN k.prio[x.own] ELSE @], t)

\* CoLeaveMutexSection, which does not ask who calls.  For a mutex that is
\* free it writes behind the end of TCBTbl.
LeaveMutex(k, m) ==
  LET x == k.mx[m]
      o == x.own
      t == Head(x.list)
      k1 == [k EXCEPT !.mid[o] = InvalidId]
      h == IF x.hipri = o THEN Highest(k, x.list, k.prio[t], o)
                          ELSE [id |-> x.hipri, prio |-> k.prio[o]]
      k2 == SetPriority([k1 EXCEPT !.mx[m] = [@ EXCEPT !.own = InvalidId, !.hipri = h.id]], o, x.orig)
      k3 == [k2 EXCEPT !.mx[m] = [@ EXCEPT !.own = t, !.orig = k2.prio[t], !.list = Tail(x.list)],
                       !.prio[t] = h.prio,
                       !.mstale = (@ \ {t}) \cup {x.list[i] : i \in DOMAIN x.list \cap {2}}]
  IN CASE o = InvalidId -> [k EXCEPT !.intact = FALSE]
       [] o # InvalidId /\ x.list = << >> -> [k1 EXCEPT !.mx[m].own = InvalidId]
       [] OTHER -> InsertToTCBRdyList(k3, t)

\* The first of several tasks, or one whose TCBprev leads to the owner, is
\* unlinked without moving the head of the list.
Misses(k, t) ==
  LET list == k.mx[k.mid[t]].list
  IN list[1] = t /\ (Len(list) > 1 \/ t \in k.mstale)

RemoveMutexList(k, t) ==
  LET m == k.mid[t]
      x == k.mx[m]
      k1 == [k EXCEPT !.mx[m].list = Unlinked(@, t), !.mid[t] = InvalidId,
                      !.mstale = @ \ {t}, !.intact = @ /\ ~Misses(k, t)]
      h == Highest(k1, k1.mx[m].list, x.orig, x.own)
      k2 == SetPriority([k1 EXCEPT !.mx[m] = [@ EXCEPT !.own = InvalidId, !.hipri = h.id]], x.own, h.prio)
  IN IF x.hipri = t THEN [k2 EXCEPT !.mx[m].own = x.own] ELSE k1
=============================================================================
