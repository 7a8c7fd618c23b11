------------------------------- MODULE Events -------------------------------
(***************************************************************************)
(* Semaphores, mailboxes and mail queues: event.c and what sem.c, mbox.c   *)
(* and queue.c do to an event while the scheduler is locked.               *)
(*                                                                         *)
(* k.ecb[e] is the event control block e, with the queue control block it  *)
(* points to if e is a queue:                                              *)
(*   type        eventType; "INVALID" once the event is deleted            *)
(*   cnt         eventCounter or qSize, a U16                              *)
(*   slot        the mail in a mailbox (eventPtr) or the array of a queue  *)
(*   head, tail  of the queue; 0 for the others                            *)
(***************************************************************************)
EXTENDS KernelLists

CONSTANTS
  Kind,      \* per event, "SEM", "MBOX" or "QUEUE"
  Sort,      \* per event, "FIFO" or "PRIO", its eventSortType
  Size,      \* per event, initialEventCounter or qMaxSize, 1 for a mailbox
  InitCnt,   \* per event, the initial count of a semaphore
  CntWidth   \* the number of bits of eventCounter and qSize

ASSUME EventsAssumption ==
  /\ Kind \in [Event -> {"SEM", "MBOX", "QUEUE"}]
  /\ Sort \in [Event -> {"FIFO", "PRIO"}]
  /\ CntWidth \in Nat \ {0}
  /\ Size \in [Event -> 1 .. (2^CntWidth - 1)]
  /\ \A e \in Event : InitCnt[e] \in 0 .. Size[e]

\* pmail of a task woken by a semaphore, 0xffffffff.
Woken == -1

\* CreatEvent, CoCreateSem, CoCreateMbox and CoCreateQueue.
NewECB(e) ==
  [type |-> Kind[e],
   cnt  |-> IF Kind[e] = "SEM" THEN InitCnt[e] ELSE 0,
   slot |-> [i \in 0 .. (Size[e] - 1) |-> 0], head |-> 0, tail |-> 0]

\* The mails an event holds, the oldest first.
Content(k, e) ==
  [i \in 1 .. k.ecb[e].cnt |-> k.ecb[e].slot[(k.ecb[e].head + i - 1) % Size[e]]]

-----------------------------------------------------------------------------
(* The waiting lists.                                                      *)

\* The task becomes the last, or with "PRIO" the first before one of a lower
\* priority.  waitPrev is assigned for every task that is not first.
EventTaskToWait(k, e, t) ==
  LET behind == IF Sort[e] = "FIFO" THEN {}
                ELSE {i \in DOMAIN k.wait[e] : k.prio[k.wait[e][i]] > k.prio[t]}
      pos == IF behind = {} THEN Len(k.wait[e]) + 1
                            ELSE CHOOSE i \in behind : \A j \in behind : i <= j
      list == InsertAt(k.wait[e], pos, t)
  IN [k EXCEPT !.wait[e] = list, !.ev[t] = e, !.st[t] = "WAITING", !.req = TRUE,
               !.stale = @ \ ToSet(Tail(list))]

\* Mutant: the head of a queue does not move.
TakeKeepsHead(k, e) ==
  LET c == k.ecb[e]
      k1 == [k EXCEPT !.ecb[e].cnt = (@ - 1) % 2^CntWidth]
  IN IF c.type = "SEM" THEN k1
     ELSE [k1 EXCEPT !.out[e] = Append(@, c.slot[c.head])]

\* The mail or the unit at the head of e is taken out.
Take(k, e) ==
  LET c == k.ecb[e]
      k1 == [k EXCEPT !.ecb[e].cnt = (@ - 1) % 2^CntWidth]
  IN IF c.type = "SEM" THEN k1
     ELSE [k1 EXCEPT !.out[e] = Append(@, c.slot[c.head]),
                     !.ecb[e].slot[c.head] = IF c.type = "MBOX" THEN 0 ELSE @,
                     !.ecb[e].head = IF c.type = "QUEUE" THEN (@ + 1) % Size[e] ELSE @]

\* The first waiting task gets what e holds, if a task waits.  It is the
\* running task when the post comes from a request that was queued after
\* that task put itself into the waiting list.
EventTaskToRdy(k, e) ==
  IF k.wait[e] = << >> THEN k
  ELSE LET t == Head(k.wait[e])
           mail == IF k.ecb[e].type = "SEM" THEN Woken ELSE k.ecb[e].slot[k.ecb[e].head]
           k1 == [k EXCEPT !.wait[e] = Tail(@), !.ev[t] = InvalidId,
                           !.stale = @ \ {k.wait[e][i] : i \in DOMAIN k.wait[e] \cap {2}}]
           k2 == IF k.tick[t] # Invalid THEN RemoveDelayList(k1, t) ELSE k1
           k3 == [Take(k2, e) EXCEPT !.pmail[t] = mail]
       IN IF t = k.run THEN [k3 EXCEPT !.st[t] = "RUNNING"] ELSE InsertToTCBRdyList(k3, t)

\* The part of DeleteEvent that wakes all waiting tasks.  Those behind the
\* first one keep their waitPrev.
WakeAll(k, e) ==
  LET wake(kk, t) ==
        LET k1 == IF kk.tick[t] # Invalid THEN RemoveDelayList(kk, t) ELSE kk
        IN InsertToTCBRdyList([k1 EXCEPT !.ev[t] = InvalidId, !.wait[e] = Tail(@)], t)
      k2 == Each(wake, k, k.wait[e])
  IN [k2 EXCEPT !.stale = @ \cup ToSet(SubSeq(k.wait[e], 2, Len(k.wait[e])))]

\* ReleaseECB, and the reset of the queue control block in CoDelQueue.  The
\* mails that are still inside go with the event: the history in drops them.
Release(k, e) ==
  [k EXCEPT !.ecb[e] = [NewECB(e) EXCEPT !.type = "INVALID", !.cnt = 0],
            !.in[e] = k.out[e]]

-----------------------------------------------------------------------------
(* Posting and taking.                                                     *)

\* CoPostSem, CoPostMail and CoPostQueueMail return an error for a full one.
Full(k, e) ==
  IF Kind[e] = "MBOX" THEN k.ecb[e].cnt # 0 ELSE k.ecb[e].cnt = Size[e]

\* CoPendSem, CoPendMail, CoPendQueueMail and the CoAccept functions find
\* something to take.
Available(k, e) ==
  IF Kind[e] = "MBOX" THEN k.ecb[e].cnt = 1 ELSE k.ecb[e].cnt > 0

\* Mutant: no waiting task is woken.
PutWithoutWake(k, e, mail) ==
  LET c == k.ecb[e]
  IN IF Kind[e] = "SEM" THEN [k EXCEPT !.ecb[e].cnt = (@ + 1) % 2^CntWidth]
     ELSE [k EXCEPT !.ecb[e].cnt = IF Kind[e] = "QUEUE" THEN (@ + 1) % 2^CntWidth ELSE 1,
                    !.ecb[e].slot[c.tail] = mail,
                    !.ecb[e].tail = IF Kind[e] = "QUEUE" THEN (@ + 1) % Size[e] ELSE @,
                    !.in[e] = Append(@, mail)]

\* The locked part of the three posts.  After a deletion it writes through
\* the links of the free list (mailbox) or to address 0 (queue).
Put(k, e, mail) ==
  LET c == k.ecb[e]
      k1 == [k EXCEPT !.ecb[e].cnt = IF Kind[e] = "QUEUE" THEN (@ + 1) % 2^CntWidth ELSE 1,
                      !.ecb[e].slot[c.tail] = mail,
                      !.ecb[e].tail = IF Kind[e] = "QUEUE" THEN (@ + 1) % Size[e] ELSE @,
                      !.in[e] = Append(@, mail),
                      !.intact = @ /\ c.type # "INVALID"]
  IN IF Kind[e] = "SEM"
     THEN IF k.wait[e] # << >> THEN EventTaskToRdy(k, e)
          ELSE [k EXCEPT !.ecb[e].cnt = (@ + 1) % 2^CntWidth]
     ELSE EventTaskToRdy(k1, e)

\* A post in one piece, as RespondSRQ and an interrupt make it.
Post(k, r) ==
  IF k.ecb[r.ev].type = Kind[r.ev] /\ ~Full(k, r.ev) THEN Put(k, r.ev, r.mail) ELSE k
=============================================================================
