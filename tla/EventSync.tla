----------------------------- MODULE EventSync -----------------------------
(***************************************************************************)
(* Tasks and interrupts that communicate through semaphores, mailboxes and *)
(* queues (sem.c, mbox.c, queue.c, event.c), on top of the operations of   *)
(* TaskSched and FlagSync.                                                 *)
(*                                                                         *)
(* A post is two steps: the test whether the event is full runs before the *)
(* scheduler is locked.  A pend that has to wait is two steps for a        *)
(* semaphore, to wait and to return, and three for a mailbox or a queue,   *)
(* which unlock the scheduler between finding the event empty and waiting. *)
(*                                                                         *)
(* An interrupt that posts while the scheduler is locked leaves a request  *)
(* in ServiceReq.  A locked part of a kernel function is one step here, so *)
(* an interrupt inside it is the action Interrupt before that step with    *)
(* the request queued: nothing but OsSchedUnlock looks at the queue.       *)
(*                                                                         *)
(* A program names the events its tasks use (evs) and the events that      *)
(* interrupts post to (isr).                                               *)
(***************************************************************************)
EXTENDS FlagSync

CONSTANT
  MaxMail      \* bound: the number of mails posted

ASSUME EventSyncAssumption ==
  /\ \A p \in Programs : p.evs \subseteq Event /\ p.isr \subseteq Event
  /\ MaxMail \in Nat

VARIABLES
  mails,  \* the number of mails the programs and interrupts have made up
  got     \* history: the mails that pend and accept returned to a program

evars == <<k, call, left, prog, mails, got>>

Valid(e) == e \in prog.evs /\ k.ecb[e].type = Kind[e]

\* The next mail for e; a semaphore is posted without one.
Mail(e) == IF Kind[e] = "SEM" THEN 0 ELSE mails + 1

MakeMail(e) ==
  /\ Kind[e] # "SEM" => mails < MaxMail
  /\ mails' = IF Kind[e] = "SEM" THEN mails ELSE mails + 1

\* The running task takes what e holds and returns.
TakeNow(e) ==
  /\ k' = OsSchedUnlock(Take(k, e))
  /\ got' = IF Kind[e] = "SEM" THEN got ELSE got \cup {Content(k, e)[1]}
  /\ UNCHANGED <<call, left, mails>>

\* The running task waits for e.
WaitFor(e, n) ==
  /\ k' = OsSchedUnlock(InsertDelayList(EventTaskToWait(k, e, k.run), k.run, n))
  /\ Begin([op |-> "wait", ev |-> e, ticks |-> n])
  /\ left' = [left EXCEPT ![k.run] = n]
  /\ UNCHANGED <<mails, got>>

-----------------------------------------------------------------------------
CoPendSem(e, n) ==
  /\ Caller("pend") /\ Kind[e] = "SEM" /\ Valid(e) /\ k.lock = 0
  /\ IF Available(k, e) THEN TakeNow(e) ELSE WaitFor(e, n)

\* CoPendMail and CoPendQueueMail up to the OsSchedUnlock of an empty event.
CoPendMail(e, n) ==
  /\ Caller("pend") /\ Kind[e] # "SEM" /\ Valid(e) /\ k.lock = 0
  /\ IF Available(k, e) THEN TakeNow(e)
     ELSE /\ k' = OsSchedUnlock(k)
          /\ Begin([op |-> "empty", ev |-> e, ticks |-> n])
          /\ UNCHANGED <<left, mails, got>>

PendWait == Pending("empty") /\ WaitFor(call[k.run].ev, call[k.run].ticks)

\* Mutant: pmail is not cleared.
ReturnKeepsMail ==
  /\ Pending("wait")
  /\ got' = got \cup ({k.pmail[k.run]} \ {0, Woken})
  /\ left' = [left EXCEPT ![k.run] = 0]
  /\ Finish
  /\ UNCHANGED <<k, mails>>

\* The task runs again and returns what pmail says: E_TIMEOUT for NULL if it
\* asked for a timeout.
PendReturn ==
  /\ Pending("wait")
  /\ k' = [k EXCEPT !.pmail[k.run] = 0]
  /\ got' = got \cup ({k.pmail[k.run]} \ {0, Woken})
  /\ left' = [left EXCEPT ![k.run] = 0]
  /\ Finish
  /\ UNCHANGED mails

CoAccept(e) ==
  /\ Caller("accept") /\ Valid(e)
  /\ IF Available(k, e) THEN TakeNow(e)
     ELSE k' = OsSchedUnlock(k) /\ UNCHANGED <<call, left, mails, got>>

-----------------------------------------------------------------------------
PostTest(e) ==
  /\ Caller("post") /\ Valid(e)
  /\ ~Full(k, e)
  /\ MakeMail(e)
  /\ Begin([op |-> "post", ev |-> e, mail |-> Mail(e)])
  /\ UNCHANGED <<k, left, got>>

CoPost ==
  /\ Pending("post")
  /\ k' = OsSchedUnlock(Put(k, call[k.run].ev, call[k.run].mail))
  /\ Finish
  /\ UNCHANGED <<left, mails, got>>

\* isr_PostSem, isr_PostMail and isr_PostQueueMail.
Interrupt(e) ==
  LET r == [ev |-> e, mail |-> Mail(e)]
  IN /\ e \in prog.isr
     /\ MakeMail(e)
     /\ \/ k.lock = 0 /\ Valid(e) /\ ~Full(k, e) /\ k' = OsSchedUnlock(Post(k, r))
        \/ Len(k.srq) < MaxRequest /\ k' = [k EXCEPT !.srq = Append(@, r)]
     /\ UNCHANGED <<call, left, got>>

-----------------------------------------------------------------------------
\* CoDelSem, CoDelMbox and CoDelQueue, up to ReleaseECB.
DelEvent(e, anyway) ==
  /\ Caller("destroy") /\ (Guarded => k.lock > 0) /\ Valid(e)
  /\ IF anyway THEN k' = OsSchedUnlock(WakeAll(k, e))
               ELSE k.wait[e] = << >> /\ UNCHANGED k
  /\ Begin([op |-> "release", ev |-> e])
  /\ UNCHANGED <<left, mails, got>>

ReleaseECB ==
  /\ Pending("release")
  /\ k' = OsSchedUnlock(Release(k, call[k.run].ev))
  /\ Finish
  /\ UNCHANGED <<left, mails, got>>

\* The event is created again; a task still in its list would be lost.
CreatEvent(e) ==
  /\ Caller("found") /\ e \in prog.evs /\ k.ecb[e].type = "INVALID"
  /\ k' = OsSchedUnlock([k EXCEPT !.ecb[e] = NewECB(e), !.wait[e] = << >>,
                                  !.intact = @ /\ k.wait[e] = << >>])
  /\ UNCHANGED <<call, left, mails, got>>

-----------------------------------------------------------------------------
EInit == Init /\ mails = 0 /\ got = {}

\* A step of a program that uses the events.
EProgram ==
  \/ \E e \in Event, n \in Timeouts : CoPendSem(e, n) \/ CoPendMail(e, n)
  \/ PendWait \/ PendReturn
  \/ \E e \in Event : CoAccept(e) \/ PostTest(e) \/ CreatEvent(e)
  \/ CoPost
  \/ \E e \in Event, anyway \in BOOLEAN : DelEvent(e, anyway)
  \/ ReleaseECB

ETick == Tick /\ UNCHANGED <<mails, got>>

ENext ==
  /\ k.intact
  /\ \/ EProgram
     \/ (Program \/ FProgram \/ \E f \in Flag : isr_SetFlag(f)) /\ UNCHANGED <<mails, got>>
     \/ ETick
     \/ \E e \in Event : Interrupt(e)
  /\ UNCHANGED prog

ESpec == EInit /\ [][ENext]_evars

-----------------------------------------------------------------------------
\* The mails in requests and calls that are under way.
UnderWay == {r.mail : r \in {q \in ToSet(k.srq) : "mail" \in DOMAIN q}} \cup {call[t].mail : t \in InCall("post")}

\* The counters and the mails stay in their ranges: no mailbox or queue ever
\* counts more mails than it has room for.
EventTypeOK ==
  /\ \A e \in Event :
       /\ k.ecb[e].type \in {Kind[e], "INVALID"}
       /\ k.ecb[e].cnt \in 0 .. (2^CntWidth - 1)
       /\ Kind[e] # "SEM" => k.ecb[e].cnt <= Size[e]
       /\ k.ecb[e].head \in DOMAIN k.ecb[e].slot /\ k.ecb[e].tail \in DOMAIN k.ecb[e].slot
  /\ k.pmail \in [Task -> Woken .. MaxMail]
  /\ mails \in 0 .. MaxMail /\ got \subseteq 1 .. mails
  /\ UnderWay \subseteq 0 .. mails
  /\ Len(k.srq) <= MaxRequest

\* eventTCBList and eventID say the same: a task is in the waiting list of
\* exactly the event it names, once, and waits; the list functions are only
\* applied to tasks that are in the list; nobody waits for an event that is
\* deleted; and tasks wait in the order of their priorities where the event is
\* created so, whatever CoSetPriority changes.
WaitersMatch ==
  /\ EventTypeOK
  /\ k.intact
  /\ \A e \in Event : /\ ToSet(k.wait[e]) = {t \in Task : k.ev[t] = e}
                      /\ Cardinality(ToSet(k.wait[e])) = Len(k.wait[e])
  /\ \A t \in Task : k.ev[t] # InvalidId => k.st[t] = "WAITING"
  /\ \A e \in Event : k.ecb[e].type = "INVALID" => k.wait[e] = << >>
  /\ InCall("prio") = {} =>
       \A e \in Event : Sort[e] = "PRIO" =>
         \A i, j \in DOMAIN k.wait[e] : i < j => k.prio[k.wait[e][i]] <= k.prio[k.wait[e][j]]

\* Every mail whose post returned E_OK was taken out in order or is still
\* in the mailbox or the ring of the queue.
MailsInOrder ==
  \A e \in Event : Kind[e] # "SEM" => k.in[e] = k.out[e] \o Content(k, e)

\* A mail taken out reaches one caller: a program has it, or it is in the
\* pmail of a task that is no longer waiting and whose timeout can no longer
\* take it for absent.
MailDelivered ==
  \A e \in Event : \A m \in ToSet(k.out[e]) :
    Cardinality({t \in Task : k.pmail[t] = m}) = IF m \in got THEN 0 ELSE 1

\* "If message is not available, task will pend": no task waits at a mailbox
\* or a queue that holds a mail.
NoLostWakeup ==
  \A e \in Event : Kind[e] # "SEM" /\ k.wait[e] # << >> => k.ecb[e].cnt = 0

\* No wakeup is lost while only tasks post, with a priority below that of the
\* tasks that pend: they do not run in the window of CoPendMail.
TasksWake == prog.isr = {} => NoLostWakeup

\* A pend that is about to return E_TIMEOUT has waited for its ticks, unless
\* the event may have been deleted, which returns the same.
TimeoutIsTime ==
  \A t \in InCall("wait") :
    t = k.run /\ call[t].ticks > 0 /\ k.pmail[t] = 0 =>
      left[t] = 0 \/ \E u \in DOMAIN prog.ops : "destroy" \in prog.ops[u]

\* A delay ends, and so does a wait for an event or for flags that has a
\* timeout, if the programs keep unlocking the scheduler.
Blocked(t) == k.ev[t] # InvalidId \/ \E n \in ToSet(k.flg.list) : n.task = t
WaitEnds ==
  ([]<>(k.lock = 0)) =>
    \A t \in Task : /\ (Blocked(t) /\ call[t].ticks > 0) ~> ~Blocked(t)
                    /\ (t \in ToSet(k.dly)) ~> (t \notin ToSet(k.dly))
=============================================================================
