------------------------------- MODULE Flags -------------------------------
(***************************************************************************)
(* The flags of flag.c, as far as the scheduler is locked.                 *)
(*                                                                         *)
(* k.flg is FlagCrl, with flagRdy and flagActive as sets:                  *)
(*   rdy, act  the flags that are set, and those that exist                *)
(*   list      the list from headNode to tailNode; a node is on the stack  *)
(*             of the task that waits: task, flags, and all = TRUE for     *)
(*             OPT_WAIT_ALL                                                *)
(* The pnode of a task leads to its node while it is in the list; k.pset   *)
(* are the tasks whose pnode is 0xffffffff, woken by a flag, until they    *)
(* run.  k.due is history: the flags that were set and neither cleared nor *)
(* taken since.                                                            *)
(***************************************************************************)
EXTENDS Mutexes

CONSTANTS
  Flag,       \* the flags, by their numbers
  AutoReset   \* resetOpt, those that are cleared when they are taken

ASSUME FlagsAssumption == Flag \subseteq Nat /\ AutoReset \subseteq Flag

NewFlags == [rdy |-> {}, act |-> Flag, list |-> << >>]

\* pnode # NULL: the task has a node in the list, or was woken by a flag.
Pnode(k, t) == t \in k.pset \/ \E n \in ToSet(k.flg.list) : n.task = t

\* What the loop of CoSetFlag asks of a node.
Satisfied(k, n) ==
  IF n.all THEN n.flags \subseteq k.flg.rdy ELSE n.flags \cap k.flg.rdy # {}

FlagBlock(k, flags, all) ==
  [k EXCEPT !.flg.list = Append(@, [task |-> k.run, flags |-> flags, all |-> all])]

\* The node of t is unlinked and pnode is NULL.  With 0xffffffff for a node
\* it reads and writes behind the end of the memory.
RemoveLinkNode(k, t) ==
  LET own == {i \in DOMAIN k.flg.list : k.flg.list[i].task = t}
  IN [k EXCEPT !.flg.list = IF own = {} THEN @ ELSE RemoveAt(@, CHOOSE i \in own : TRUE),
               !.pset = @ \ {t},
               !.intact = @ /\ t \notin k.pset]

RemoveFromLink(k, t) ==
  LET k1 == RemoveLinkNode(k, t)
      k2 == IF k.tick[t] # Invalid THEN RemoveDelayList(k1, t) ELSE k1
      k3 == [k2 EXCEPT !.pset = @ \cup {t}]
  IN IF t = k.run THEN [k3 EXCEPT !.st[t] = "RUNNING"] ELSE InsertToTCBRdyList(k3, t)

\* Mutant: a flag with automatic reset wakes nobody but the first in the list.
WakeOnlyHead(k, f) ==
  IF k.flg.list # << >> /\ Satisfied(k, k.flg.list[1]) THEN RemoveFromLink(k, k.flg.list[1].task)
  ELSE k

\* The locked part of CoSetFlag: the tasks that have the flags they wait for
\* are woken, only the first one if the flag is reset automatically.
WakeForFlag(k, f) ==
  LET sat == {i \in DOMAIN k.flg.list : Satisfied(k, k.flg.list[i])}
      woken == {i \in sat : f \in AutoReset => \A j \in sat : i <= j}
      wake(kk, i) == IF i \in woken THEN RemoveFromLink(kk, k.flg.list[i].task) ELSE kk
  IN Each(wake, k, [i \in DOMAIN k.flg.list |-> i])

MarkSet(k, f) == [k EXCEPT !.due = @ \cup {f}]

\* CoSetFlag in one piece, as RespondSRQ and an interrupt make it.
SetFlag(k, f) ==
  IF f \in k.flg.act \ k.flg.rdy
  THEN WakeForFlag(MarkSet([k EXCEPT !.flg.rdy = @ \cup {f}], f), f) ELSE k

\* The flags in taken are returned to a task, which clears those that are
\* reset automatically.
TakeFlags(k, taken) ==
  [k EXCEPT !.flg.rdy = @ \ (taken \cap AutoReset),
            !.due = @ \ (taken \cap AutoReset)]

\* CoDelFlag with OPT_DEL_ANYWAY: who waits for all of several flags goes on
\* waiting for the others.
DropFlag(k, f) ==
  LET wake(kk, n) == IF f \in n.flags /\ (n.all => n.flags = {f})
                     THEN RemoveFromLink(kk, n.task) ELSE kk
      k1 == Each(wake, k, k.flg.list)
      rest == [i \in DOMAIN k1.flg.list |-> [k1.flg.list[i] EXCEPT !.flags = @ \ {f}]]
  IN [k1 EXCEPT !.flg.list = rest,
                !.flg.act = @ \ {f}, !.flg.rdy = @ \ {f},
                !.due = @ \ {f}]
=============================================================================
