------------------------------ MODULE FlagSync ------------------------------
(***************************************************************************)
(* Tasks and interrupts that communicate through the flags of flag.c, on   *)
(* top of the operations of TaskSched.                                     *)
(*                                                                         *)
(* CoSetFlag and CoClearFlag change flagRdy before or without the lock, by *)
(* a load and a store: they are a step each, and what comes in between is  *)
(* overwritten.  With Guarded = TRUE the programs call them, and CoDelFlag *)
(* and the CoAccept functions, with the scheduler locked by CoSchedLock.   *)
(* One action stands for the calls for a single flag and for several.      *)
(*                                                                         *)
(* A program names the flags its tasks use (flags) and the flags that      *)
(* interrupts set (fisr).                                                  *)
(***************************************************************************)
EXTENDS TaskSched

CONSTANTS
  Timeouts,    \* the timeouts the programs wait with, 0 for none
  MaxRequest   \* CFG_MAX_SERVICE_REQUEST

ASSUME FlagSyncAssumption ==
  /\ Timeouts \subseteq 0 .. (Invalid - 1)
  /\ MaxRequest \in Nat
  /\ \A p \in Programs : p.flags \cup p.fisr \subseteq Flag

\* The arguments of a call: one flag, or any or all of several.
Wanted == {w \in [flags : SUBSET prog.flags \ {{}}, all : BOOLEAN] :
             Cardinality(w.flags) = 1 => ~w.all}

Exists(w) == w.flags \subseteq k.flg.act
Ready(w) == w.flags \cap k.flg.rdy
Meets(w) == Satisfied(k, w)

Protected == Guarded => k.lock > 0

-----------------------------------------------------------------------------
(* CoWaitForSingleFlag and CoWaitForMultipleFlags.                         *)

CoWaitForFlags(w, n) ==
  LET k1 == FlagBlock(k, w.flags, w.all)
  IN /\ Caller("fwait") /\ Exists(w) /\ k.lock = 0
     /\ IF Meets(w)
        THEN k' = OsSchedUnlock(TakeFlags(k, Ready(w))) /\ UNCHANGED <<call, left>>
        ELSE /\ k' = OsSchedUnlock(IF n = 0 THEN [k1 EXCEPT !.st[k.run] = "WAITING", !.req = TRUE]
                                            ELSE InsertDelayList(k1, k.run, n))
             /\ Begin([op |-> "fwait", flags |-> w.flags, all |-> w.all, ticks |-> n])
             /\ left' = [left EXCEPT ![k.run] = n]

\* The task runs again.  With a timeout and pnode = NULL it returns
\* E_TIMEOUT; otherwise it takes what is ready of its flags now, and a
\* single flag even if it is not.
FlagReturn ==
  LET c == call[k.run]
      late == c.ticks > 0 /\ k.run \notin k.pset
      taken == IF Cardinality(c.flags) = 1 THEN c.flags ELSE Ready(c)
      k1 == [k EXCEPT !.pset = @ \ {k.run}]
  IN /\ Pending("fwait")
     /\ k' = IF late THEN k1 ELSE OsSchedUnlock(TakeFlags(k1, taken))
     /\ left' = [left EXCEPT ![k.run] = 0]
     /\ Finish

\* CoAcceptSingleFlag and CoAcceptMultipleFlags test before the lock.
AcceptTest(w) ==
  /\ Caller("faccept") /\ Protected /\ Exists(w)
  /\ Meets(w)
  /\ Begin([op |-> "faccept", taken |-> Ready(w)])
  /\ UNCHANGED <<k, left>>

CoAcceptFlags ==
  /\ Pending("faccept")
  /\ k' = OsSchedUnlock(TakeFlags(k, call[k.run].taken))
  /\ Finish
  /\ UNCHANGED left

-----------------------------------------------------------------------------
(* Setting and clearing.                                                   *)

SetLoad(f) ==
  /\ Caller("fset") /\ Protected
  /\ f \in prog.flags \cap k.flg.act
  /\ f \notin k.flg.rdy
  /\ Begin([op |-> "fset", flag |-> f, rdy |-> k.flg.rdy])
  /\ UNCHANGED <<k, left>>

SetStore ==
  LET c == call[k.run]
  IN /\ Pending("fset")
     /\ k' = MarkSet([k EXCEPT !.flg.rdy = c.rdy \cup {c.flag}], c.flag)
     /\ Begin([op |-> "fwake", flag |-> c.flag])
     /\ UNCHANGED left

CoSetFlag ==
  /\ Pending("fwake")
  /\ k' = OsSchedUnlock(WakeForFlag(k, call[k.run].flag))
  /\ Finish
  /\ UNCHANGED left

ClearLoad(f) ==
  /\ Caller("fclear") /\ Protected
  /\ f \in prog.flags \cap k.flg.act
  /\ Begin([op |-> "fclear", flag |-> f, rdy |-> k.flg.rdy])
  /\ UNCHANGED <<k, left>>

CoClearFlag ==
  LET c == call[k.run]
  IN /\ Pending("fclear")
     /\ k' = [k EXCEPT !.flg.rdy = c.rdy \ {c.flag}, !.due = @ \ {c.flag}]
     /\ Finish
     /\ UNCHANGED left

\* Mutant: the flag is set although the scheduler is locked.
SetFlagAtOnce(f) ==
  /\ f \in prog.fisr
  /\ \/ k.lock = 0 /\ k' = OsSchedUnlock(SetFlag(k, f))
     \/ k.lock > 0 /\ k' = SetFlag(k, f)
     \/ Len(k.srq) < MaxRequest /\ k' = [k EXCEPT !.srq = Append(@, [flag |-> f])]
  /\ UNCHANGED <<call, left>>

\* isr_SetFlag; as in EventSync the second disjunct is also an interrupt
\* inside of a locked region.
isr_SetFlag(f) ==
  /\ f \in prog.fisr
  /\ \/ k.lock = 0 /\ f \in k.flg.act /\ k' = OsSchedUnlock(SetFlag(k, f))
     \/ Len(k.srq) < MaxRequest /\ k' = [k EXCEPT !.srq = Append(@, [flag |-> f])]
  /\ UNCHANGED <<call, left>>

-----------------------------------------------------------------------------
(* Creating and deleting.                                                  *)

CoDelFlag(f, anyway) ==
  /\ Caller("fdel") /\ Protected /\ f \in prog.flags \cap k.flg.act
  /\ k' = OsSchedUnlock(IF anyway \/ \A n \in ToSet(k.flg.list) : f \notin n.flags
                        THEN DropFlag(k, f) ELSE k)
  /\ UNCHANGED <<call, left>>

\* CoCreateFlag takes the first number that is free, with an initial state.
CoCreateFlag(init) ==
  /\ Caller("fnew") /\ k.flg.act # Flag
  /\ LET f == CHOOSE g \in Flag \ k.flg.act : \A h \in Flag \ k.flg.act : g <= h
         k1 == [k EXCEPT !.flg.act = @ \cup {f}]
     IN k' = OsSchedUnlock(IF init THEN MarkSet([k1 EXCEPT !.flg.rdy = @ \cup {f}], f) ELSE k1)
  /\ UNCHANGED <<call, left>>

FProgram ==
  \/ \E w \in Wanted : AcceptTest(w) \/ \E n \in Timeouts : CoWaitForFlags(w, n)
  \/ FlagReturn \/ CoAcceptFlags \/ SetStore \/ CoSetFlag \/ CoClearFlag
  \/ \E f \in prog.flags : SetLoad(f) \/ ClearLoad(f)
  \/ \E f \in prog.flags, b \in BOOLEAN : CoDelFlag(f, b)
  \/ \E b \in BOOLEAN : CoCreateFlag(b)

-----------------------------------------------------------------------------
\* A node of the list is on the stack of a task that is still inside of its
\* CoWaitForFlags call: it is unlinked before the task can return, whether a
\* flag, the timeout or the deletion of the flag ends the wait.
NodesLive ==
  /\ \A n \in ToSet(k.flg.list) :
       /\ k.st[n.task] = "WAITING"
       /\ call[n.task].op = "fwait" /\ n.flags \subseteq call[n.task].flags
       /\ n.flags \subseteq k.flg.act
  /\ \A i, j \in DOMAIN k.flg.list : k.flg.list[i].task = k.flg.list[j].task => i = j

\* The nodes in the list are live, and no task waits for flags that are set:
\* somebody wakes it, or a task that was woken before it is about to take the
\* flag.  It is said of nodes from which CoDelFlag took no flag; it does not
\* look whether the rest is enough.
WaitersWoken ==
  /\ NodesLive
  /\ \A n \in ToSet(k.flg.list) :
       Satisfied(k, n) /\ n.flags = call[n.task].flags =>
         \/ \E t \in InCall("fwake") : call[t].flag \in n.flags
         \/ \E t \in k.pset : call[t].flags \cap n.flags \cap AutoReset # {}

\* A flag that was set stays set until it is cleared, deleted or taken: no
\* store to flagRdy overwrites the one of another context.
SetsKept == k.due \subseteq k.flg.rdy
=============================================================================
