---------------------------- MODULE MCEventSync ----------------------------
(* Small instances of EventSync.  TCB 0 is the idle task; event 1 is a       *)
(* mailbox, event 2 a queue and event 3 a semaphore; flag 1 is reset         *)
(* automatically, flag 2 is not.                                             *)
EXTENDS EventSync

MCKind == [e \in Event |-> <<"MBOX", "QUEUE", "SEM">>[e]]
MCSort == [e \in Event |-> <<"FIFO", "FIFO", "PRIO">>[e]]
MCSize == [e \in Event |-> <<1, 2, 1>>[e]]
MCZero == [e \in Event |-> 0]

\* The tasks 1 and 2 have a higher priority than task 3.
MCPlain == [boot |-> {<<1, 1, 2>>}, prio |-> {1, 2}, delays |-> {1},
            evs |-> {}, isr |-> {}, flags |-> {}, fisr |-> {}]

MCMail == [ops |-> <<{"pend"}, {"pend", "accept"}, {"post", "delay"}>>, evs |-> {1, 2}] @@ MCPlain
MCIsr == [ops |-> <<{"pend"}, {"pend", "lock"}, {"accept", "delay"}>>,
          evs |-> {1, 2}, isr |-> {1, 2}] @@ MCPlain
MCPrio == [ops |-> <<{"pend"}, {"pend"}, {"pend", "post", "prio", "delete", "lock"}>>,
           evs |-> {3}] @@ MCPlain
MCDelete == [ops |-> <<{"pend"}, {"delay"}, {"destroy", "found", "post", "lock"}>>,
             evs |-> {1}] @@ MCPlain

MCFlagIsr == [ops |-> <<{"fwait"}, {"fwait"}, {"fset", "fclear", "lock"}>>,
              flags |-> {1, 2}, fisr |-> {1, 2}] @@ MCPlain
MCFlagDel == [ops |-> <<{"fwait"}, {"fwait", "faccept", "lock"}, {"fdel", "fnew", "fset", "lock"}>>,
              flags |-> {1, 2}] @@ MCPlain
MCPrograms == {MCMail, MCIsr, MCPrio, MCDelete, MCFlagIsr, MCFlagDel}

MCPosted == {[ops |-> <<{"pend"}, {"delay"}, {"post"}>>, evs |-> {1}, isr |-> {1}] @@ MCPlain}
=============================================================================
