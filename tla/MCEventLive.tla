---------------------------- MODULE MCEventLive ----------------------------
(* EventSync with the lowest bit of OSTickCnt, which every tick flips: the   *)
(* SysTick interrupt keeps coming.                                           *)
EXTENDS EventSync

VARIABLE odd

LiveVars == <<evars, odd>>

LiveInit == EInit /\ odd = FALSE

LiveNext ==
  /\ k.intact
  /\ \/ EProgram /\ UNCHANGED odd
     \/ (Program \/ FProgram \/ \E f \in Flag : isr_SetFlag(f)) /\ UNCHANGED <<mails, got, odd>>
     \/ ETick /\ odd' = ~odd
     \/ (\E e \in Event : Interrupt(e)) /\ UNCHANGED odd
  /\ UNCHANGED prog

LiveSpec == LiveInit /\ [][LiveNext]_LiveVars /\ WF_odd(odd' = ~odd)

MCMbox == [e \in Event |-> "MBOX"]
MCFifo == [e \in Event |-> "FIFO"]
MCOne == [e \in Event |-> 1]
MCZero == [e \in Event |-> 0]

MCPlain == [boot |-> {<<1, 1, 2>>}, prio |-> {1, 2}, delays |-> {1, 2},
            evs |-> {}, isr |-> {}, flags |-> {}, fisr |-> {}]
MCMails == [ops |-> <<{"pend"}, {"pend", "delay"}, {"accept", "delay", "lock"}>>,
            evs |-> {1}, isr |-> {1}] @@ MCPlain
MCFlags == [ops |-> <<{"fwait"}, {"fwait", "delay"}, {"delay", "lock"}>>,
            flags |-> {1}, fisr |-> {1}] @@ MCPlain
MCUnlocked == [ops |-> [t \in 1 .. 3 |-> {"delay", "suspend", "delete"}]] @@ MCPlain
MCPrograms == {MCMails, MCFlags, MCUnlocked}
=============================================================================
