------------------------------ MODULE MCTimers ------------------------------
(* Small instances of Timers. *)
EXTENDS Timers

Timer(type, cnt, reload) == [type |-> type, cnt |-> cnt, reload |-> reload]
MCKinds == [x \in Tmr |-> CASE x = 0 -> {Timer("PERIODIC", 1, 2)}
                           [] x = 1 -> {Timer("ONE_SHOT", 1, 1), Timer("ONE_SHOT", 2, 1)}
                           [] OTHER -> {Timer("PERIODIC", 3, 1)}]
=============================================================================
