---------------------------- MODULE MCTaskSched ----------------------------
(* Small instances of TaskSched: TCB 0 is the idle task, with priority 3. *)
EXTENDS TaskSched, TLC

MCNoEvent == [e \in {} |-> 0]

\* Two tasks that do anything to each other and to a third one, with the
\* priority of the idle task or the one above.
MCTasks ==
  [ops |-> [t \in 1 .. 3 |->
     {"create", "delete", "suspend", "awake", "prio", "delay", "reset", "lock"}],
   boot |-> [1 .. 2 -> {2, 3}], prio |-> {2, 3}, delays |-> {1, 2}]

\* Three tasks of any priority that use a mutex.
MCThree == [boot |-> [1 .. 3 -> 1 .. 3], prio |-> 1 .. 3, delays |-> {1}]
MCEnter == [ops |-> [t \in 1 .. 3 |-> {"mutex", "enter", "delay"}]] @@ MCThree
MCPair == [ops |-> <<{"enter", "mutex", "delay"}, {"enter", "suspend"},
                     {"awake", "delete", "lock"}>>] @@ MCThree
MCChange == [ops |-> <<{"enter", "mutex"}, {"enter"},
                       {"enter", "prio", "delete", "lock"}>>] @@ MCThree
MCPrograms == {MCTasks, MCEnter, MCPair, MCChange}
=============================================================================
