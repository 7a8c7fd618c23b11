----------------------------- MODULE MCCoreLock -----------------------------
(* Model values and symmetry for model checking CoreLock. *)
EXTENDS CoreLock, TLC

CONSTANTS t1, t2, r1, r2

TwoTasks == {t1, t2}
TwoReqs  == {r1, r2}
OneReq   == {r1}
OneTask  == {t1}
Symm     == Permutations(TwoTasks)

\* The state without the cells outside the queue and the arguments of posts
\* that are over: no step reads them.
QueueView ==
    <<pc, lockVars, OSIntNesting, TaskSchedReq, reqVars, taskVars, cnt, head, slot, served,
      [i \in 0 .. MaxReq - 1 |-> IF (i + MaxReq - head) % MaxReq < cnt THEN cell[i] ELSE r1],
      [l \in Levels |-> IF pc[l] \in {"ins", "insidx", "inswr"} THEN arg[l] ELSE r1]>>
=============================================================================
