---------------------------- MODULE ServiceQueue ----------------------------
(***************************************************************************)
(* What the kernel promises of interrupt service requests: a bounded FIFO  *)
(* queue.  A request is accepted at once or refused when the queue is      *)
(* full, and accepted requests are served exactly once, in the order of    *)
(* acceptance.                                                             *)
(***************************************************************************)
EXTENDS Naturals, Sequences

CONSTANTS Req, MaxReq

VARIABLES queue,    \* accepted and not yet taken out, oldest first
          served    \* the request taken out last

Init == queue = << >> /\ served \in Req

Accept(r) == /\ Len(queue) < MaxReq
             /\ queue' = Append(queue, r)
             /\ UNCHANGED served

Serve == /\ queue # << >>
         /\ served' = Head(queue)
         /\ queue' = Tail(queue)

Next == Serve \/ \E r \in Req : Accept(r)

Spec == Init /\ [][Next]_<<queue, served>>
=============================================================================
