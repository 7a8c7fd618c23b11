----------------------------- MODULE Allocator -----------------------------
(***************************************************************************)
(* What a first-fit heap promises: a set of disjoint blocks between Base   *)
(* and End.  A request takes the lowest gap that is large enough, or fails *)
(* when there is none; a block that is given back is a gap again, joined   *)
(* with the gaps next to it.  Kheap implements this with linked lists that *)
(* live in the heap itself.                                                *)
(***************************************************************************)
EXTENDS Integers, FiniteSetsExt, TLC

CONSTANTS Base, End,   \* the heap is the bytes Base .. End-1
          Sizes,       \* the sizes requested
          NULL

VARIABLES held,        \* address of a block |-> its length, with the head
          ret          \* what the last request returned

vars == <<held, ret>>

Head == 8              \* bytes of the head of a block in use
MinGap == 12           \* a smaller rest is given away with the block

Round(n) == 4 * ((n + 3) \div 4)
Ends(h) == {a + h[a] : a \in DOMAIN h}

(* The first address that is taken at or after a. *)
NextTaken(h, a) == Min({b \in DOMAIN h \cup {End} : b >= a})
GapAt(h, a) == NextTaken(h, a) - a

Gaps(h) == {a \in {Base} \cup Ends(h) : a < End /\ GapAt(h, a) > 0}
Fitting(h, n) == {a \in Gaps(h) : GapAt(h, a) >= Round(n) + Head}

Init == held = <<>> /\ ret = NULL

Refuse(n) ==
  /\ n = 0 \/ Fitting(held, n) = {}
  /\ ret' = NULL
  /\ UNCHANGED held

Allocate(n) ==
  /\ n > 0 /\ Fitting(held, n) # {}
  /\ LET a == Min(Fitting(held, n))
         need == Round(n) + Head
         len == IF GapAt(held, a) - need < MinGap THEN GapAt(held, a) ELSE need
     IN /\ held' = (a :> len) @@ held
        /\ ret' = a + Head

Release(a) ==
  /\ a \in DOMAIN held
  /\ held' = [b \in DOMAIN held \ {a} |-> held[b]]
  /\ UNCHANGED ret

Next ==
  \/ \E n \in Sizes : Refuse(n) \/ Allocate(n)
  \/ \E a \in DOMAIN held : Release(a)

Spec == Init /\ [][Next]_vars
=============================================================================
