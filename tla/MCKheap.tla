------------------------------ MODULE MCKheap ------------------------------
(* Kheap with the words that are neither a head nor ever read left out of  *)
(* the state: what a caller left in them makes no difference.              *)
EXTENDS Kheap

HeadWords ==
  UNION {{u, u + 4} : u \in DOMAIN held}
  \cup UNION {{f, f + 4, f + 8} : f \in ToSet(FreeBlocks)}
HeapView == <<[a \in HeadWords \cap Addr |-> mem[a]], FMBlist, wild, held, ret>>
=============================================================================
