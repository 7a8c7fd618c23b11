------------------------------- MODULE Kheap -------------------------------
(***************************************************************************)
(* The kernel heap of kernelHeap.c, at the level of its words: the heads   *)
(* of blocks in use (UMB: nextMB, preMB) and of free blocks (FMB: nextFMB, *)
(* nextUMB, preUMB) are words of the heap itself and overlap.  A link to a *)
(* block in use has bit 0 set.  Both functions hold the scheduler lock for *)
(* all they read and write, so a call is one step.                         *)
(***************************************************************************)
EXTENDS Integers, Sequences, FiniteSetsExt, SequencesExt, TLC

CONSTANTS Base,        \* Kheap.startAddr, a multiple of 4
          HeapWords,   \* KHEAP_SIZE
          Sizes,       \* the sizes requested of CoKmalloc
          Width        \* bits of U32

NULL == 0
End == Base + 4 * HeapWords

ASSUME KheapAssumption ==
  /\ Base \in Nat \ {0} /\ Base % 4 = 0
  /\ HeapWords \in Nat /\ HeapWords >= 3
  /\ Sizes \subseteq Nat
  /\ \A n \in Sizes : n + 11 < 2^Width

VARIABLES mem,         \* address of a word |-> its value
          FMBlist,     \* the first free block
          wild,        \* CoKfree has followed a link out of the heap
          held,        \* history: block in use |-> its length
          ret          \* history: what the last CoKmalloc returned

vars == <<mem, FMBlist, wild, held, ret>>

Addr == {Base + 4 * i : i \in 0 .. HeapWords - 1}

Init ==
  /\ mem = [a \in Addr |-> 0]
  /\ FMBlist = Base
  /\ wild = FALSE
  /\ held = <<>>
  /\ ret = NULL

(***************************************************************************)
(* Links and the fields of the heads.                                      *)
(***************************************************************************)
IsUsed(link) == link % 2 = 1
Tag(u) == u + 1
Umb(link) == link - 1              \* of NULL: 0xFFFFFFFF, here -1

nextMB(u) == mem[u]
preMB(u) == mem[u + 4]
nextFMB(f) == mem[f]
nextUMB(f) == mem[f + 4]
preUMB(f) == mem[f + 8]

WriteFMB(f, nf, nu, pu) == f :> nf @@ f + 4 :> nu @@ f + 8 :> pu
WriteUMB(u, nm, pm) == u :> nm @@ u + 4 :> pm
WriteIf(c, a, v) == IF c THEN a :> v ELSE <<>>

(***************************************************************************)
(* CoKmalloc.                                                              *)
(***************************************************************************)
FreeSize(f) == (IF nextUMB(f) = NULL THEN End ELSE Umb(nextUMB(f))) - f

FreeBlocks ==
  LET from[f \in Addr \cup {NULL}] ==
        IF f = NULL THEN <<>> ELSE <<f>> \o from[nextFMB(f)]
  IN from[FMBlist]

Need(size) == (((((size + 3) % 2^Width) \div 4) * 4) + 8) % 2^Width

(* Mutant of Fits: a block that is just large enough is passed over. *)
FitsStrictly(size) == {i \in DOMAIN FreeBlocks : FreeSize(FreeBlocks[i]) > Need(size)}

Fits(size) == {i \in DOMAIN FreeBlocks : FreeSize(FreeBlocks[i]) >= Need(size)}

(* Mutant of TakeBlock: the block behind is not told who is before it. *)
TakeBlockForgets(f, pre, n) ==
  LET whole == FreeSize(f) - n < 12
      new == f + n
      next == IF whole THEN nextFMB(f) ELSE new
  IN /\ FMBlist' = IF pre = NULL THEN next ELSE FMBlist
     /\ mem' = WriteIf(preUMB(f) # NULL, Umb(preUMB(f)), Tag(f))
               @@ WriteUMB(f, IF whole THEN nextUMB(f) ELSE new, preUMB(f))
               @@ (IF whole THEN <<>>
                   ELSE WriteFMB(new, nextFMB(f), nextUMB(f), Tag(f)))
               @@ WriteIf(pre # NULL, pre, next)
               @@ mem
     /\ held' = (f :> IF whole THEN FreeSize(f) ELSE n) @@ held
     /\ ret' = f + 8

(* Block f, behind free block pre, is used for a request that needs n bytes. *)
TakeBlock(f, pre, n) ==
  LET whole == FreeSize(f) - n < 12
      new == f + n
      next == IF whole THEN nextFMB(f) ELSE new
  IN /\ FMBlist' = IF pre = NULL THEN next ELSE FMBlist
     /\ mem' = WriteIf(preUMB(f) # NULL, Umb(preUMB(f)), Tag(f))
               @@ WriteUMB(f, IF whole THEN nextUMB(f) ELSE new, preUMB(f))
               @@ WriteIf(nextUMB(f) # NULL, Umb(nextUMB(f)) + 4,
                          IF whole THEN Tag(f) ELSE new)
               @@ (IF whole THEN <<>>
                   ELSE WriteFMB(new, nextFMB(f), nextUMB(f), Tag(f)))
               @@ WriteIf(pre # NULL, pre, next)
               @@ mem
     /\ held' = (f :> IF whole THEN FreeSize(f) ELSE n) @@ held
     /\ ret' = f + 8

CoKmalloc(size) ==
  /\ ~wild
  /\ IF size = 0 \/ Fits(size) = {}
     THEN ret' = NULL /\ UNCHANGED <<mem, FMBlist, held>>
     ELSE LET i == Min(Fits(size))
          IN TakeBlock(FreeBlocks[i], IF i = 1 THEN NULL ELSE FreeBlocks[i - 1],
                       Need(size))
  /\ UNCHANGED wild

(***************************************************************************)
(* CoKfree.  The search for the block is the check "UMB in list": down     *)
(* from the first free block, or up from it.  It ends at the block, at     *)
(* NULL, or outside of the heap, where the walk reads what is not a link.  *)
(***************************************************************************)
SearchDown(u) ==
  LET from[p \in Addr \cup {-1}] ==
        IF p = u THEN "found" ELSE IF p = -1 THEN "wild" ELSE from[Umb(preMB(p))]
  IN from[Umb(preUMB(FMBlist))]

SearchUp(u) ==
  LET from[p \in Addr \cup {NULL, -1}] ==
        IF p = u THEN "found"
        ELSE IF p = NULL THEN "absent"
        ELSE IF p = -1 \/ nextMB(p) = NULL THEN "wild"
        ELSE from[IF IsUsed(nextMB(p)) THEN Umb(nextMB(p))
                  ELSE Umb(nextUMB(nextMB(p)))]
  IN from[IF FMBlist = NULL THEN Base
          ELSE IF nextUMB(FMBlist) # NULL THEN Umb(nextUMB(FMBlist)) ELSE NULL]

Search(u) == IF u < FMBlist THEN SearchDown(u) ELSE SearchUp(u)

GetPreFMB(u) ==
  LET from[p \in Addr] == IF IsUsed(preMB(p)) THEN from[Umb(preMB(p))] ELSE preMB(p)
  IN from[u]

(* Block u becomes free: alone, or joined with the free block before it,  *)
(* behind it, or both.  cur is the free block that results, pre the free  *)
(* block whose link has to lead to cur.                                    *)
Joined(u) ==
  LET nm == nextMB(u)
      pm == preMB(u)
      pre == GetPreFMB(u)
      before == IF pre = NULL THEN FMBlist ELSE nextFMB(pre)
      behind == IF nm = NULL THEN [nf |-> NULL, nu |-> NULL]
                ELSE [nf |-> nextFMB(nm), nu |-> nextUMB(nm)]
      join == IF before = NULL THEN [nf |-> NULL, nu |-> NULL]
              ELSE [nf |-> nextFMB(before), nu |-> nextUMB(before)]
  IN CASE ~IsUsed(nm) /\ ~IsUsed(pm) ->
            [cur |-> IF pm = NULL THEN u ELSE pm, pre |-> pm,
             nf |-> behind.nf, nu |-> behind.nu,
             pu |-> IF pm = NULL THEN NULL ELSE preUMB(pm)]
       [] IsUsed(nm) /\ ~IsUsed(pm) ->
            [cur |-> IF pm = NULL THEN u ELSE pm, pre |-> pm,
             nf |-> IF pm = NULL THEN FMBlist ELSE nextFMB(pm), nu |-> nm,
             pu |-> IF pm = NULL THEN NULL ELSE preUMB(pm)]
       [] ~IsUsed(nm) /\ IsUsed(pm) ->
            [cur |-> u, pre |-> pre, nf |-> join.nf, nu |-> join.nu, pu |-> pm]
       [] OTHER ->
            [cur |-> u, pre |-> pre, nf |-> before, nu |-> nm, pu |-> pm]

Release(u) ==
  LET j == Joined(u)
  IN /\ FMBlist' = IF j.pre = NULL THEN j.cur ELSE FMBlist
     /\ mem' = WriteIf(j.nu # NULL, Umb(j.nu) + 4, j.cur)
               @@ WriteIf(j.pu # NULL, Umb(j.pu), j.cur)
               @@ WriteFMB(j.cur, j.nf, j.nu, j.pu)
               @@ WriteIf(j.pre # NULL /\ j.pre # j.cur, j.pre, j.cur)
               @@ mem
     /\ held' = [a \in DOMAIN held \ {u} |-> held[a]]
     /\ UNCHANGED wild

CoKfree(buf) ==
  /\ ~wild
  /\ buf >= Base /\ buf <= End
  /\ LET u == buf - 8
     IN CASE Search(u) = "found" -> Release(u)
          [] Search(u) = "absent" -> UNCHANGED <<mem, FMBlist, held, wild>>
          [] Search(u) = "wild" -> wild' = TRUE /\ UNCHANGED <<mem, FMBlist, held>>
  /\ UNCHANGED ret

(* A caller gives back any address, a block of its own or not. *)
Next ==
  \/ \E n \in Sizes : CoKmalloc(n)
  \/ \E buf \in Addr \cup {End} : CoKfree(buf)

Spec == Init /\ [][Next]_vars

(***************************************************************************)
(* Properties.                                                             *)
(***************************************************************************)
A == INSTANCE Allocator

(* The words hold links or NULL, and the first free block is in the heap. *)
TypeOK ==
  /\ mem \in [Addr -> Nat]
  /\ FMBlist \in Addr \cup {NULL}
  /\ wild \in BOOLEAN
  /\ DOMAIN held \subseteq Addr
  /\ \A a \in DOMAIN held : held[a] \in 12 .. 4 * HeapWords
  /\ ret \in {NULL} \cup {a + 8 : a \in Addr}

(* The two lists that CoKmalloc and CoKfree keep describe the heap exactly: *)
(* the free list has the gaps between the blocks in use, each once, as large *)
(* as they are and in the order of their addresses, and every block knows    *)
(* its neighbours on both sides and whether they are free.  The check "UMB   *)
(* in list" of CoKfree finds every block in use, wherever the free blocks    *)
(* are: what was allocated can be given back.                                *)
LinkTo(a) == IF a \in DOMAIN held THEN Tag(a) ELSE IF a = End THEN NULL ELSE a
LinksExact ==
  LET starts == DOMAIN held \cup A!Gaps(held)
      Before(a) == LET below == {b \in starts : b < a}
                   IN IF below = {} THEN NULL ELSE LinkTo(Max(below))
  IN /\ TypeOK
     /\ ToSet(FreeBlocks) = A!Gaps(held)
     /\ \A i \in 2 .. Len(FreeBlocks) : FreeBlocks[i - 1] < FreeBlocks[i]
     /\ \A f \in A!Gaps(held) :
          /\ FreeSize(f) = A!GapAt(held, f)
          /\ FreeSize(f) >= 12
          /\ preUMB(f) = Before(f)
     /\ \A u \in DOMAIN held :
          /\ nextMB(u) = LinkTo(u + held[u])
          /\ preMB(u) = Before(u)
     /\ \A u \in DOMAIN held : Search(u) = "found"

(* CoKmalloc and CoKfree implement a first-fit heap: a request takes the    *)
(* lowest gap that is large enough and fails only when there is none, a     *)
(* block that is given back joins the gaps next to it, and giving back what *)
(* is not a block in use changes nothing.                                   *)
ImplementsAllocator == A!Spec
=============================================================================
