------------------------------ MODULE MemPool ------------------------------
(***************************************************************************)
(* The memory partitions of mm.c.  The free blocks of a partition form a   *)
(* list through their first words.  Tasks interleave between the tests at  *)
(* the head of a function, its locked region and what it does after the    *)
(* unlock.  Addresses are counted in blocks.                               *)
(***************************************************************************)
EXTENDS Integers, Sequences, Functions

CONSTANTS Task,
          MaxMM,       \* CFG_MAX_MM
          Areas,       \* start addresses of the memory that callers provide
          BlockNum,    \* blocks in an area
          Quiet        \* nobody is inside of a call on a partition that is deleted

NULL == -1
ID == 0 .. MaxMM - 1
BlocksOf(a) == a .. a + BlockNum - 1
Block == UNION {BlocksOf(a) : a \in Areas}

ASSUME MemPoolAssumption ==
  /\ MaxMM \in Nat \ {0}
  /\ BlockNum \in 2 .. 256                    \* the loop of the creation is 8 bits
  /\ Quiet \in BOOLEAN
  /\ Areas \subseteq Nat
  /\ \A a, b \in Areas : a < b => a + BlockNum < b   \* not adjacent

VARIABLES MemoryIDVessel,  \* identifiers in use
          MemoryTbl,       \* control blocks
          nextBlock,       \* first word of every block
          call,            \* what a task has read and not used yet
          held,            \* history: the blocks a task was given
          ready,           \* history: partition |-> its area, once created
          list,            \* history: partition |-> its free blocks in order
          clash            \* history: identifiers claimed during their deletion

vars == <<MemoryIDVessel, MemoryTbl, nextBlock, call, held, ready, list, clash>>

NoMM == [memAddr |-> NULL, freeBlock |-> NULL, blockNum |-> 0]
NoCall == [fn |-> "none"]

Init ==
  /\ MemoryIDVessel = {}
  /\ MemoryTbl = [i \in ID |-> NoMM]
  /\ nextBlock = [b \in Block |-> NULL]
  /\ call = [t \in Task |-> NoCall]
  /\ held = [t \in Task |-> {}]
  /\ ready = [i \in ID |-> NULL]
  /\ list = [i \in ID |-> <<>>]
  /\ clash = {}

Idle(t) == call[t] = NoCall
Return(t) == call' = [call EXCEPT ![t] = NoCall]
Busy(i) == \E t \in Task : call[t].fn \in {"get", "free"} /\ call[t].id = i
Held == UNION {held[t] : t \in Task}

(***************************************************************************)
(* CoCreateMemPartition: the identifier is claimed under the lock, control *)
(* block and list are written after it.                                    *)
(***************************************************************************)
CreateClaim(t, a) ==
  /\ Idle(t)
  /\ \A i \in ID : ready[i] # a                       \* the caller's memory
  /\ \A u \in Task : call[u].fn = "create" => call[u].area # a
  /\ \E i \in ID \ MemoryIDVessel :
       /\ \A j \in ID \ MemoryIDVessel : i <= j
       /\ MemoryIDVessel' = MemoryIDVessel \cup {i}
       /\ call' = [call EXCEPT ![t] = [fn |-> "create", id |-> i, area |-> a]]
       /\ clash' = IF \E u \in Task : call[u] = [fn |-> "wipe", id |-> i]
                   THEN clash \cup {i} ELSE clash \ {i}
  /\ UNCHANGED <<MemoryTbl, nextBlock, held, ready, list>>

CreateFail(t) ==
  /\ Idle(t)
  /\ MemoryIDVessel = ID
  /\ UNCHANGED vars

CreateInit(t) ==
  /\ call[t].fn = "create"
  /\ LET i == call[t].id
         a == call[t].area
     IN /\ MemoryTbl' = [MemoryTbl EXCEPT ![i] =
                           [memAddr |-> a, freeBlock |-> a, blockNum |-> BlockNum]]
        /\ nextBlock' = [b \in Block |-> IF b \in BlocksOf(a) THEN
                           IF b = a + BlockNum - 1 THEN NULL ELSE b + 1
                           ELSE nextBlock[b]]
        /\ ready' = [ready EXCEPT ![i] = a]
        /\ list' = [list EXCEPT ![i] = [j \in 1 .. BlockNum |-> a + j - 1]]
  /\ Return(t)
  /\ UNCHANGED <<MemoryIDVessel, held, clash>>

(***************************************************************************)
(* CoDelMemoryPartition: the control block is wiped after the unlock.  The *)
(* caller deletes a partition that it knows and nobody uses any more.      *)
(***************************************************************************)
DelRelease(t, i) ==
  /\ Idle(t)
  /\ i \in MemoryIDVessel /\ ready[i] # NULL
  /\ Quiet => ~Busy(i)
  /\ Held \cap BlocksOf(ready[i]) = {}
  /\ MemoryIDVessel' = MemoryIDVessel \ {i}
  /\ ready' = [ready EXCEPT ![i] = NULL]
  /\ call' = [call EXCEPT ![t] = [fn |-> "wipe", id |-> i]]
  /\ UNCHANGED <<MemoryTbl, nextBlock, held, list, clash>>

DelWipe(t) ==
  /\ call[t].fn = "wipe"
  /\ MemoryTbl' = [MemoryTbl EXCEPT ![call[t].id] = NoMM]
  /\ Return(t)
  /\ UNCHANGED <<MemoryIDVessel, nextBlock, held, ready, list, clash>>

(***************************************************************************)
(* CoGetMemoryBuffer and CoFreeMemoryBuffer: tests, then the locked region. *)
(***************************************************************************)
GetTest(t, i) ==
  /\ Idle(t)
  /\ ready[i] # NULL
  /\ i \in MemoryIDVessel
  /\ call' = [call EXCEPT ![t] = [fn |-> "get", id |-> i]]
  /\ UNCHANGED <<MemoryIDVessel, MemoryTbl, nextBlock, held, ready, list, clash>>

(* Mutant of GetLocked: the block stays in the list. *)
GetLockedKeepsHead(t) ==
  /\ call[t].fn = "get"
  /\ LET b == MemoryTbl[call[t].id].freeBlock
     IN held' = [held EXCEPT ![t] = @ \cup ({b} \ {NULL})]
  /\ Return(t)
  /\ UNCHANGED <<MemoryIDVessel, MemoryTbl, nextBlock, ready, list, clash>>

GetLocked(t) ==
  /\ call[t].fn = "get"
  /\ LET i == call[t].id
         b == MemoryTbl[i].freeBlock
     IN IF b = NULL THEN UNCHANGED <<MemoryTbl, held, list>>
        ELSE /\ MemoryTbl' = [MemoryTbl EXCEPT ![i].freeBlock = nextBlock[b]]
             /\ held' = [held EXCEPT ![t] = @ \cup {b}]
             /\ list' = [list EXCEPT ![i] = Tail(@)]
  /\ Return(t)
  /\ UNCHANGED <<MemoryIDVessel, nextBlock, ready, clash>>

(* Mutant of InPartition: only the lower end is tested. *)
InPartitionNoEnd(mm, b) == b >= mm.memAddr

(* The tests of buf.  The block one past the end passes. *)
InPartition(mm, b) == b >= mm.memAddr /\ b <= mm.memAddr + mm.blockNum

(* A task gives back a block of its own, to any partition. *)
FreeTest(t, i, b) ==
  /\ Idle(t)
  /\ b \in held[t] /\ ready[i] # NULL
  /\ i \in MemoryIDVessel
  /\ InPartition(MemoryTbl[i], b)
  /\ call' = [call EXCEPT ![t] = [fn |-> "free", id |-> i, buf |-> b]]
  /\ UNCHANGED <<MemoryIDVessel, MemoryTbl, nextBlock, held, ready, list, clash>>

FreeLocked(t) ==
  /\ call[t].fn = "free"
  /\ LET i == call[t].id
         b == call[t].buf
     IN /\ nextBlock' = [nextBlock EXCEPT ![b] = MemoryTbl[i].freeBlock]
        /\ MemoryTbl' = [MemoryTbl EXCEPT ![i].freeBlock = b]
        /\ held' = [held EXCEPT ![t] = @ \ {b}]
        /\ list' = [list EXCEPT ![i] = <<b>> \o @]
  /\ Return(t)
  /\ UNCHANGED <<MemoryIDVessel, ready, clash>>

Next ==
  \E t \in Task :
    \/ \E a \in Areas : CreateClaim(t, a)
    \/ CreateFail(t)
    \/ CreateInit(t)
    \/ \E i \in ID : DelRelease(t, i) \/ GetTest(t, i)
                     \/ \E b \in held[t] : FreeTest(t, i, b)
    \/ DelWipe(t)
    \/ GetLocked(t)
    \/ FreeLocked(t)

Spec == Init /\ [][Next]_vars

(***************************************************************************)
(* Properties.                                                             *)
(***************************************************************************)
Calls ==
  {NoCall} \cup [fn : {"create"}, id : ID, area : Areas]
           \cup [fn : {"wipe", "get"}, id : ID]
           \cup [fn : {"free"}, id : ID, buf : Block]

TypeOK ==
  /\ MemoryIDVessel \subseteq ID
  /\ MemoryTbl \in [ID -> [memAddr : Areas \cup {NULL}, freeBlock : Block \cup {NULL},
                           blockNum : {0, BlockNum}]]
  /\ nextBlock \in [Block -> Block \cup {NULL}]
  /\ call \in [Task -> Calls]
  /\ held \in [Task -> SUBSET Block]
  /\ ready \in [ID -> Areas \cup {NULL}]
  /\ list \in [ID -> Seq(Block)]
  /\ clash \subseteq ID

(* A block is never in the hands of two tasks, and never in the hands of a *)
(* task and in the list of a partition that can be used: what one task     *)
(* gets from CoGetMemoryBuffer nobody else gets until it is given back.    *)
HeldOnce ==
  /\ \A t, u \in Task : t # u => held[t] \cap held[u] = {}
  /\ \A i \in ID : ready[i] # NULL => Range(list[i]) \cap Held = {}

(* The list through the first words of the blocks has exactly the blocks of *)
(* the partition that nobody holds, each once: no block is lost and none is *)
(* of another partition.  It is said of partitions whose identifier was not *)
(* claimed while its last deletion had still to wipe the control block      *)
(* (mm.c:120), which loses the list.                                        *)
Linked(i) ==
  /\ MemoryTbl[i].freeBlock = (IF list[i] = <<>> THEN NULL ELSE list[i][1])
  /\ \A j \in DOMAIN list[i] :
       nextBlock[list[i][j]] = (IF j = Len(list[i]) THEN NULL ELSE list[i][j + 1])
PoolExact ==
  /\ TypeOK
  /\ \A i \in ID : ready[i] # NULL /\ i \notin clash =>
       /\ Linked(i)
       /\ IsInjective(list[i])
       /\ Range(list[i]) = BlocksOf(ready[i]) \ Held
=============================================================================
