--------------------------- MODULE MemPoolProofs ---------------------------
(***************************************************************************)
(* Proofs about MemPool, for any set of tasks, any number of partitions    *)
(* and any areas that are not adjacent.                                    *)
(***************************************************************************)
EXTENDS MemPool, TLAPS

(***************************************************************************)
(* Part 1.  The inductive invariant.                                       *)
(***************************************************************************)
Ready(i) == ready[i] # NULL
Doing(t, fn) == call[t].fn = fn

\* A partition that is ready has its identifier, and no two have an area.
IdsOwned ==
  /\ \A i \in ID : Ready(i) => i \in MemoryIDVessel
  /\ \A i, j \in ID : Ready(i) /\ i # j => ready[i] # ready[j]

\* A creation under way owns its identifier and its area.
CreateOwns(t) ==
  Doing(t, "create") =>
    /\ call[t].id \in MemoryIDVessel /\ ~Ready(call[t].id)
    /\ \A i \in ID : ready[i] # call[t].area
    /\ \A u \in Task : u # t /\ Doing(u, "create") =>
         call[u].id # call[t].id /\ call[u].area # call[t].area

\* What a call has tested still holds when it is used, except that an
\* identifier may be in use again while its deletion is not over.
CallValid(t) ==
  /\ Doing(t, "wipe") /\ call[t].id \in MemoryIDVessel => call[t].id \in clash
  /\ Doing(t, "get") => Ready(call[t].id)
  /\ Doing(t, "free") => /\ Ready(call[t].id)
                         /\ call[t].buf \in held[t]
                         /\ call[t].buf \in BlocksOf(ready[call[t].id])

CallsValid == \A t \in Task : CreateOwns(t) /\ CallValid(t)

\* A block is held by one task, and belongs to a partition.
HeldOwned ==
  /\ \A t, u \in Task : t # u => held[t] \cap held[u] = {}
  /\ \A t \in Task : \A b \in held[t] :
       \E i \in ID : Ready(i) /\ b \in BlocksOf(ready[i])

\* The list of a partition has its free blocks, each once.
ListHas(i) ==
  /\ IsInjective(list[i])
  /\ Range(list[i]) = BlocksOf(ready[i]) \ Held

\* Where the control block was wiped the links end too early, and never lead
\* anywhere else.
LinkedPart(i) ==
  /\ MemoryTbl[i].freeBlock # NULL =>
       list[i] # <<>> /\ MemoryTbl[i].freeBlock = list[i][1]
  /\ \A j \in DOMAIN list[i] :
       nextBlock[list[i][j]] # NULL =>
         j < Len(list[i]) /\ nextBlock[list[i][j]] = list[i][j + 1]

\* The bounds that CoFreeMemoryBuffer tests, wiped or not.
BoundsKept(i) ==
  \/ MemoryTbl[i].memAddr = ready[i] /\ MemoryTbl[i].blockNum = BlockNum
  \/ MemoryTbl[i].memAddr = NULL /\ MemoryTbl[i].blockNum = 0

PoolsKept ==
  \A i \in ID : Ready(i) =>
    /\ ListHas(i) /\ LinkedPart(i) /\ BoundsKept(i)
    /\ i \notin clash => Linked(i)

Inv == TypeOK /\ IdsOwned /\ CallsValid /\ HeldOwned /\ PoolsKept

(***************************************************************************)
(* Part 2.  Lists and areas.                                               *)
(***************************************************************************)
\* What CoGetMemoryBuffer leaves of a list.
LEMMA TailOf ==
  ASSUME NEW S, NEW s \in Seq(S), s # <<>>
  PROVE  /\ Tail(s) \in Seq(S) /\ s[1] \in S /\ 1 \in DOMAIN s
         /\ Len(s) \in Nat /\ Len(s) > 0 /\ Len(Tail(s)) = Len(s) - 1
         /\ \A j \in DOMAIN Tail(s) :
              j \in Nat /\ j + 1 \in DOMAIN s /\ Tail(s)[j] = s[j + 1]
         /\ \A j \in DOMAIN s : j = 1 \/ (j - 1 \in DOMAIN Tail(s) /\ Tail(s)[j - 1] = s[j])
OBVIOUS

\* What CoFreeMemoryBuffer makes of a list.
LEMMA ConsOf ==
  ASSUME NEW S, NEW s \in Seq(S), NEW b \in S
  PROVE  /\ <<b>> \o s \in Seq(S) /\ <<b>> \o s # <<>>
         /\ Len(s) \in Nat /\ Len(<<b>> \o s) = Len(s) + 1
         /\ (<<b>> \o s)[1] = b /\ 1 \in DOMAIN (<<b>> \o s)
         /\ \A j \in DOMAIN (<<b>> \o s) :
              j = 1 \/ (j - 1 \in DOMAIN s /\ (<<b>> \o s)[j] = s[j - 1])
         /\ \A j \in DOMAIN s : j + 1 \in DOMAIN (<<b>> \o s) /\ (<<b>> \o s)[j + 1] = s[j]
OBVIOUS

\* Taking the first block out of a list without repetitions.
LEMMA TailRange ==
  ASSUME NEW S, NEW s \in Seq(S), s # <<>>, IsInjective(s)
  PROVE  IsInjective(Tail(s)) /\ Range(Tail(s)) = Range(s) \ {s[1]}
<1>1. IsInjective(Tail(s))
  BY TailOf DEF IsInjective
<1>2. ASSUME NEW x \in Range(Tail(s)) PROVE x \in Range(s) \ {s[1]}
  <2>1. PICK j \in DOMAIN Tail(s) : x = Tail(s)[j]
    BY DEF Range
  <2>2. j + 1 \in DOMAIN s /\ x = s[j + 1] /\ j + 1 # 1
    BY <2>1, TailOf
  <2> QED BY <2>2, TailOf DEF Range, IsInjective
<1>3. ASSUME NEW x \in Range(s) \ {s[1]} PROVE x \in Range(Tail(s))
  <2>1. PICK j \in DOMAIN s : x = s[j]
    BY DEF Range
  <2>2. j - 1 \in DOMAIN Tail(s) /\ Tail(s)[j - 1] = x
    BY <2>1, TailOf
  <2> QED BY <2>2 DEF Range
<1> QED BY <1>1, <1>2, <1>3

\* Putting a block in front of a list that does not have it.
LEMMA ConsRange ==
  ASSUME NEW S, NEW s \in Seq(S), NEW b \in S, IsInjective(s), b \notin Range(s)
  PROVE  IsInjective(<<b>> \o s) /\ Range(<<b>> \o s) = Range(s) \cup {b}
<1> DEFINE t == <<b>> \o s
<1>1. IsInjective(t)
  <2> SUFFICES ASSUME NEW i \in DOMAIN t, NEW j \in DOMAIN t, t[i] = t[j]
               PROVE  i = j
    BY DEF IsInjective
  <2>1. /\ i = 1 \/ (i - 1 \in DOMAIN s /\ t[i] = s[i - 1])
        /\ j = 1 \/ (j - 1 \in DOMAIN s /\ t[j] = s[j - 1])
        /\ t[1] = b
        /\ \A k \in DOMAIN s : s[k] # b
        /\ i \in Nat /\ j \in Nat
    <3>1. DOMAIN t \subseteq Nat
      BY ConsOf
    <3> QED BY <3>1, ConsOf DEF Range
  <2> QED BY <2>1 DEF IsInjective
<1>2. ASSUME NEW x \in Range(t) PROVE x \in Range(s) \cup {b}
  BY ConsOf DEF Range
<1>3. ASSUME NEW x \in Range(s) \cup {b} PROVE x \in Range(t)
  <2>1. CASE x = b
    BY <2>1, ConsOf DEF Range
  <2>2. ASSUME NEW j \in DOMAIN s, x = s[j] PROVE x \in Range(t)
    <3>1. j + 1 \in DOMAIN t /\ t[j + 1] = x
      BY <2>2, ConsOf
    <3> QED BY <3>1 DEF Range
  <2> QED BY <2>1, <2>2 DEF Range
<1> QED BY <1>1, <1>2, <1>3

\* Areas have no block in common, and the block after an area is in none.
LEMMA AreasApart ==
  ASSUME NEW a \in Areas
  PROVE  /\ a \in Nat /\ a # NULL /\ BlocksOf(a) \subseteq Block
         /\ a + BlockNum \notin Block
         /\ \A b \in Areas : a # b => BlocksOf(a) \cap BlocksOf(b) = {}
BY MemPoolAssumption DEF Block, BlocksOf, NULL

\* Every block is an address.
LEMMA BlockNat == Block \subseteq Nat /\ NULL \notin Block
BY MemPoolAssumption DEF Block, BlocksOf, NULL

(***************************************************************************)
(* Part 3.  Types.                                                         *)
(***************************************************************************)
\* What a call has read is known from the function it is in.
LEMMA CallTypes ==
  ASSUME TypeOK, NEW t \in Task
  PROVE  /\ call[t] \in Calls
         /\ Doing(t, "create") => call[t].id \in ID /\ call[t].area \in Areas
         /\ Doing(t, "wipe") \/ Doing(t, "get") => call[t].id \in ID
         /\ Doing(t, "free") => call[t].id \in ID /\ call[t].buf \in Block
         /\ Idle(t) => Doing(t, "none")
<1>1. call[t] \in Calls
  BY DEF TypeOK
<1> QED BY <1>1 DEF Calls, NoCall, Doing, Idle

\* A step of t that leaves the calls of the others alone.
LEMMA CallAfter ==
  ASSUME TypeOK, NEW t \in Task, NEW r, call' = [call EXCEPT ![t] = r]
  PROVE  call'[t] = r /\ \A u \in Task : u # t => call'[u] = call[u]
BY DEF TypeOK

\* The control blocks and the links of mm.c stay within the memory provided.
LEMMA TypesKept == Inv /\ [Next]_vars => TypeOK'
<1> SUFFICES ASSUME Inv, [Next]_vars PROVE TypeOK'
  OBVIOUS
<1>0. TypeOK
  BY DEF Inv
<1> USE <1>0
<1> USE MemPoolAssumption
<1>1. ASSUME NEW t \in Task, NEW a \in Areas, CreateClaim(t, a) PROVE TypeOK'
  <2>1. PICK i \in ID \ MemoryIDVessel :
          /\ MemoryIDVessel' = MemoryIDVessel \cup {i}
          /\ call' = [call EXCEPT ![t] = [fn |-> "create", id |-> i, area |-> a]]
          /\ clash' \in {clash \cup {i}, clash \ {i}}
    BY <1>1 DEF CreateClaim
  <2>2. [fn |-> "create", id |-> i, area |-> a] \in Calls
    BY DEF Calls
  <2> QED BY <1>1, <2>1, <2>2 DEF CreateClaim, TypeOK
<1>2. ASSUME NEW t \in Task, CreateInit(t) PROVE TypeOK'
  <2> DEFINE i == call[t].id
             a == call[t].area
  <2>1. i \in ID /\ a \in Areas
    BY <1>2, CallTypes DEF CreateInit, Doing
  <2>2. BlocksOf(a) \subseteq Block /\ a \in Nat
    BY <2>1, AreasApart
  <2>3. a \in Block /\ \A b \in BlocksOf(a) : b # a + BlockNum - 1 => b + 1 \in Block
    BY <2>2 DEF BlocksOf
  <2>4. nextBlock' \in [Block -> Block \cup {NULL}]
    BY <1>2, <2>3 DEF CreateInit, TypeOK
  <2>5. [j \in 1 .. BlockNum |-> a + j - 1] \in Seq(Block)
    <3>1. \A j \in 1 .. BlockNum : a + j - 1 \in Block
      BY <2>2 DEF BlocksOf
    <3> QED BY <3>1
  <2>6. list' \in [ID -> Seq(Block)]
    BY <1>2, <2>1, <2>5 DEF CreateInit, TypeOK
  <2>7. MemoryTbl' \in [ID -> [memAddr : Areas \cup {NULL}, freeBlock : Block \cup {NULL},
                                blockNum : {0, BlockNum}]]
    BY <1>2, <2>1, <2>3 DEF CreateInit, TypeOK
  <2>8. ready' \in [ID -> Areas \cup {NULL}] /\ call' \in [Task -> Calls]
    BY <1>2, <2>1 DEF CreateInit, Return, Calls, TypeOK
  <2> QED BY <1>2, <2>4, <2>6, <2>7, <2>8 DEF CreateInit, TypeOK
<1>3. ASSUME NEW t \in Task, NEW i \in ID, DelRelease(t, i) PROVE TypeOK'
  <2>1. [fn |-> "wipe", id |-> i] \in Calls
    BY DEF Calls
  <2> QED BY <1>3, <2>1 DEF DelRelease, TypeOK
<1>4. ASSUME NEW t \in Task, DelWipe(t) PROVE TypeOK'
  BY <1>4, CallTypes DEF DelWipe, Doing, Return, Calls, NoMM, TypeOK
<1>5. ASSUME NEW t \in Task, NEW i \in ID, GetTest(t, i) PROVE TypeOK'
  <2>1. [fn |-> "get", id |-> i] \in Calls
    BY DEF Calls
  <2> QED BY <1>5, <2>1 DEF GetTest, TypeOK
<1>6. ASSUME NEW t \in Task, GetLocked(t) PROVE TypeOK'
  <2> DEFINE i == call[t].id
             b == MemoryTbl[i].freeBlock
  <2>1. i \in ID
    BY <1>6, CallTypes DEF GetLocked, Doing
  <2>2. call' \in [Task -> Calls]
    BY <1>6 DEF GetLocked, Return, Calls, TypeOK
  <2>3. CASE b = NULL
    BY <1>6, <2>2, <2>3 DEF GetLocked, TypeOK
  <2>4. CASE b # NULL
    <3>1. b \in Block /\ nextBlock[b] \in Block \cup {NULL}
      BY <2>1, <2>4 DEF TypeOK
    <3>2. Tail(list[i]) \in Seq(Block)
      <4>1. list[i] # <<>>
        BY <1>6, <2>1, <2>4 DEF GetLocked, Inv, CallsValid, CallValid, Doing, PoolsKept, LinkedPart
      <4>2. list[i] \in Seq(Block)
        BY <2>1 DEF TypeOK
      <4> QED BY <4>1, <4>2, TailOf
    <3>5. /\ MemoryTbl' = [MemoryTbl EXCEPT ![i].freeBlock = nextBlock[b]]
          /\ held' = [held EXCEPT ![t] = @ \cup {b}]
          /\ list' = [list EXCEPT ![i] = Tail(@)]
      BY <1>6, <2>4 DEF GetLocked
    <3>3. MemoryTbl' \in [ID -> [memAddr : Areas \cup {NULL}, freeBlock : Block \cup {NULL},
                                  blockNum : {0, BlockNum}]]
      BY <2>1, <3>1, <3>5 DEF TypeOK
    <3>4. held' \in [Task -> SUBSET Block] /\ list' \in [ID -> Seq(Block)]
      BY <2>1, <3>1, <3>2, <3>5 DEF TypeOK
    <3> QED BY <1>6, <2>2, <3>3, <3>4 DEF GetLocked, TypeOK
  <2> QED BY <2>3, <2>4
<1>7. ASSUME NEW t \in Task, NEW i \in ID, NEW b \in held[t], FreeTest(t, i, b) PROVE TypeOK'
  <2>1. [fn |-> "free", id |-> i, buf |-> b] \in Calls
    BY DEF Calls, TypeOK
  <2> QED BY <1>7, <2>1 DEF FreeTest, TypeOK
<1>8. ASSUME NEW t \in Task, FreeLocked(t) PROVE TypeOK'
  <2> DEFINE i == call[t].id
             b == call[t].buf
  <2>1. i \in ID /\ b \in Block
    BY <1>8, CallTypes DEF FreeLocked, Doing
  <2>2. call' \in [Task -> Calls] /\ held' \in [Task -> SUBSET Block]
    BY <1>8 DEF FreeLocked, Return, Calls, TypeOK
  <2>3. nextBlock' \in [Block -> Block \cup {NULL}]
    BY <1>8, <2>1 DEF FreeLocked, TypeOK
  <2>4. MemoryTbl' \in [ID -> [memAddr : Areas \cup {NULL}, freeBlock : Block \cup {NULL},
                                blockNum : {0, BlockNum}]]
    BY <1>8, <2>1 DEF FreeLocked, TypeOK
  <2>5. <<b>> \o list[i] \in Seq(Block)
    BY <2>1 DEF TypeOK
  <2>6. list' \in [ID -> Seq(Block)]
    BY <1>8, <2>1, <2>5 DEF FreeLocked, TypeOK
  <2> QED BY <1>8, <2>2, <2>3, <2>4, <2>6 DEF FreeLocked, TypeOK
<1>9. CASE UNCHANGED vars
  BY <1>9 DEF vars, TypeOK
<1> QED BY <1>1, <1>2, <1>3, <1>4, <1>5, <1>6, <1>7, <1>8, <1>9 DEF Next, CreateFail

(***************************************************************************)
(* Part 4.  Every operation keeps the invariant.                           *)
(***************************************************************************)
\* Held has the blocks that some task holds.
LEMMA HeldHas == \A b : b \in Held <=> \E t \in Task : b \in held[t]
BY DEF Held

\* A list that is ready has blocks of its own area only, and none that is held.
LEMMA ListApart ==
  ASSUME Inv, NEW i \in ID, Ready(i), NEW j \in DOMAIN list[i]
  PROVE  /\ list[i][j] \in BlocksOf(ready[i]) /\ list[i][j] \in Block
         /\ list[i][j] \notin Held
<1>1. list[i][j] \in Range(list[i])
  BY DEF Range
<1>2. ready[i] \in Areas
  BY DEF Inv, TypeOK, Ready
<1> QED BY <1>1, <1>2, AreasApart DEF Inv, PoolsKept, ListHas

\* A held block is in the area of one partition only.
LEMMA OneOwner ==
  ASSUME Inv, NEW i \in ID, NEW j \in ID, i # j, Ready(i), Ready(j)
  PROVE  BlocksOf(ready[i]) \cap BlocksOf(ready[j]) = {}
<1>1. ready[i] \in Areas /\ ready[j] \in Areas /\ ready[i] # ready[j]
  BY DEF Inv, TypeOK, IdsOwned, Ready
<1> QED BY <1>1, AreasApart

\* The first half of a creation, which claims the identifier.
LEMMA KeptCreateClaim ==
  ASSUME Inv, NEW t \in Task, NEW a \in Areas, CreateClaim(t, a)
  PROVE  IdsOwned' /\ CallsValid' /\ HeldOwned' /\ PoolsKept'
<1> USE DEF Inv
<1>1. PICK i \in ID \ MemoryIDVessel :
        /\ MemoryIDVessel' = MemoryIDVessel \cup {i}
        /\ call' = [call EXCEPT ![t] = [fn |-> "create", id |-> i, area |-> a]]
        /\ clash' = IF \E u \in Task : call[u] = [fn |-> "wipe", id |-> i]
                    THEN clash \cup {i} ELSE clash \ {i}
  BY DEF CreateClaim
<1>2. /\ UNCHANGED <<MemoryTbl, nextBlock, held, ready, list>>
      /\ \A j \in ID : ready[j] # a
      /\ \A u \in Task : Doing(u, "create") => call[u].area # a
  BY DEF CreateClaim, Doing
<1>3. /\ call'[t] = [fn |-> "create", id |-> i, area |-> a]
      /\ \A u \in Task : u # t => call'[u] = call[u]
  BY <1>1, CallAfter
<1>4. ~Ready(i)
  BY <1>1 DEF IdsOwned
<1>5. IdsOwned' /\ HeldOwned'
  BY <1>1, <1>2 DEF IdsOwned, HeldOwned, Ready
<1>6. ASSUME NEW u \in Task PROVE CreateOwns(u)'
  <2>1. CASE u = t
    BY <1>1, <1>2, <1>3, <1>4, <2>1 DEF CallsValid, CreateOwns, Doing, Ready
  <2>2. CASE u # t
    BY <1>1, <1>2, <1>3, <2>2 DEF CallsValid, CreateOwns, Doing, Ready
  <2> QED BY <2>1, <2>2
<1>7. ASSUME NEW u \in Task PROVE CallValid(u)'
  <2>1. CASE u = t
    BY <1>3, <2>1 DEF CallValid, Doing
  <2>2. CASE u # t
    <3>1. Doing(u, "wipe") /\ call[u].id \in MemoryIDVessel' => call[u].id \in clash'
      <4> SUFFICES ASSUME Doing(u, "wipe"), call[u].id \in MemoryIDVessel'
                   PROVE  call[u].id \in clash'
        OBVIOUS
      <4>1. CASE call[u].id = i
        <5>1. call[u] \in Calls
          BY CallTypes
        <5>2. call[u] = [fn |-> "wipe", id |-> i]
          BY <4>1, <5>1 DEF Calls, Doing, NoCall
        <5> QED BY <1>1, <4>1, <5>2
      <4>2. CASE call[u].id # i
        BY <1>1, <4>2 DEF CallsValid, CallValid
      <4> QED BY <4>1, <4>2
    <3> QED BY <1>2, <1>3, <2>2, <3>1 DEF CallsValid, CallValid, Doing, Ready
  <2> QED BY <2>1, <2>2
<1>8. PoolsKept'
  <2> SUFFICES ASSUME NEW j \in ID, Ready(j)'
               PROVE  (/\ ListHas(j) /\ LinkedPart(j) /\ BoundsKept(j)
                       /\ j \notin clash => Linked(j))'
    BY DEF PoolsKept
  <2>1. Ready(j) /\ j # i
    BY <1>2, <1>4 DEF Ready
  <2>2. j \in clash <=> j \in clash'
    BY <1>1, <2>1
  <2> QED
    BY <1>2, <2>1, <2>2 DEF PoolsKept, ListHas, LinkedPart, BoundsKept, Linked, Held
<1> QED BY <1>5, <1>6, <1>7, <1>8 DEF CallsValid

\* The second half of a creation, which builds the list.
LEMMA KeptCreateInit ==
  ASSUME Inv, NEW t \in Task, CreateInit(t)
  PROVE  IdsOwned' /\ CallsValid' /\ HeldOwned' /\ PoolsKept'
<1> USE DEF Inv
<1>0. PICK i \in ID, a \in Areas : Doing(t, "create") /\ i = call[t].id /\ a = call[t].area
  BY CallTypes DEF CreateInit, Doing
<1>1. /\ Doing(t, "create")
      /\ i \in MemoryIDVessel /\ ~Ready(i)
      /\ \A j \in ID : ready[j] # a
  BY <1>0 DEF CallsValid, CreateOwns
<1>2. /\ \A b \in Block : nextBlock'[b] = IF b \in BlocksOf(a) THEN
                             IF b = a + BlockNum - 1 THEN NULL ELSE b + 1
                             ELSE nextBlock[b]
      /\ UNCHANGED <<MemoryIDVessel, held, clash>>
  BY <1>0 DEF CreateInit
<1>3. /\ ready'[i] = a /\ \A j \in ID : j # i => ready'[j] = ready[j]
      /\ list'[i] = [k \in 1 .. BlockNum |-> a + k - 1]
      /\ \A j \in ID : j # i => list'[j] = list[j]
      /\ MemoryTbl'[i] = [memAddr |-> a, freeBlock |-> a, blockNum |-> BlockNum]
      /\ \A j \in ID : j # i => MemoryTbl'[j] = MemoryTbl[j]
  BY <1>0 DEF CreateInit, TypeOK
<1>4. call'[t] = NoCall /\ \A u \in Task : u # t => call'[u] = call[u]
  BY CallAfter DEF CreateInit, Return
<1>5. a # NULL /\ a \in Nat /\ BlocksOf(a) \subseteq Block
  BY <1>1, AreasApart
<1>6. IdsOwned'
  BY <1>1, <1>2, <1>3 DEF IdsOwned, Ready
<1>7. HeldOwned'
  BY <1>1, <1>2, <1>3 DEF HeldOwned, Ready
<1>8. ASSUME NEW u \in Task PROVE CreateOwns(u)' /\ CallValid(u)'
  <2>1. CASE u = t
    BY <1>4, <2>1 DEF CreateOwns, CallValid, Doing, NoCall
  <2>2. CASE u # t
    <3>1. CreateOwns(u)'
      <4> SUFFICES ASSUME Doing(u, "create") PROVE CreateOwns(u)'
        BY <1>4, <2>2 DEF CreateOwns, Doing
      <4>1. CreateOwns(u) /\ call[u].id # i /\ call[u].area # a /\ call[u].id \in ID
        BY <1>0, <2>2, CallTypes DEF CallsValid, CreateOwns
      <4> QED BY <1>2, <1>3, <1>4, <2>2, <4>1 DEF CreateOwns, Doing, Ready, NoCall
    <3>2. CallValid(u)'
      BY <1>1, <1>2, <1>3, <1>4, <2>2, CallTypes DEF CallsValid, CallValid, Doing, Ready
    <3> QED BY <3>1, <3>2
  <2> QED BY <2>1, <2>2
<1>9. Held' = Held
  BY <1>2 DEF Held
<1>10. ASSUME NEW j \in ID, j # i, Ready(j)'
       PROVE  (/\ ListHas(j) /\ LinkedPart(j) /\ BoundsKept(j)
               /\ j \notin clash => Linked(j))'
  <2>1. Ready(j) /\ ready[j] \in Areas
    BY <1>3, <1>10 DEF Ready, TypeOK
  <2>2. \A k \in DOMAIN list[j] : nextBlock'[list[j][k]] = nextBlock[list[j][k]]
    BY <1>1, <1>2, <2>1, ListApart, AreasApart
  <2>3. ListHas(j) /\ LinkedPart(j) /\ BoundsKept(j) /\ (j \notin clash => Linked(j))
    BY <2>1 DEF PoolsKept
  <2>4. ListHas(j)' /\ BoundsKept(j)'
    BY <1>3, <1>9, <1>10, <2>3 DEF ListHas, BoundsKept
  <2>5. LinkedPart(j)' /\ (j \notin clash => Linked(j))'
    BY <1>2, <1>3, <1>10, <2>2, <2>3 DEF LinkedPart, Linked
  <2> QED BY <2>4, <2>5
<1>11. (/\ ListHas(i) /\ LinkedPart(i) /\ BoundsKept(i) /\ Linked(i))'
  <2> DEFINE s == [k \in 1 .. BlockNum |-> a + k - 1]
  <2>0. BlockNum \in Nat /\ BlockNum > 1
    BY MemPoolAssumption
  <2>1. /\ list'[i] = s /\ s \in Seq(Nat) /\ s # <<>>
        /\ Len(s) = BlockNum /\ DOMAIN s = 1 .. BlockNum
    BY <1>3, <1>5, <2>0
  <2>2. /\ s[1] = a
        /\ \A k \in DOMAIN s : s[k] = a + k - 1
        /\ \A k \in DOMAIN s : k # Len(s) => k < Len(s) /\ s[k + 1] = a + k
    BY <1>5, <2>0, <2>1
  <2> HIDE DEF s
  <2>3. Range(s) = BlocksOf(a)
    <3>1. ASSUME NEW b \in BlocksOf(a) PROVE b \in Range(s)
      <4>1. b - a + 1 \in DOMAIN s /\ s[b - a + 1] = b
        BY <1>5, <2>0, <2>1, <2>2, <3>1 DEF BlocksOf
      <4> QED BY <4>1 DEF Range
    <3>2. ASSUME NEW b \in Range(s) PROVE b \in BlocksOf(a)
      BY <1>5, <2>0, <2>1, <2>2, <3>2 DEF BlocksOf, Range
    <3> QED BY <3>1, <3>2
  <2>4. BlocksOf(a) \cap Held = {}
    <3> SUFFICES ASSUME NEW b \in BlocksOf(a), b \in Held PROVE FALSE
      OBVIOUS
    <3>1. PICK j \in ID : Ready(j) /\ b \in BlocksOf(ready[j])
      BY HeldHas DEF HeldOwned
    <3>2. ready[j] \in Areas /\ ready[j] # a
      BY <1>1, <3>1 DEF TypeOK, Ready
    <3> QED BY <1>1, <3>1, <3>2, AreasApart
  <2>5. ListHas(i)'
    <3>1. IsInjective(s)
      BY <1>5, <2>0, <2>1, <2>2 DEF IsInjective
    <3> QED BY <1>3, <1>9, <2>1, <2>3, <2>4, <3>1 DEF ListHas
  <2>6. \A k \in DOMAIN s : nextBlock'[s[k]] = IF k = Len(s) THEN NULL ELSE s[k + 1]
    <3> SUFFICES ASSUME NEW k \in DOMAIN s
                 PROVE  nextBlock'[s[k]] = IF k = Len(s) THEN NULL ELSE s[k + 1]
      OBVIOUS
    <3>1. s[k] \in BlocksOf(a) /\ s[k] = a + k - 1 /\ k \in Nat
      BY <1>5, <2>0, <2>1, <2>2 DEF BlocksOf
    <3>2. nextBlock'[s[k]] = IF s[k] = a + BlockNum - 1 THEN NULL ELSE s[k] + 1
      BY <1>2, <1>5, <3>1
    <3>3. CASE k = Len(s)
      BY <1>5, <2>0, <2>1, <3>1, <3>2, <3>3
    <3>4. CASE k # Len(s)
      BY <1>5, <2>0, <2>1, <2>2, <3>1, <3>2, <3>4
    <3> QED BY <3>3, <3>4
  <2>7. Linked(i)'
    BY <1>3, <2>1, <2>2, <2>6 DEF Linked
  <2>8. LinkedPart(i)'
    <3>1. MemoryTbl'[i].freeBlock = s[1]
      BY <1>3, <2>2
    <3>2. \A k \in DOMAIN s : nextBlock'[s[k]] # NULL =>
            k < Len(s) /\ nextBlock'[s[k]] = s[k + 1]
      BY <2>2, <2>6
    <3> QED BY <2>1, <3>1, <3>2 DEF LinkedPart
  <2> QED BY <1>3, <2>5, <2>7, <2>8 DEF BoundsKept
<1>12. PoolsKept'
  BY <1>10, <1>11 DEF PoolsKept
<1> QED BY <1>6, <1>7, <1>8, <1>12 DEF CallsValid

\* The first half of a deletion, which gives the identifier up.
LEMMA KeptDelRelease ==
  ASSUME Inv, Quiet, NEW t \in Task, NEW i \in ID, DelRelease(t, i)
  PROVE  IdsOwned' /\ CallsValid' /\ HeldOwned' /\ PoolsKept'
<1> USE DEF Inv
<1>1. /\ MemoryIDVessel' = MemoryIDVessel \ {i}
      /\ UNCHANGED <<MemoryTbl, nextBlock, held, list, clash>>
      /\ Ready(i) /\ ~Busy(i) /\ Held \cap BlocksOf(ready[i]) = {}
  BY DEF DelRelease, Ready
<1>2. ready'[i] = NULL /\ \A j \in ID : j # i => ready'[j] = ready[j]
  BY DEF DelRelease, TypeOK
<1>3. /\ call'[t] = [fn |-> "wipe", id |-> i]
      /\ \A u \in Task : u # t => call'[u] = call[u]
  BY CallAfter DEF DelRelease
<1>4. IdsOwned'
  BY <1>1, <1>2 DEF IdsOwned, Ready
<1>5. HeldOwned'
  BY <1>1, <1>2, HeldHas DEF HeldOwned, Ready
<1>6. ASSUME NEW u \in Task PROVE CreateOwns(u)' /\ CallValid(u)'
  <2>1. CASE u = t
    BY <1>1, <1>3, <2>1 DEF CreateOwns, CallValid, Doing
  <2>2. CASE u # t
    <3>1. CreateOwns(u)'
      <4> SUFFICES ASSUME Doing(u, "create") PROVE CreateOwns(u)'
        BY <1>3, <2>2 DEF CreateOwns, Doing
      <4>1. CreateOwns(u) /\ call[u].id # i /\ call[u].id \in ID /\ call[u].area # NULL
        BY <1>1, CallTypes, AreasApart DEF CallsValid, CreateOwns
      <4> QED BY <1>1, <1>2, <1>3, <2>2, <4>1 DEF CreateOwns, Doing, Ready
    <3>2. (Doing(u, "get") \/ Doing(u, "free")) => call[u].id # i /\ call[u].id \in ID
      BY <1>1, CallTypes DEF Busy, Doing
    <3>3. CallValid(u)'
      BY <1>1, <1>2, <1>3, <2>2, <3>2 DEF CallsValid, CallValid, Doing, Ready
    <3> QED BY <3>1, <3>3
  <2> QED BY <2>1, <2>2
<1>7. PoolsKept'
  <2> SUFFICES ASSUME NEW j \in ID, Ready(j)'
               PROVE  (/\ ListHas(j) /\ LinkedPart(j) /\ BoundsKept(j)
                       /\ j \notin clash => Linked(j))'
    BY DEF PoolsKept
  <2>1. Ready(j) /\ ready'[j] = ready[j]
    BY <1>2 DEF Ready
  <2> QED BY <1>1, <2>1 DEF PoolsKept, ListHas, LinkedPart, BoundsKept, Linked, Held
<1> QED BY <1>4, <1>5, <1>6, <1>7 DEF CallsValid

\* The second half of a deletion, which wipes the control block.
LEMMA KeptDelWipe ==
  ASSUME Inv, NEW t \in Task, DelWipe(t)
  PROVE  IdsOwned' /\ CallsValid' /\ HeldOwned' /\ PoolsKept'
<1> USE DEF Inv
<1>0. PICK i \in ID : Doing(t, "wipe") /\ i = call[t].id
  BY CallTypes DEF DelWipe, Doing
<1>1. /\ UNCHANGED <<MemoryIDVessel, nextBlock, held, ready, list, clash>>
      /\ MemoryTbl'[i] = NoMM
      /\ \A j \in ID : j # i => MemoryTbl'[j] = MemoryTbl[j]
  BY <1>0 DEF DelWipe, TypeOK
<1>2. call'[t] = NoCall /\ \A u \in Task : u # t => call'[u] = call[u]
  BY CallAfter DEF DelWipe, Return
<1>3. IdsOwned' /\ HeldOwned'
  BY <1>1 DEF IdsOwned, HeldOwned, Ready
<1>4. ASSUME NEW u \in Task PROVE CreateOwns(u)' /\ CallValid(u)'
  <2>1. CASE u = t
    BY <1>2, <2>1 DEF CreateOwns, CallValid, Doing, NoCall
  <2>2. CASE u # t
    BY <1>1, <1>2, <2>2 DEF CallsValid, CreateOwns, CallValid, Doing, Ready, NoCall
  <2> QED BY <2>1, <2>2
<1>5. PoolsKept'
  <2> SUFFICES ASSUME NEW j \in ID, Ready(j)'
               PROVE  (/\ ListHas(j) /\ LinkedPart(j) /\ BoundsKept(j)
                       /\ j \notin clash => Linked(j))'
    BY DEF PoolsKept
  <2>1. Ready(j)
    BY <1>1 DEF Ready
  <2>2. CASE j = i
    <3>1. j \in clash
      BY <1>0, <2>1, <2>2 DEF IdsOwned, CallsValid, CallValid
    <3> QED BY <1>1, <2>1, <2>2, <3>1
            DEF PoolsKept, ListHas, LinkedPart, BoundsKept, Held, NoMM
  <2>3. CASE j # i
    BY <1>1, <2>1, <2>3 DEF PoolsKept, ListHas, LinkedPart, BoundsKept, Linked, Held
  <2> QED BY <2>2, <2>3
<1> QED BY <1>3, <1>4, <1>5 DEF CallsValid

\* The tests of CoGetMemoryBuffer and of CoFreeMemoryBuffer.  A block that
\* passes them is one of the partition's: the block after its end passes as
\* well, but is nobody's.
LEMMA KeptTests ==
  ASSUME Inv, NEW t \in Task, NEW i \in ID,
         GetTest(t, i) \/ \E b \in held[t] : FreeTest(t, i, b)
  PROVE  IdsOwned' /\ CallsValid' /\ HeldOwned' /\ PoolsKept'
<1> USE DEF Inv
<1>1. UNCHANGED <<MemoryIDVessel, MemoryTbl, nextBlock, held, ready, list, clash>> /\ Ready(i)
  BY DEF GetTest, FreeTest, Ready
<1>2. IdsOwned' /\ HeldOwned' /\ PoolsKept'
  BY <1>1 DEF IdsOwned, HeldOwned, Ready, PoolsKept, ListHas, LinkedPart, BoundsKept, Linked, Held
<1>3. PICK r : /\ call' = [call EXCEPT ![t] = r]
               /\ \/ r = [fn |-> "get", id |-> i]
                  \/ \E b \in held[t] \cap BlocksOf(ready[i]) :
                       r = [fn |-> "free", id |-> i, buf |-> b]
  <2>1. CASE GetTest(t, i)
    BY <2>1 DEF GetTest
  <2>2. ASSUME NEW b \in held[t], FreeTest(t, i, b)
        PROVE  b \in BlocksOf(ready[i])
    <3>1. b \in Block /\ ready[i] \in Areas
      BY <1>1 DEF TypeOK, Ready
    <3>2. b >= MemoryTbl[i].memAddr /\ b <= MemoryTbl[i].memAddr + MemoryTbl[i].blockNum
      BY <2>2 DEF FreeTest, InPartition
    <3>3. b >= ready[i] /\ b <= ready[i] + BlockNum
      BY <1>1, <3>1, <3>2, BlockNat DEF PoolsKept, BoundsKept, NULL
    <3>4. b # ready[i] + BlockNum /\ ready[i] \in Nat
      BY <3>1, AreasApart
    <3> QED BY <3>1, <3>3, <3>4, BlockNat, MemPoolAssumption DEF BlocksOf
  <2> QED BY <2>1, <2>2 DEF FreeTest
<1>4. call'[t] = r /\ \A u \in Task : u # t => call'[u] = call[u]
  BY <1>3, CallAfter
<1>5. ASSUME NEW u \in Task PROVE CreateOwns(u)' /\ CallValid(u)'
  <2>1. CASE u = t
    BY <1>1, <1>3, <1>4, <2>1 DEF CreateOwns, CallValid, Doing, Ready
  <2>2. CASE u # t
    BY <1>1, <1>3, <1>4, <2>2 DEF CallsValid, CreateOwns, CallValid, Doing, Ready
  <2> QED BY <2>1, <2>2
<1> QED BY <1>2, <1>5 DEF CallsValid

\* A call that is over leaves the calls of the others valid when it changes
\* nothing but its own blocks.
LEMMA KeptReturn ==
  ASSUME Inv, NEW t \in Task, Return(t), UNCHANGED <<MemoryIDVessel, ready, clash>>,
         \A u \in Task : u # t => held'[u] = held[u]
  PROVE  IdsOwned' /\ CallsValid'
<1>1. call'[t] = NoCall /\ \A u \in Task : u # t => call'[u] = call[u]
  BY CallAfter DEF Return, Inv
<1>2. ASSUME NEW u \in Task PROVE CreateOwns(u)' /\ CallValid(u)'
  <2>1. CASE u = t
    BY <1>1, <2>1 DEF CreateOwns, CallValid, Doing, NoCall
  <2>2. CASE u # t
    BY <1>1, <2>2 DEF Inv, CallsValid, CreateOwns, CallValid, Doing, Ready, NoCall
  <2> QED BY <2>1, <2>2
<1> QED BY <1>2 DEF Inv, CallsValid, IdsOwned, Ready

\* The locked region of CoGetMemoryBuffer: the first free block is nobody's,
\* and its link leads to the rest of the list.
LEMMA KeptGetLocked ==
  ASSUME Inv, NEW t \in Task, GetLocked(t)
  PROVE  IdsOwned' /\ CallsValid' /\ HeldOwned' /\ PoolsKept'
<1> USE DEF Inv
<1>0. PICK i \in ID : Doing(t, "get") /\ i = call[t].id /\ Ready(i)
  BY CallTypes DEF GetLocked, Doing, CallsValid, CallValid
<1>1. UNCHANGED <<MemoryIDVessel, nextBlock, ready, clash>> /\ Return(t)
  BY DEF GetLocked
<1>2. CASE MemoryTbl[i].freeBlock = NULL
  <2>1. UNCHANGED <<MemoryTbl, held, list>>
    BY <1>0, <1>2 DEF GetLocked
  <2>2. HeldOwned' /\ PoolsKept'
    BY <1>1, <2>1 DEF HeldOwned, Ready, PoolsKept, ListHas, LinkedPart, BoundsKept, Linked, Held
  <2> QED BY <1>1, <2>1, <2>2, KeptReturn
<1>3. CASE MemoryTbl[i].freeBlock # NULL
  <2>0. PICK b : b = MemoryTbl[i].freeBlock
    OBVIOUS
  <2>1. /\ MemoryTbl' = [MemoryTbl EXCEPT ![i].freeBlock = nextBlock[b]]
        /\ held' = [held EXCEPT ![t] = @ \cup {b}]
        /\ list' = [list EXCEPT ![i] = Tail(@)]
    BY <1>0, <1>3, <2>0 DEF GetLocked
  <2>2. /\ MemoryTbl'[i].freeBlock = nextBlock[b]
        /\ MemoryTbl'[i].memAddr = MemoryTbl[i].memAddr
        /\ MemoryTbl'[i].blockNum = MemoryTbl[i].blockNum
        /\ \A j \in ID : j # i => MemoryTbl'[j] = MemoryTbl[j]
    BY <2>1 DEF TypeOK
  <2>3. /\ held'[t] = held[t] \cup {b} /\ \A u \in Task : u # t => held'[u] = held[u]
        /\ list'[i] = Tail(list[i]) /\ \A j \in ID : j # i => list'[j] = list[j]
    BY <2>1 DEF TypeOK
  <2>4. list[i] \in Seq(Block) /\ list[i] # <<>> /\ b = list[i][1] /\ 1 \in DOMAIN list[i]
    BY <1>0, <1>3, <2>0, TailOf DEF TypeOK, PoolsKept, LinkedPart
  <2>5. b \in BlocksOf(ready[i]) /\ b \notin Held
    BY <1>0, <2>4, ListApart
  <2>6. \A x : x \in Held' <=> (x \in Held \/ x = b)
    BY <2>3 DEF Held
  <2>7. HeldOwned'
    BY <1>0, <1>1, <2>3, <2>5, HeldHas DEF HeldOwned, Ready
  <2>8. ASSUME NEW j \in ID, j # i, Ready(j)
        PROVE  (/\ ListHas(j) /\ LinkedPart(j) /\ BoundsKept(j)
                /\ j \notin clash => Linked(j))'
    <3>1. b \notin BlocksOf(ready[j])
      BY <1>0, <2>5, <2>8, OneOwner
    <3>2. BlocksOf(ready[j]) \ Held' = BlocksOf(ready[j]) \ Held
      BY <2>6, <3>1
    <3>3. ListHas(j) /\ LinkedPart(j) /\ BoundsKept(j) /\ (j \notin clash => Linked(j))
      BY <2>8 DEF PoolsKept
    <3>4. ListHas(j)' /\ BoundsKept(j)'
      BY <1>1, <2>2, <2>3, <2>8, <3>2, <3>3 DEF ListHas, BoundsKept
    <3>5. LinkedPart(j)' /\ (j \notin clash => Linked(j))'
      BY <1>1, <2>2, <2>3, <2>8, <3>3 DEF LinkedPart, Linked
    <3> QED BY <3>4, <3>5
  <2>9. (/\ ListHas(i) /\ LinkedPart(i) /\ BoundsKept(i)
         /\ i \notin clash => Linked(i))'
    <3>1. ListHas(i) /\ LinkedPart(i) /\ BoundsKept(i) /\ (i \notin clash => Linked(i))
      BY <1>0 DEF PoolsKept
    <3>2. /\ IsInjective(Tail(list[i]))
          /\ Range(Tail(list[i])) = Range(list[i]) \ {b}
      BY <2>4, <3>1, TailRange DEF ListHas
    <3>3. BlocksOf(ready[i]) \ Held' = (BlocksOf(ready[i]) \ Held) \ {b}
      BY <2>6
    <3>4. ListHas(i)' /\ BoundsKept(i)'
      BY <1>1, <2>2, <2>3, <3>1, <3>2, <3>3 DEF ListHas, BoundsKept
    <3> DEFINE s == list[i]
               r == Tail(list[i])
    <3>5. /\ Len(s) \in Nat /\ Len(r) = Len(s) - 1 /\ Len(s) > 0
          /\ \A k \in DOMAIN r : k \in Nat /\ k + 1 \in DOMAIN s /\ r[k] = s[k + 1]
          /\ DOMAIN r = 1 .. Len(s) - 1 /\ (r = <<>> <=> Len(s) = 1)
      <4>1. /\ r \in Seq(Block) /\ Len(s) \in Nat /\ Len(r) = Len(s) - 1 /\ Len(s) > 0
            /\ \A k \in DOMAIN r : k \in Nat /\ k + 1 \in DOMAIN s /\ r[k] = s[k + 1]
        BY <2>4, TailOf
      <4> HIDE DEF s, r
      <4>2. DOMAIN r = 1 .. Len(r) /\ (r = <<>> <=> Len(r) = 0)
        BY <4>1
      <4> QED BY <4>1, <4>2
    <3> HIDE DEF s, r
    <3>6. LinkedPart(i)'
      <4>1. nextBlock[b] # NULL => 1 < Len(s) /\ nextBlock[b] = s[2]
        BY <2>4, <3>1 DEF LinkedPart, s
      <4>2. nextBlock[b] # NULL => r # <<>> /\ nextBlock[b] = r[1]
        BY <3>5, <4>1
      <4>3. \A k \in DOMAIN r : nextBlock[r[k]] # NULL =>
              k < Len(r) /\ nextBlock[r[k]] = r[k + 1]
        <5> SUFFICES ASSUME NEW k \in DOMAIN r, nextBlock[r[k]] # NULL
                     PROVE  k < Len(r) /\ nextBlock[r[k]] = r[k + 1]
          OBVIOUS
        <5>1. k + 1 < Len(s) /\ nextBlock[r[k]] = s[k + 2] /\ k \in Nat
          BY <3>1, <3>5 DEF LinkedPart, s
        <5> QED BY <3>5, <5>1
      <4> QED BY <1>1, <2>2, <2>3, <4>2, <4>3 DEF LinkedPart, r
    <3>7. (i \notin clash => Linked(i))'
      <4> SUFFICES ASSUME i \notin clash PROVE Linked(i)'
        BY <1>1
      <4>1. \A k \in DOMAIN s : nextBlock[s[k]] = IF k = Len(s) THEN NULL ELSE s[k + 1]
        BY <3>1 DEF Linked, s
      <4>2. nextBlock[b] = IF r = <<>> THEN NULL ELSE r[1]
        <5>1. b = s[1] /\ 1 \in DOMAIN s
          BY <2>4 DEF s
        <5>2. r # <<>> => r[1] = s[2]
          BY <3>5
        <5> QED BY <3>5, <4>1, <5>1, <5>2
      <4>3. \A k \in DOMAIN r : nextBlock[r[k]] = IF k = Len(r) THEN NULL ELSE r[k + 1]
        <5> SUFFICES ASSUME NEW k \in DOMAIN r
                     PROVE  nextBlock[r[k]] = IF k = Len(r) THEN NULL ELSE r[k + 1]
          OBVIOUS
        <5>1. nextBlock[r[k]] = IF k + 1 = Len(s) THEN NULL ELSE s[k + 2]
          BY <3>5, <4>1
        <5> QED BY <3>5, <5>1
      <4> QED BY <1>1, <2>2, <2>3, <4>2, <4>3 DEF Linked, r
    <3> QED BY <3>4, <3>6, <3>7
  <2>10. PoolsKept'
    BY <1>1, <2>8, <2>9 DEF PoolsKept, Ready
  <2> QED BY <1>1, <2>3, <2>7, <2>10, KeptReturn
<1> QED BY <1>2, <1>3

\* The locked region of CoFreeMemoryBuffer: the block comes in front of a list
\* that did not have it.
LEMMA KeptFreeLocked ==
  ASSUME Inv, NEW t \in Task, FreeLocked(t)
  PROVE  IdsOwned' /\ CallsValid' /\ HeldOwned' /\ PoolsKept'
<1> USE DEF Inv
<1>0. PICK i \in ID, b \in Block :
        /\ Doing(t, "free") /\ i = call[t].id /\ b = call[t].buf
        /\ Ready(i) /\ b \in held[t] /\ b \in BlocksOf(ready[i])
  BY CallTypes DEF FreeLocked, Doing, CallsValid, CallValid
<1>1. /\ UNCHANGED <<MemoryIDVessel, ready, clash>> /\ Return(t)
      /\ nextBlock' = [nextBlock EXCEPT ![b] = MemoryTbl[i].freeBlock]
      /\ MemoryTbl' = [MemoryTbl EXCEPT ![i].freeBlock = b]
      /\ held' = [held EXCEPT ![t] = @ \ {b}]
      /\ list' = [list EXCEPT ![i] = <<b>> \o @]
  BY <1>0 DEF FreeLocked
<1>2. /\ MemoryTbl'[i].freeBlock = b
      /\ MemoryTbl'[i].memAddr = MemoryTbl[i].memAddr
      /\ MemoryTbl'[i].blockNum = MemoryTbl[i].blockNum
      /\ \A j \in ID : j # i => MemoryTbl'[j] = MemoryTbl[j]
  BY <1>1 DEF TypeOK
<1>3. /\ held'[t] = held[t] \ {b} /\ \A u \in Task : u # t => held'[u] = held[u]
      /\ list'[i] = <<b>> \o list[i] /\ \A j \in ID : j # i => list'[j] = list[j]
      /\ nextBlock'[b] = MemoryTbl[i].freeBlock
      /\ \A x \in Block : x # b => nextBlock'[x] = nextBlock[x]
  BY <1>1 DEF TypeOK
<1>4. b \in Held /\ \A x : x \in Held' <=> (x \in Held /\ x # b)
  <2>1. \A u \in Task : b \in held[u] => u = t
    BY <1>0 DEF HeldOwned
  <2> QED BY <1>0, <1>3, <2>1 DEF Held
<1>5. HeldOwned'
  BY <1>1, <1>3 DEF HeldOwned, Ready
<1>6. ASSUME NEW j \in ID, Ready(j)
      PROVE  \A k \in DOMAIN list[j] : /\ list[j][k] # b
                                       /\ nextBlock'[list[j][k]] = nextBlock[list[j][k]]
  BY <1>3, <1>4, <1>6, ListApart
<1>7. ASSUME NEW j \in ID, j # i, Ready(j)
      PROVE  (/\ ListHas(j) /\ LinkedPart(j) /\ BoundsKept(j)
              /\ j \notin clash => Linked(j))'
  <2>1. b \notin BlocksOf(ready[j])
    BY <1>0, <1>7, OneOwner
  <2>2. BlocksOf(ready[j]) \ Held' = BlocksOf(ready[j]) \ Held
    BY <1>4, <2>1
  <2>3. ListHas(j) /\ LinkedPart(j) /\ BoundsKept(j) /\ (j \notin clash => Linked(j))
    BY <1>7 DEF PoolsKept
  <2>4. ListHas(j)' /\ BoundsKept(j)'
    BY <1>1, <1>2, <1>3, <1>7, <2>2, <2>3 DEF ListHas, BoundsKept
  <2>5. LinkedPart(j)' /\ (j \notin clash => Linked(j))'
    BY <1>1, <1>2, <1>3, <1>6, <1>7, <2>3 DEF LinkedPart, Linked
  <2> QED BY <2>4, <2>5
<1>8. (/\ ListHas(i) /\ LinkedPart(i) /\ BoundsKept(i)
       /\ i \notin clash => Linked(i))'
  <2>1. ListHas(i) /\ LinkedPart(i) /\ BoundsKept(i) /\ (i \notin clash => Linked(i))
    BY <1>0 DEF PoolsKept
  <2>2. list[i] \in Seq(Block) /\ b \notin Range(list[i])
    BY <1>4, <2>1 DEF TypeOK, ListHas
  <2>3. /\ IsInjective(<<b>> \o list[i])
        /\ Range(<<b>> \o list[i]) = Range(list[i]) \cup {b}
    BY <2>1, <2>2, ConsRange DEF ListHas
  <2>4. BlocksOf(ready[i]) \ Held' = (BlocksOf(ready[i]) \ Held) \cup {b}
    BY <1>0, <1>4
  <2>5. ListHas(i)' /\ BoundsKept(i)'
    BY <1>1, <1>2, <1>3, <2>1, <2>3, <2>4 DEF ListHas, BoundsKept
  <2> DEFINE s == list[i]
             r == <<b>> \o list[i]
  <2>6. /\ Len(s) \in Nat /\ Len(r) = Len(s) + 1 /\ r[1] = b /\ r # <<>>
        /\ \A k \in DOMAIN r : k = 1 \/ (k - 1 \in DOMAIN s /\ r[k] = s[k - 1])
        /\ \A k \in DOMAIN s : k + 1 \in DOMAIN r /\ r[k + 1] = s[k]
    BY <2>2, ConsOf
  <2>7. /\ DOMAIN s = 1 .. Len(s) /\ DOMAIN r = 1 .. Len(s) + 1
        /\ s = <<>> <=> Len(s) = 0
    <3>1. s \in Seq(Block) /\ r \in Seq(Block) /\ Len(r) = Len(s) + 1
      BY <2>2, <2>6
    <3> HIDE DEF s, r
    <3> QED BY <3>1
  <2> HIDE DEF s, r
  <2>8. LinkedPart(i)'
    <3>1. \A k \in DOMAIN r : nextBlock'[r[k]] # NULL =>
            k < Len(r) /\ nextBlock'[r[k]] = r[k + 1]
      <4> SUFFICES ASSUME NEW k \in DOMAIN r, nextBlock'[r[k]] # NULL
                   PROVE  k < Len(r) /\ nextBlock'[r[k]] = r[k + 1]
        OBVIOUS
      <4>1. CASE k = 1
        <5>1. s # <<>> /\ nextBlock'[b] = s[1]
          BY <1>3, <2>1, <2>6, <4>1 DEF LinkedPart, s
        <5> QED BY <2>6, <2>7, <4>1, <5>1
      <4>2. CASE k # 1
        <5>1. k - 1 \in DOMAIN s /\ r[k] = s[k - 1]
          BY <2>6, <4>2
        <5>2. k - 1 < Len(s) /\ nextBlock'[r[k]] = s[k]
          BY <1>0, <1>6, <2>1, <2>7, <5>1 DEF LinkedPart, s
        <5> QED BY <2>6, <2>7, <5>1, <5>2
      <4> QED BY <4>1, <4>2
    <3> QED BY <1>2, <1>3, <2>6, <3>1 DEF LinkedPart, r
  <2>9. (i \notin clash => Linked(i))'
    <3> SUFFICES ASSUME i \notin clash PROVE Linked(i)'
      BY <1>1
    <3>1. /\ MemoryTbl[i].freeBlock = IF s = <<>> THEN NULL ELSE s[1]
          /\ \A k \in DOMAIN s : nextBlock[s[k]] = IF k = Len(s) THEN NULL ELSE s[k + 1]
      BY <2>1 DEF Linked, s
    <3>2. \A k \in DOMAIN r : nextBlock'[r[k]] = IF k = Len(r) THEN NULL ELSE r[k + 1]
      <4> SUFFICES ASSUME NEW k \in DOMAIN r
                   PROVE  nextBlock'[r[k]] = IF k = Len(r) THEN NULL ELSE r[k + 1]
        OBVIOUS
      <4>1. CASE k = 1
        BY <1>3, <2>6, <2>7, <3>1, <4>1
      <4>2. CASE k # 1
        <5>1. k - 1 \in DOMAIN s /\ r[k] = s[k - 1] /\ k \in Nat
          BY <2>6, <2>7, <4>2
        <5>2. nextBlock'[r[k]] = IF k - 1 = Len(s) THEN NULL ELSE s[k]
          <6>1. nextBlock'[s[k - 1]] = nextBlock[s[k - 1]]
            BY <1>0, <1>6, <5>1 DEF s
          <6>2. k - 1 + 1 = k
            BY <5>1
          <6> QED BY <3>1, <5>1, <6>1, <6>2
        <5> QED BY <2>6, <2>7, <5>1, <5>2
      <4> QED BY <4>1, <4>2
    <3> QED BY <1>2, <1>3, <2>6, <3>2 DEF Linked, r
  <2> QED BY <2>5, <2>8, <2>9
<1>9. PoolsKept'
  BY <1>1, <1>7, <1>8 DEF PoolsKept, Ready
<1> QED BY <1>1, <1>3, <1>5, <1>9, KeptReturn

(***************************************************************************)
(* Part 5.  The theorems.                                                  *)
(***************************************************************************)
\* The invariant holds before the first partition is created.
LEMMA InvInit == Init => Inv
<1> SUFFICES ASSUME Init PROVE Inv
  OBVIOUS
<1>1. TypeOK
  BY MemPoolAssumption DEF Init, TypeOK, Calls, NoMM
<1>2. \A i \in ID : ~Ready(i)
  BY DEF Init, Ready
<1>3. \A t \in Task : call[t].fn = "none" /\ held[t] = {}
  BY DEF Init, NoCall
<1> QED BY <1>1, <1>2, <1>3
     DEF Inv, IdsOwned, CallsValid, CreateOwns, CallValid, Doing, HeldOwned, PoolsKept

\* Every step keeps the invariant, as long as nobody is inside of a call on a
\* partition that is deleted.
LEMMA InvNext == Quiet /\ Inv /\ [Next]_vars => Inv'
<1> SUFFICES ASSUME Quiet, Inv, [Next]_vars PROVE Inv'
  OBVIOUS
<1>1. TypeOK'
  BY TypesKept
<1>2. CASE UNCHANGED vars
  BY <1>1, <1>2 DEF vars, Inv, IdsOwned, CallsValid, CreateOwns, CallValid, Doing, HeldOwned,
     PoolsKept, Ready, ListHas, LinkedPart, BoundsKept, Linked, Held
<1>3. CASE Next
  BY <1>1, <1>2, <1>3, KeptCreateClaim, KeptCreateInit, KeptDelRelease, KeptDelWipe, KeptTests,
     KeptGetLocked, KeptFreeLocked DEF Next, CreateFail, Inv
<1> QED BY <1>2, <1>3

\* Inv is an invariant of the memory partitions.
THEOREM Invariance == Quiet => (Spec => []Inv)
<1> SUFFICES ASSUME Quiet PROVE Spec => []Inv
  OBVIOUS
<1>1. Inv /\ [Next]_vars => Inv'
  BY InvNext
<1> QED BY <1>1, InvInit, PTL DEF Spec

\* A block that CoGetMemoryBuffer has given to a task is in no other task's
\* hands and in no list, for any number of tasks and partitions, also where
\* an identifier was claimed during its deletion.
THEOREM BlocksHeldOnce == Quiet => (Spec => []HeldOnce)
<1>1. Inv => HeldOnce
  BY DEF Inv, HeldOwned, PoolsKept, ListHas, HeldOnce, Ready
<1> QED BY <1>1, Invariance, PTL

\* The links through the blocks of a partition lead through exactly its free
\* blocks: CoGetMemoryBuffer and CoFreeMemoryBuffer lose no block and take in
\* none of another partition.
THEOREM PoolsExact == Quiet => (Spec => []PoolExact)
<1>1. Inv => PoolExact
  BY DEF Inv, PoolsKept, ListHas, PoolExact, Ready
<1> QED BY <1>1, Invariance, PTL
=============================================================================
