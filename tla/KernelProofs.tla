---------------------------- MODULE KernelProofs ----------------------------
(***************************************************************************)
(* Lemmas about the kernel operators, for any tasks, events, mutexes and   *)
(* flags: what FlagSyncProofs and TaskSchedProofs rest on.                 *)
(***************************************************************************)
EXTENDS TaskSched, WellFoundedInduction, SequenceTheorems, FiniteSetTheorems, TLAPS

(***************************************************************************)
(* Part 1.  Loops and lists.                                               *)
(***************************************************************************)

\* A set of numbers that is not empty has a least element.
LEMMA Least ==
    ASSUME NEW S \in SUBSET Nat, S # {}
    PROVE  \E i \in S : \A j \in S : i <= j
<1>1. PICK i \in S : \A j \in S : <<j, i>> \notin OpToRel(<, Nat)
  BY WFMin, NatLessThanWellFounded
<1>2. \A j \in S : ~(j < i)
  BY <1>1 DEF OpToRel
<1> QED BY <1>2

\* What holds before a loop and is kept by every round holds after it.
LEMMA Rounds ==
    ASSUME NEW n \in Nat, NEW I, 0 \in I, \A i \in 0 .. n - 1 : i \in I => i + 1 \in I
    PROVE  n \in I
<1> DEFINE J == {i \in 0 .. n : i \notin I}
<1>1. SUFFICES ASSUME J # {} PROVE FALSE
  OBVIOUS
<1>2. PICK i \in J : \A j \in J : i <= j
  <2>1. J \in SUBSET Nat
    OBVIOUS
  <2> HIDE DEF J
  <2> QED BY <1>1, <2>1, Least
<1>3. i # 0 /\ i - 1 \in 0 .. n - 1 /\ i - 1 \in I
  BY <1>2
<1> QED BY <1>2, <1>3

\* What is inserted into a list.
LEMMA InsertSeq ==
    ASSUME NEW S, NEW s \in Seq(S), NEW e \in S, NEW i \in 1 .. Len(s) + 1
    PROVE  InsertAt(s, i, e) \in Seq(S)
<1>1. SubSeq(s, 1, i - 1) \in Seq(S) /\ SubSeq(s, i, Len(s)) \in Seq(S)
  BY SubSeqProperties, ElementOfSeq
<1>2. <<e>> \in Seq(S)
  OBVIOUS
<1>3. SubSeq(s, 1, i - 1) \o <<e>> \in Seq(S)
  BY <1>1, <1>2, ConcatProperties
<1> QED BY <1>1, <1>3, ConcatProperties DEF InsertAt

\* The place that the search for the first element of a kind finds.
LEMMA FirstPlace ==
    ASSUME NEW S, NEW s \in Seq(S), NEW later \in SUBSET DOMAIN s
    PROVE  (IF later = {} THEN Len(s) + 1 ELSE CHOOSE i \in later : \A j \in later : i <= j)
             \in 1 .. Len(s) + 1
<1>1. DOMAIN s = 1 .. Len(s) /\ Len(s) \in Nat
  BY LenProperties
<1>2. CASE later # {}
  <2>1. \E i \in later : \A j \in later : i <= j
    BY <1>1, <1>2, Least
  <2> QED BY <1>1, <1>2, <2>1
<1> QED BY <1>1, <1>2

LEMMA RemoveAtSeq ==
    ASSUME NEW S, NEW s \in Seq(S), NEW i \in 1 .. Len(s)
    PROVE  RemoveAt(s, i) \in Seq(S)
<1>1. SubSeq(s, 1, i - 1) \in Seq(S) /\ SubSeq(s, i + 1, Len(s)) \in Seq(S)
  BY SubSeqProperties, ElementOfSeq, LenProperties
<1> QED BY <1>1, ConcatProperties DEF RemoveAt

\* What is unlinked from a list.
LEMMA RemoveSeq ==
    ASSUME NEW S, NEW s \in Seq(S), NEW e
    PROVE  Unlinked(s, e) \in Seq(S)
<1>1. PlaceOf(s, e) \in {0} \cup 1 .. Len(s)
  BY LenProperties DEF PlaceOf
<1> QED BY <1>1, RemoveAtSeq DEF Unlinked

(***************************************************************************)
(* Part 2.  The types of a kernel state.                                   *)
(***************************************************************************)
Fields == {"st", "prio", "tick", "ev", "rdy", "dly", "free", "wait", "run", "req", "timeReq",
           "slice", "lock", "pmail", "mid", "mx", "mnum", "mstale", "inside", "base", "flg",
           "pset", "due", "ecb", "in", "out", "srq", "stale", "intact"}
Alive == {"READY", "RUNNING", "WAITING"}
NodeType == [task : Task, flags : SUBSET Flag, all : BOOLEAN]
MutexType == [own : Task \cup {InvalidId}, orig : Nat, hipri : Task \cup {InvalidId},
              list : Seq(Task)]
Request == [flag : Flag] \cup [ev : Event, mail : Nat]

KType(x) ==
  /\ DOMAIN x = Fields
  /\ x.st \in [Task -> Alive \cup {"DORMANT"}]
  /\ x.prio \in [Task -> Nat]
  /\ x.rdy \in Seq(Task) /\ x.dly \in Seq(Task) /\ x.free \in Seq(Task)
  /\ x.ev \in [Task -> Event \cup {InvalidId}] /\ x.wait \in [Event -> Seq(Task)]
  /\ x.run \in Task
  /\ x.mid \in [Task -> Mutex \cup {InvalidId}] /\ x.mx \in [Mutex -> MutexType]
  /\ x.flg \in [rdy : SUBSET Flag, act : SUBSET Flag, list : Seq(NodeType)]
  /\ x.srq \in Seq(Request)

\* A list function keeps the types, and leaves the flags, the lock and the
\* running task alone.
Kept(x, y) ==
  /\ KType(y)
  /\ y.run = x.run /\ y.lock = x.lock
  /\ y.flg.rdy = x.flg.rdy /\ y.due = x.due

LEMMA InsertRdyKept ==
    ASSUME NEW x, KType(x), NEW t \in Task
    PROVE  /\ Kept(x, InsertToTCBRdyList(x, t))
           /\ InsertToTCBRdyList(x, t).flg = x.flg
           /\ InsertToTCBRdyList(x, t).dly = x.dly
           /\ InsertToTCBRdyList(x, t).wait = x.wait
<1> DEFINE lower == {i \in DOMAIN x.rdy : x.prio[t] < x.prio[x.rdy[i]]}
           pos == RdyPos(x, x.prio[t])
<1>1. pos \in 1 .. Len(x.rdy) + 1
  BY FirstPlace DEF KType, RdyPos
<1>2. InsertAt(x.rdy, pos, t) \in Seq(Task)
  BY <1>1, InsertSeq DEF KType
<1> HIDE DEF pos
<1> DEFINE list == InsertAt(x.rdy, pos, t)
           slice == IF x.prio[t] = x.prio[x.run] /\ t # x.run /\ x.slice < 0 THEN TimeSlice ELSE x.slice
           req == x.req \/ pos = 1
           intact == x.intact /\ t \notin Linked(x)
<1>3. InsertToTCBRdyList(x, t) = [x EXCEPT !.st[t] = "READY", !.rdy = list, !.req = req,
                                           !.slice = slice, !.intact = intact]
  BY DEF InsertToTCBRdyList, pos
<1> HIDE DEF list, slice, req, intact
<1> QED BY <1>2, <1>3 DEF list, Kept, KType, Fields, Alive

LEMMA RemoveRdyKept ==
    ASSUME NEW x, KType(x), NEW t
    PROVE  /\ Kept(x, RemoveFromTCBRdyList(x, t))
           /\ RemoveFromTCBRdyList(x, t).dly = x.dly
<1>1. Unlinked(x.rdy, t) \in Seq(Task)
  BY RemoveSeq DEF KType
<1> QED BY <1>1 DEF RemoveFromTCBRdyList, Kept, KType, Fields

LEMMA InsertDelayKept ==
    ASSUME NEW x, KType(x), NEW t \in Task, NEW n
    PROVE  Kept(x, InsertDelayList(x, t, n))
<1>0. CASE n = 0
  BY <1>0 DEF InsertDelayList, Kept
<1>1. CASE n # 0
  <2> DEFINE later == {i \in DOMAIN x.dly : Signed(n - Due(x, i)) < 0}
             pos == IF later = {} THEN Len(x.dly) + 1
                                  ELSE CHOOSE i \in later : \A j \in later : i <= j
             y == InsertDelayList(x, t, n)
  <2>1. later \in SUBSET DOMAIN x.dly /\ x.dly \in Seq(Task)
    BY DEF KType
  <2>2. pos \in 1 .. Len(x.dly) + 1
    <3> HIDE DEF later, y
    <3> QED BY <2>1, FirstPlace
  <2>3. \E tick, intact :
          y = [x EXCEPT !.dly = InsertAt(x.dly, pos, t), !.tick = tick, !.st[t] = "WAITING",
                        !.req = TRUE, !.intact = intact]
    BY <1>1 DEF InsertDelayList
  <2> HIDE DEF pos, y
  <2>4. InsertAt(x.dly, pos, t) \in Seq(Task)
    BY <2>1, <2>2, InsertSeq
  <2>5. PICK tick, intact :
          y = [x EXCEPT !.dly = InsertAt(x.dly, pos, t), !.tick = tick, !.st[t] = "WAITING",
                        !.req = TRUE, !.intact = intact]
    BY <2>3
  <2>6. Kept(x, y)
    BY <2>4, <2>5 DEF Kept, KType, Fields, Alive
  <2> QED BY <2>6 DEF y
<1> QED BY <1>0, <1>1

LEMMA RemoveDelayKept ==
    ASSUME NEW x, KType(x), NEW t
    PROVE  /\ Kept(x, RemoveDelayList(x, t))
           /\ RemoveDelayList(x, t).wait = x.wait /\ RemoveDelayList(x, t).flg = x.flg
           /\ RemoveDelayList(x, t).ev = x.ev /\ RemoveDelayList(x, t).mid = x.mid
<1>1. Unlinked(x.dly, t) \in Seq(Task)
  BY RemoveSeq DEF KType
<1>2. PICK tick, intact :
        RemoveDelayList(x, t) = [x EXCEPT !.dly = Unlinked(x.dly, t), !.tick = tick,
                                          !.intact = intact]
  BY DEF RemoveDelayList
<1> QED BY <1>1, <1>2 DEF Kept, KType, Fields

LEMMA RemoveWaitingKept ==
    ASSUME NEW x, KType(x), NEW t \in Task, x.ev[t] # InvalidId
    PROVE  /\ Kept(x, RemoveEventWaittingList(x, t))
           /\ RemoveEventWaittingList(x, t).dly = x.dly
           /\ RemoveEventWaittingList(x, t).flg = x.flg
<1> DEFINE e == x.ev[t]
           missed == t \in x.stale /\ x.wait[e][1] = t
           list == IF missed THEN x.wait[e] ELSE Unlinked(x.wait[e], t)
<1>1. e \in Event /\ x.wait[e] \in Seq(Task)
  BY DEF KType
<1>2. list \in Seq(Task)
  BY <1>1, RemoveSeq
<1>3. PICK intact, stale :
        RemoveEventWaittingList(x, t) =
          [x EXCEPT !.wait[e] = list, !.ev[t] = InvalidId, !.stale = stale, !.intact = intact]
  BY DEF RemoveEventWaittingList
<1> HIDE DEF list
<1> QED BY <1>1, <1>2, <1>3 DEF Kept, KType, Fields

(***************************************************************************)
(* The functions of events.                                                *)
(***************************************************************************)
LEMMA ToWaitKept ==
    ASSUME NEW x, KType(x), NEW e \in Event, NEW t \in Task
    PROVE  Kept(x, EventTaskToWait(x, e, t))
<1> DEFINE behind == IF Sort[e] = "FIFO" THEN {}
                     ELSE {i \in DOMAIN x.wait[e] : x.prio[x.wait[e][i]] > x.prio[t]}
           pos == IF behind = {} THEN Len(x.wait[e]) + 1
                                 ELSE CHOOSE i \in behind : \A j \in behind : i <= j
           list == InsertAt(x.wait[e], pos, t)
           stale == x.stale \ ToSet(Tail(list))
<1>1. x.wait[e] \in Seq(Task) /\ behind \in SUBSET DOMAIN x.wait[e]
  BY DEF KType
<1>2. pos \in 1 .. Len(x.wait[e]) + 1
  <2> HIDE DEF behind
  <2> QED BY <1>1, FirstPlace
<1>3. EventTaskToWait(x, e, t) =
          [x EXCEPT !.wait[e] = list, !.ev[t] = e, !.st[t] = "WAITING", !.req = TRUE,
                    !.stale = stale]
  BY DEF EventTaskToWait
<1> HIDE DEF pos
<1>4. list \in Seq(Task)
  BY <1>1, <1>2, InsertSeq
<1> HIDE DEF list, stale
<1> QED BY <1>3, <1>4 DEF Kept, KType, Fields, Alive

LEMMA TakeKept ==
    ASSUME NEW x, KType(x), NEW e
    PROVE  Kept(x, Take(x, e)) /\ Take(x, e).wait = x.wait
  BY DEF Take, Kept, KType, Fields

\* Kept is a preorder.
LEMMA KeptTrans ==
    ASSUME NEW x, NEW y, NEW z, Kept(x, y), Kept(y, z)
    PROVE  Kept(x, z)
BY DEF Kept

LEMMA ToRdyKept ==
    ASSUME NEW x, KType(x), NEW e \in Event
    PROVE  Kept(x, EventTaskToRdy(x, e))
<1> DEFINE t == Head(x.wait[e])
           mail == IF x.ecb[e].type = "SEM" THEN Woken ELSE x.ecb[e].slot[x.ecb[e].head]
           stale == x.stale \ {x.wait[e][i] : i \in DOMAIN x.wait[e] \cap {2}}
           k1 == [x EXCEPT !.wait[e] = Tail(@), !.ev[t] = InvalidId, !.stale = stale]
           k2 == IF x.tick[t] # Invalid THEN RemoveDelayList(k1, t) ELSE k1
           k3 == [Take(k2, e) EXCEPT !.pmail[t] = mail]
           k4 == [k3 EXCEPT !.st[t] = "RUNNING"]
<1>1. SUFFICES ASSUME x.wait[e] # << >>
               PROVE  Kept(x, IF t = x.run THEN k4 ELSE InsertToTCBRdyList(k3, t))
  BY DEF EventTaskToRdy, Kept
<1>2. x.wait[e] \in Seq(Task)
  BY DEF KType
<1>3. t \in Task /\ Tail(x.wait[e]) \in Seq(Task)
  BY <1>1, <1>2, HeadTailProperties
<1> HIDE DEF t, mail, stale
<1>4. Kept(x, k1)
  BY <1>3 DEF Kept, KType, Fields
<1> HIDE DEF k1
<1>5. Kept(x, k2)
  BY <1>4, RemoveDelayKept, KeptTrans DEF Kept
<1> HIDE DEF k2
<1>6. Kept(k2, Take(k2, e))
  BY <1>5, TakeKept DEF Kept
<1>7. Kept(Take(k2, e), k3)
  BY <1>6 DEF Kept, KType, Fields
<1>8. Kept(x, k3)
  BY <1>5, <1>6, <1>7, KeptTrans
<1> HIDE DEF k3
<1>9. Kept(k3, k4)
  BY <1>3, <1>8 DEF Kept, KType, Fields, Alive
<1> QED BY <1>3, <1>8, <1>9, InsertRdyKept, KeptTrans DEF Kept

\* The loop of DeleteEvent, which takes the tasks from the list it goes over.
WakeFirst(kk, e, t) ==
  LET k1 == IF kk.tick[t] # Invalid THEN RemoveDelayList(kk, t) ELSE kk
  IN InsertToTCBRdyList([k1 EXCEPT !.ev[t] = InvalidId, !.wait[e] = Tail(@)], t)

LEMMA WakeFirstKept ==
    ASSUME NEW x, KType(x), NEW e \in Event, NEW t \in Task, x.wait[e] # << >>
    PROVE  /\ Kept(x, WakeFirst(x, e, t))
           /\ WakeFirst(x, e, t).wait[e] = Tail(x.wait[e])
<1> DEFINE k1 == IF x.tick[t] # Invalid THEN RemoveDelayList(x, t) ELSE x
           k2 == [k1 EXCEPT !.ev[t] = InvalidId, !.wait[e] = Tail(@)]
<1>1. Kept(x, k1) /\ k1.wait = x.wait
  BY RemoveDelayKept DEF Kept
<1> HIDE DEF k1
<1>2. Tail(k1.wait[e]) \in Seq(Task)
  BY <1>1, HeadTailProperties DEF KType
<1>3. Kept(k1, k2) /\ k2.wait[e] = Tail(x.wait[e])
  BY <1>1, <1>2 DEF Kept, KType, Fields
<1>4. WakeFirst(x, e, t) = InsertToTCBRdyList(k2, t)
  BY DEF WakeFirst, k1
<1> HIDE DEF k2
<1> QED BY <1>1, <1>3, <1>4, InsertRdyKept, KeptTrans DEF Kept

LEMMA WakeAllKept ==
    ASSUME NEW x, KType(x), NEW e \in Event
    PROVE  Kept(x, WakeAll(x, e))
<1> DEFINE s == x.wait[e]
           Loop(g, m) == g = [i \in 0 .. m |-> IF i = 0 THEN x ELSE WakeFirst(g[i - 1], e, s[i])]
           f == CHOOSE g : Loop(g, Len(s))
<1>1. s \in Seq(Task) /\ Len(s) \in Nat
  BY LenProperties DEF KType
<1>2. \E g : Loop(g, Len(s))
  <2> DEFINE I == {m \in 0 .. Len(s) : \E g : Loop(g, m)}
  <2>1. 0 \in I
    <3>1. Loop([i \in 0 .. 0 |-> x], 0)
      OBVIOUS
    <3> HIDE DEF Loop
    <3> QED BY <1>1, <3>1
  <2>2. ASSUME NEW m \in 0 .. Len(s) - 1, m \in I PROVE m + 1 \in I
    <3>1. PICK g : Loop(g, m)
      BY <2>2
    <3> DEFINE h == [i \in 0 .. m + 1 |-> IF i <= m THEN g[i] ELSE WakeFirst(g[m], e, s[m + 1])]
    <3>2. Loop(h, m + 1)
      BY <1>1, <3>1
    <3> HIDE DEF Loop, h
    <3> QED BY <1>1, <3>2
  <2> HIDE DEF I
  <2>3. Len(s) \in I
    BY <1>1, <2>1, <2>2, Rounds
  <2> QED BY <2>3 DEF I
<1>3. Loop(f, Len(s))
  BY <1>2
<1>4. WakeAll(x, e) = [f[Len(s)] EXCEPT !.stale = @ \cup ToSet(SubSeq(s, 2, Len(s)))]
  BY DEF WakeAll, Each, WakeFirst
<1> HIDE DEF f
<1> DEFINE I == {i \in 0 .. Len(s) : Kept(x, f[i]) /\ Len(f[i].wait[e]) = Len(s) - i}
<1>5. 0 \in I
  BY <1>1, <1>3 DEF Kept
<1>6. ASSUME NEW i \in 0 .. Len(s) - 1, i \in I PROVE i + 1 \in I
  <2>1. f[i + 1] = WakeFirst(f[i], e, s[i + 1]) /\ s[i + 1] \in Task
    BY <1>1, <1>3
  <2>2. f[i].wait[e] \in Seq(Task) /\ f[i].wait[e] # << >>
    BY <1>6 DEF Kept, KType
  <2>3. Len(Tail(f[i].wait[e])) = Len(s) - (i + 1)
    BY <1>1, <1>6, <2>2, HeadTailProperties
  <2>4. Kept(f[i], f[i + 1]) /\ f[i + 1].wait[e] = Tail(f[i].wait[e])
    BY <1>6, <2>1, <2>2, WakeFirstKept DEF Kept
  <2>5. Kept(x, f[i + 1])
    BY <1>6, <2>4, KeptTrans
  <2>6. Len(f[i + 1].wait[e]) = Len(s) - (i + 1) /\ i + 1 \in 0 .. Len(s)
    BY <1>1, <2>3, <2>4
  <2> QED BY <2>5, <2>6
<1> HIDE DEF I
<1>7. Len(s) \in I
  BY <1>1, <1>5, <1>6, Rounds
<1>8. Kept(x, f[Len(s)])
  BY <1>7 DEF I
<1> QED BY <1>4, <1>8 DEF Kept, KType, Fields

LEMMA ReleaseKept ==
    ASSUME NEW x, KType(x), NEW e \in Event
    PROVE  Kept(x, Release(x, e))
BY DEF Release, Kept, KType, Fields

LEMMA PutKept ==
    ASSUME NEW x, KType(x), NEW e \in Event, NEW mail
    PROVE  Kept(x, Put(x, e, mail))
<1> DEFINE c == x.ecb[e]
           k1 == [x EXCEPT !.ecb[e].cnt = IF Kind[e] = "QUEUE" THEN (@ + 1) % 2^CntWidth ELSE 1,
                           !.ecb[e].slot[c.tail] = mail,
                           !.ecb[e].tail = IF Kind[e] = "QUEUE" THEN (@ + 1) % Size[e] ELSE @,
                           !.in[e] = Append(@, mail),
                           !.intact = @ /\ c.type # "INVALID"]
           k2 == [x EXCEPT !.ecb[e].cnt = (@ + 1) % 2^CntWidth]
<1>1. Put(x, e, mail) \in {EventTaskToRdy(x, e), k2, EventTaskToRdy(k1, e)}
  BY DEF Put
<1>2. Kept(x, k1) /\ Kept(x, k2)
  BY DEF Kept, KType, Fields
<1> HIDE DEF k1, k2
<1> QED BY <1>1, <1>2, ToRdyKept, KeptTrans DEF Kept

LEMMA PostKept ==
    ASSUME NEW x, KType(x), NEW r, r.ev \in Event
    PROVE  Kept(x, Post(x, r))
BY PutKept DEF Post, Kept

(***************************************************************************)
(* The functions of flags.                                                 *)
(***************************************************************************)
LEMMA LinkNodeKept ==
    ASSUME NEW x, KType(x), NEW t
    PROVE  Kept(x, RemoveLinkNode(x, t)) /\ RemoveLinkNode(x, t).dly = x.dly
<1> DEFINE own == {i \in DOMAIN x.flg.list : x.flg.list[i].task = t}
           at == CHOOSE i \in own : TRUE
           list == IF own = {} THEN x.flg.list ELSE RemoveAt(x.flg.list, at)
<1>0. x.flg.list \in Seq(NodeType)
  BY DEF KType
<1>1. list \in Seq(NodeType)
  <2>1. own # {} => at \in 1 .. Len(x.flg.list)
    BY <1>0, LenProperties
  <2> HIDE DEF own, at
  <2> QED BY <1>0, <2>1, RemoveAtSeq
<1> HIDE DEF own, at
<1> DEFINE flg == [x.flg EXCEPT !.list = list]
<1>2. flg \in [rdy : SUBSET Flag, act : SUBSET Flag, list : Seq(NodeType)] /\ flg.rdy = x.flg.rdy
  <2> HIDE DEF list
  <2> QED BY <1>1 DEF KType
<1>3. PICK pset, intact : RemoveLinkNode(x, t) = [x EXCEPT !.flg = flg, !.pset = pset, !.intact = intact]
  BY DEF RemoveLinkNode, own, at
<1> DEFINE y == RemoveLinkNode(x, t)
<1>4. y = [x EXCEPT !.flg = flg, !.pset = pset, !.intact = intact]
  BY <1>3
<1> HIDE DEF list, flg, y
<1>5. Kept(x, y) /\ y.dly = x.dly
  BY <1>2, <1>4 DEF Kept, KType, Fields
<1> QED BY <1>5 DEF y

LEMMA FromLinkKept ==
    ASSUME NEW x, KType(x), NEW t \in Task
    PROVE  Kept(x, RemoveFromLink(x, t))
<1> DEFINE k1 == RemoveLinkNode(x, t)
           k2 == IF x.tick[t] # Invalid THEN RemoveDelayList(k1, t) ELSE k1
           k3 == [k2 EXCEPT !.pset = @ \cup {t}]
           k4 == [k3 EXCEPT !.st[t] = "RUNNING"]
<1>1. RemoveFromLink(x, t) \in {k4, InsertToTCBRdyList(k3, t)}
  BY DEF RemoveFromLink
<1>2. Kept(x, k1)
  BY LinkNodeKept
<1> HIDE DEF k1
<1>3. Kept(x, k2)
  BY <1>2, RemoveDelayKept, KeptTrans DEF Kept
<1> HIDE DEF k2
<1>4. Kept(x, k3)
  BY <1>3 DEF Kept, KType, Fields
<1> HIDE DEF k3
<1>5. Kept(x, k4)
  BY <1>4 DEF Kept, KType, Fields, Alive
<1> HIDE DEF k4
<1> QED BY <1>1, <1>4, <1>5, InsertRdyKept, KeptTrans DEF Kept

\* A round of CoSetFlag's loop.
WakeOne(kk, x, W, i) == IF i \in W THEN RemoveFromLink(kk, x.flg.list[i].task) ELSE kk

LEMMA WakeKept ==
    ASSUME NEW x, KType(x), NEW f
    PROVE  Kept(x, WakeForFlag(x, f))
<1> DEFINE n == Len(x.flg.list)
           s == [i \in DOMAIN x.flg.list |-> i]
           sat == {i \in DOMAIN x.flg.list : Satisfied(x, x.flg.list[i])}
           W == {i \in sat : f \in AutoReset => \A j \in sat : i <= j}
           Loop(g, m) == g = [i \in 0 .. m |-> IF i = 0 THEN x ELSE WakeOne(g[i - 1], x, W, s[i])]
           h == CHOOSE g : Loop(g, Len(s))
<1>1. n \in Nat /\ x.flg.list \in Seq(NodeType) /\ DOMAIN x.flg.list = 1 .. n
  BY LenProperties DEF KType
<1>2. Len(s) = n /\ \A i \in 1 .. n : s[i] = i
  BY <1>1
<1>3. WakeForFlag(x, f) = h[Len(s)]
  BY DEF WakeForFlag, Each, WakeOne
<1> HIDE DEF n, s, W
<1>4. \E g : Loop(g, n)
  <2> DEFINE I == {m \in 0 .. n : \E g : Loop(g, m)}
  <2>1. 0 \in I
    <3>1. Loop([i \in 0 .. 0 |-> x], 0)
      OBVIOUS
    <3> HIDE DEF Loop
    <3> QED BY <1>1, <3>1
  <2>2. ASSUME NEW m \in 0 .. n - 1, m \in I PROVE m + 1 \in I
    <3>1. PICK g : Loop(g, m)
      BY <2>2
    <3> DEFINE gg == [i \in 0 .. m + 1 |-> IF i <= m THEN g[i] ELSE WakeOne(g[m], x, W, s[m + 1])]
    <3>2. Loop(gg, m + 1)
      BY <1>1, <3>1
    <3> HIDE DEF Loop, gg
    <3> QED BY <1>1, <3>2
  <2> HIDE DEF I
  <2>3. n \in I
    BY <1>1, <2>1, <2>2, Rounds
  <2> QED BY <2>3 DEF I
<1>5. Loop(h, n)
  BY <1>2, <1>4
<1> HIDE DEF h
<1> DEFINE I == {i \in 0 .. n : Kept(x, h[i])}
<1>6. 0 \in I
  BY <1>1, <1>5 DEF Kept
<1>7. ASSUME NEW i \in 0 .. n - 1, i \in I PROVE i + 1 \in I
  <2>0. x.flg.list[i + 1] \in NodeType
    BY <1>1, ElementOfSeq DEF n
  <2>1. h[i + 1] = WakeOne(h[i], x, W, i + 1) /\ x.flg.list[i + 1].task \in Task
    BY <1>1, <1>2, <1>5, <2>0 DEF NodeType
  <2>2. Kept(h[i], h[i + 1])
    BY <1>7, <2>1, FromLinkKept DEF WakeOne, Kept
  <2>3. Kept(x, h[i + 1])
    BY <1>7, <2>2, KeptTrans
  <2> QED BY <1>1, <2>3
<1> HIDE DEF I
<1>8. n \in I
  BY <1>1, <1>6, <1>7, Rounds
<1> QED BY <1>2, <1>3, <1>8 DEF I

\* A function that changes flags leaves every flag that was set, and neither
\* cleared nor taken, set.
Safe(x, y) ==
  /\ KType(y)
  /\ y.run = x.run /\ y.lock = x.lock
  /\ x.due \subseteq x.flg.rdy => y.due \subseteq y.flg.rdy

LEMMA SafeTrans ==
    ASSUME NEW x, NEW y, NEW z, Safe(x, y), Safe(y, z)
    PROVE  Safe(x, z)
BY DEF Safe

LEMMA KeptSafe ==
    ASSUME NEW x, NEW y, Kept(x, y)
    PROVE  Safe(x, y)
BY DEF Kept, Safe

LEMMA SetFlagSafe ==
    ASSUME NEW x, KType(x), NEW f \in Flag
    PROVE  Safe(x, SetFlag(x, f))
<1> DEFINE k1 == MarkSet([x EXCEPT !.flg.rdy = @ \cup {f}], f)
<1>1. SetFlag(x, f) \in {x, WakeForFlag(k1, f)}
  BY DEF SetFlag
<1>2. Safe(x, k1)
  BY DEF MarkSet, Safe, KType, Fields
<1> HIDE DEF k1
<1>3. Safe(x, WakeForFlag(k1, f))
  BY <1>2, WakeKept, KeptSafe, SafeTrans DEF Safe
<1> QED BY <1>1, <1>3 DEF Safe

LEMMA TakeFlagsSafe ==
    ASSUME NEW x, KType(x), NEW taken
    PROVE  Safe(x, TakeFlags(x, taken))
BY DEF TakeFlags, Safe, KType, Fields

LEMMA FlagBlockSafe ==
    ASSUME NEW x, KType(x), NEW flags \in SUBSET Flag, NEW all \in BOOLEAN
    PROVE  Safe(x, FlagBlock(x, flags, all))
<1>1. [task |-> x.run, flags |-> flags, all |-> all] \in NodeType
  BY DEF NodeType, KType
<1>2. Append(x.flg.list, [task |-> x.run, flags |-> flags, all |-> all]) \in Seq(NodeType)
  BY <1>1 DEF KType
<1> QED BY <1>2 DEF FlagBlock, Safe, KType, Fields

\* A round of CoDelFlag's loop.
DropOne(kk, f, n) ==
  IF f \in n.flags /\ (n.all => n.flags = {f}) THEN RemoveFromLink(kk, n.task) ELSE kk

LEMMA DropSafe ==
    ASSUME NEW x, KType(x), NEW f
    PROVE  Safe(x, DropFlag(x, f))
<1> DEFINE s == x.flg.list
           n == Len(s)
           Loop(g, m) == g = [i \in 0 .. m |-> IF i = 0 THEN x ELSE DropOne(g[i - 1], f, s[i])]
           h == CHOOSE g : Loop(g, n)
           k1 == h[n]
           list == [i \in DOMAIN k1.flg.list |-> [k1.flg.list[i] EXCEPT !.flags = @ \ {f}]]
<1>1. n \in Nat /\ s \in Seq(NodeType)
  BY LenProperties DEF KType
<1>2. DropFlag(x, f) = [k1 EXCEPT !.flg.list = list, !.flg.act = @ \ {f}, !.flg.rdy = @ \ {f},
                                  !.due = @ \ {f}]
  BY DEF DropFlag, Each, DropOne
<1> HIDE DEF n, s
<1>3. \E g : Loop(g, n)
  <2> DEFINE I == {m \in 0 .. n : \E g : Loop(g, m)}
  <2>1. 0 \in I
    <3>1. Loop([i \in 0 .. 0 |-> x], 0)
      OBVIOUS
    <3> HIDE DEF Loop
    <3> QED BY <1>1, <3>1
  <2>2. ASSUME NEW m \in 0 .. n - 1, m \in I PROVE m + 1 \in I
    <3>1. PICK g : Loop(g, m)
      BY <2>2
    <3> DEFINE gg == [i \in 0 .. m + 1 |-> IF i <= m THEN g[i] ELSE DropOne(g[m], f, s[m + 1])]
    <3>2. Loop(gg, m + 1)
      BY <1>1, <3>1
    <3> HIDE DEF Loop, gg
    <3> QED BY <1>1, <3>2
  <2> HIDE DEF I
  <2>3. n \in I
    BY <1>1, <2>1, <2>2, Rounds
  <2> QED BY <2>3 DEF I
<1>4. Loop(h, n)
  BY <1>3
<1> HIDE DEF h
<1> DEFINE I == {i \in 0 .. n : Kept(x, h[i])}
<1>5. 0 \in I
  BY <1>1, <1>4 DEF Kept
<1>6. ASSUME NEW i \in 0 .. n - 1, i \in I PROVE i + 1 \in I
  <2>1. s[i + 1] \in NodeType
    BY <1>1, ElementOfSeq DEF n
  <2>2. h[i + 1] = DropOne(h[i], f, s[i + 1]) /\ s[i + 1].task \in Task
    BY <1>1, <1>4, <2>1 DEF NodeType
  <2>3. Kept(h[i], h[i + 1])
    BY <1>6, <2>2, FromLinkKept DEF DropOne, Kept
  <2>4. Kept(x, h[i + 1])
    BY <1>6, <2>3, KeptTrans
  <2> QED BY <1>1, <2>4
<1> HIDE DEF I
<1>7. n \in I
  BY <1>1, <1>5, <1>6, Rounds
<1>8. Kept(x, k1)
  BY <1>7 DEF I
<1> HIDE DEF k1
<1>9. list \in Seq(NodeType)
  <2>1. k1.flg.list \in Seq(NodeType)
    BY <1>8 DEF Kept, KType
  <2>2. \A node \in NodeType : [node EXCEPT !.flags = @ \ {f}] \in NodeType
    BY DEF NodeType
  <2>3. \A i \in 1 .. Len(k1.flg.list) : k1.flg.list[i] \in NodeType
    BY <2>1, ElementOfSeq
  <2>4. Len(k1.flg.list) \in Nat /\ DOMAIN k1.flg.list = 1 .. Len(k1.flg.list)
    BY <2>1, LenProperties
  <2> QED BY <2>2, <2>3, <2>4
<1> HIDE DEF list
<1> DEFINE flg == [k1.flg EXCEPT !.list = list, !.act = @ \ {f}, !.rdy = @ \ {f}]
<1>10. /\ flg \in [rdy : SUBSET Flag, act : SUBSET Flag, list : Seq(NodeType)]
       /\ flg.rdy = k1.flg.rdy \ {f}
  BY <1>8, <1>9 DEF Kept, KType
<1>11. DropFlag(x, f) = [k1 EXCEPT !.flg = flg, !.due = @ \ {f}]
  BY <1>2, <1>8 DEF Kept, KType, Fields
<1> HIDE DEF flg
<1>12. Safe(k1, DropFlag(x, f))
  BY <1>8, <1>10, <1>11 DEF Kept, Safe, KType, Fields
<1> QED BY <1>8, <1>12, KeptSafe, SafeTrans

(***************************************************************************)
(* The functions of mutexes.                                               *)
(***************************************************************************)
LEMMA HighestType ==
    ASSUME NEW x, KType(x), NEW list \in Seq(Task), NEW p \in Nat, NEW id \in Task \cup {InvalidId}
    PROVE  /\ Highest(x, list, p, id).id \in Task \cup {InvalidId}
           /\ Highest(x, list, p, id).prio \in Nat
<1> DEFINE best == {i \in DOMAIN list : /\ x.prio[list[i]] < p
                                        /\ \A j \in DOMAIN list : x.prio[list[i]] <= x.prio[list[j]]}
           first == CHOOSE i \in best : \A j \in best : i <= j
<1>1. best \in SUBSET (1 .. Len(list)) /\ Len(list) \in Nat
  BY LenProperties
<1>2. Highest(x, list, p, id) = IF best = {} THEN [id |-> id, prio |-> p]
                                ELSE [id |-> list[first], prio |-> x.prio[list[first]]]
  BY DEF Highest
<1>3. best # {} => first \in 1 .. Len(list)
  <2> HIDE DEF best
  <2>1. best # {} => \E i \in best : \A j \in best : i <= j
    BY <1>1, Least
  <2> QED BY <1>1, <2>1
<1> HIDE DEF best, first
<1>4. best # {} => list[first] \in Task
  BY <1>3, ElementOfSeq
<1> QED BY <1>2, <1>4 DEF KType

LEMMA ReorderKept ==
    ASSUME NEW x, KType(x), NEW t \in Task
    PROVE  Kept(x, ReorderWaiting(x, t))
<1>1. CASE x.ev[t] # InvalidId
  <2>1. x.ev[t] \in Event
    BY <1>1 DEF KType
  <2>2. Kept(x, EventTaskToWait(RemoveEventWaittingList(x, t), x.ev[t], t))
    BY <1>1, <2>1, RemoveWaitingKept, ToWaitKept, KeptTrans DEF Kept
  <2> QED BY <2>2 DEF ReorderWaiting, Kept
<1> QED BY <1>1 DEF ReorderWaiting, Kept

\* A call of CoSetPriority that is left to make.
CallOf(x, c) ==
  /\ Kept(x, c.k)
  /\ c.task \in Task \cup {InvalidId} /\ c.prio \in Nat

LEMMA TailKept ==
    ASSUME NEW x, KType(x), NEW t \in Task, NEW seen \in Alive
    PROVE  CallOf(x, SetPriorityTail(x, t, seen))
<1> DEFINE m == x.mid[t]
           h == Highest(x, x.mx[m].list, x.mx[m].orig, x.mx[m].own)
           k0 == [x EXCEPT !.mx[m].hipri = h.id]
           k1 == ReorderWaiting(k0, t)
<1>1. CASE seen = "READY"
  <2>1. Kept(x, InsertToTCBRdyList(RemoveFromTCBRdyList(x, t), t))
    BY RemoveRdyKept, InsertRdyKept, KeptTrans DEF Kept
  <2> QED BY <1>1, <2>1 DEF SetPriorityTail, Done, CallOf
<1>2. CASE seen = "RUNNING"
  <2> DEFINE y == [x EXCEPT !.req = @ \/ x.prio[t] > RdyPrio(x)]
  <2>1. Kept(x, y)
    BY DEF Kept, KType, Fields
  <2>2. SetPriorityTail(x, t, seen) = Done(y)
    BY <1>2 DEF SetPriorityTail
  <2> HIDE DEF y
  <2> QED BY <2>1, <2>2 DEF Done, CallOf
<1>3. CASE seen = "WAITING" /\ m = InvalidId
  <2>1. Kept(x, ReorderWaiting(x, t))
    BY ReorderKept
  <2> QED BY <1>3, <2>1 DEF SetPriorityTail, Done, CallOf
<1>4. CASE seen = "WAITING" /\ m # InvalidId
  <2>1. m \in Mutex /\ x.mx[m] \in MutexType
    BY <1>4 DEF KType
  <2>2. h.id \in Task \cup {InvalidId} /\ h.prio \in Nat
    BY <2>1, HighestType DEF MutexType
  <2>3. SetPriorityTail(x, t, seen) \in {Done(k1), [k |-> k1, task |-> x.mx[m].own, prio |-> h.prio]}
    BY <1>4 DEF SetPriorityTail
  <2> HIDE DEF h
  <2>4. Kept(x, k0)
    BY <2>1, <2>2 DEF Kept, KType, Fields, MutexType
  <2> HIDE DEF k0
  <2>5. Kept(x, k1)
    BY <2>4, ReorderKept, KeptTrans DEF Kept
  <2> HIDE DEF k1
  <2>6. x.mx[m].own \in Task \cup {InvalidId}
    BY <2>1 DEF MutexType
  <2> HIDE DEF m
  <2> QED BY <2>2, <2>3, <2>5, <2>6 DEF Done, CallOf
<1> QED BY <1>1, <1>2, <1>3, <1>4 DEF Alive

LEMMA HeadKept ==
    ASSUME NEW x, KType(x), NEW t \in Task, NEW p \in Nat
    PROVE  Kept(x, SetPriorityHead(x, t, p)) /\ SetPriorityHead(x, t, p).st = x.st
<1> DEFINE m == x.mid[t]
           k1 == IF Holds(x, t) THEN [x EXCEPT !.mx[m].orig = p] ELSE x
           k2 == [k1 EXCEPT !.prio[t] = p]
<1>1. Kept(x, k1) /\ k1.st = x.st
  <2>1. CASE Holds(x, t)
    <3>1. m \in Mutex /\ x.mx[m] \in MutexType
      BY <2>1 DEF KType, Holds
    <3> QED BY <2>1, <3>1 DEF Kept, KType, Fields, MutexType
  <2> QED BY <2>1 DEF Kept
<1>2. SetPriorityHead(x, t, p) = k1 \/ SetPriorityHead(x, t, p) = k2
  BY DEF SetPriorityHead
<1> HIDE DEF k1
<1>3. Kept(k1, k2) /\ k2.st = k1.st
  BY <1>1 DEF Kept, KType, Fields
<1> HIDE DEF k2
<1> QED BY <1>1, <1>2, <1>3, KeptTrans

LEMMA OnceKept ==
    ASSUME NEW x, NEW c, CallOf(x, c)
    PROVE  CallOf(x, SetPriorityOnce(c))
<1> DEFINE t == c.task
           y == SetPriorityHead(c.k, t, c.prio)
           d == SetPriorityTail(y, t, c.k.st[t])
<1>0. KType(c.k) /\ Kept(x, c.k) /\ c.prio \in Nat /\ t \in Task \cup {InvalidId}
  BY DEF CallOf, Kept
<1>1. InvalidId \notin Task
  BY KernelAssumption
<1>2. SUFFICES ASSUME t # InvalidId PROVE CallOf(x, SetPriorityOnce(c))
  BY DEF SetPriorityOnce
<1>3. t \in Task /\ c.k.st[t] \in Alive \cup {"DORMANT"}
  BY <1>0, <1>2 DEF KType
<1>4. Kept(c.k, y)
  BY <1>0, <1>3, HeadKept
<1>5. Kept(x, y) /\ KType(y)
  BY <1>0, <1>4, KeptTrans DEF Kept
<1>6. CASE c.k.st[t] = "DORMANT"
  <2>1. SetPriorityOnce(c) = Done(c.k)
    BY <1>2, <1>6 DEF SetPriorityOnce
  <2> QED BY <1>0, <2>1 DEF Done, CallOf
<1>7. CASE c.k.st[t] # "DORMANT"
  <2>1. SetPriorityOnce(c) \in {Done(c.k), Done(y), d}
    BY <1>2 DEF SetPriorityOnce
  <2> HIDE DEF y
  <2>2. CallOf(y, d)
    BY <1>3, <1>5, <1>7, TailKept
  <2>3. CallOf(x, d)
    BY <1>5, <2>2, KeptTrans DEF CallOf
  <2>4. CallOf(x, Done(c.k)) /\ CallOf(x, Done(y))
    BY <1>0, <1>5 DEF Done, CallOf
  <2> HIDE DEF d
  <2> QED BY <2>1, <2>3, <2>4
<1> QED BY <1>6, <1>7

LEMMA FinishedKept ==
    ASSUME NEW x, NEW c, CallOf(x, c)
    PROVE  Kept(x, Finished(c))
<1> DEFINE n == Cardinality(Task)
           s == [i \in 1 .. n |-> i]
           Loop(g, m) == g = [i \in 0 .. m |-> IF i = 0 THEN c ELSE SetPriorityOnce(g[i - 1])]
           h == CHOOSE g : Loop(g, Len(s))
<1>1. n \in Nat
  BY KernelAssumption, FS_CardinalityType
<1>2. Len(s) = n
  BY <1>1
<1>3. Finished(c) = h[Len(s)].k
  BY DEF Finished, Each
<1> HIDE DEF n, s
<1>4. \E g : Loop(g, n)
  <2> DEFINE I == {m \in 0 .. n : \E g : Loop(g, m)}
  <2>1. 0 \in I
    <3>1. Loop([i \in 0 .. 0 |-> c], 0)
      OBVIOUS
    <3> HIDE DEF Loop
    <3> QED BY <1>1, <3>1
  <2>2. ASSUME NEW m \in 0 .. n - 1, m \in I PROVE m + 1 \in I
    <3>1. PICK g : Loop(g, m)
      BY <2>2
    <3> DEFINE gg == [i \in 0 .. m + 1 |-> IF i <= m THEN g[i] ELSE SetPriorityOnce(g[m])]
    <3>2. Loop(gg, m + 1)
      BY <1>1, <3>1
    <3> HIDE DEF Loop, gg
    <3> QED BY <1>1, <3>2
  <2> HIDE DEF I
  <2>3. n \in I
    BY <1>1, <2>1, <2>2, Rounds
  <2> QED BY <2>3 DEF I
<1>5. Loop(h, n)
  BY <1>2, <1>4
<1> HIDE DEF h
<1> DEFINE I == {i \in 0 .. n : CallOf(x, h[i])}
<1>6. 0 \in I
  BY <1>1, <1>5
<1>7. ASSUME NEW i \in 0 .. n - 1, i \in I PROVE i + 1 \in I
  <2>1. h[i + 1] = SetPriorityOnce(h[i])
    BY <1>1, <1>5
  <2>2. CallOf(x, h[i + 1])
    BY <1>7, <2>1, OnceKept
  <2> QED BY <1>1, <2>2
<1> HIDE DEF I
<1>8. n \in I
  BY <1>1, <1>6, <1>7, Rounds
<1> QED BY <1>2, <1>3, <1>8 DEF I, CallOf

LEMMA SetPriorityKept ==
    ASSUME NEW x, KType(x), NEW t \in Task \cup {InvalidId}, NEW p \in Nat
    PROVE  Kept(x, SetPriority(x, t, p))
<1>1. CallOf(x, [k |-> x, task |-> t, prio |-> p])
  BY DEF CallOf, Kept
<1> QED BY <1>1, FinishedKept DEF SetPriority

\* A write to a control block.
LEMMA BlockKept ==
    ASSUME NEW x, KType(x), NEW m \in Mutex, NEW b \in MutexType
    PROVE  Kept(x, [x EXCEPT !.mx[m] = b])
BY DEF Kept, KType, Fields

LEMMA EnterKept ==
    ASSUME NEW x, KType(x), NEW m \in Mutex
    PROVE  Kept(x, EnterMutex(x, m))
<1> DEFINE t == x.run
           o == x.mx[m].own
           list == Append(x.mx[m].list, t)
           k1 == [x EXCEPT !.mid[t] = m]
           raised == [k1 EXCEPT !.prio[o] = x.prio[t], !.mx[m].hipri = t]
           k2 == IF x.prio[o] <= x.prio[t] THEN k1
                 ELSE IF x.st[o] = "READY" THEN InsertToTCBRdyList(RemoveFromTCBRdyList(raised, o), o)
                 ELSE ReorderWaiting(raised, o)
           k3 == [k1 EXCEPT !.mx[m] = [@ EXCEPT !.own = t, !.orig = x.prio[t], !.hipri = t]]
           k4 == [k2 EXCEPT !.st[t] = "WAITING", !.req = TRUE, !.mx[m].list = Append(@, t)]
<1>1. t \in Task /\ x.mx[m] \in MutexType /\ x.prio[t] \in Nat
  BY DEF KType
<1>2. Kept(x, k1) /\ k1.mx = x.mx
  BY <1>1 DEF Kept, KType, Fields
<1>3. EnterMutex(x, m) = IF o = InvalidId THEN k3 ELSE k4
  BY DEF EnterMutex
<1> HIDE DEF k1
<1>4. Kept(x, k3)
  BY <1>1, <1>2 DEF Kept, KType, Fields, MutexType
<1>5. ASSUME o # InvalidId PROVE Kept(x, k4)
  <2>1. o \in Task
    BY <1>1, <1>5 DEF MutexType
  <2>2. Kept(x, raised)
    BY <1>1, <1>2, <2>1 DEF Kept, KType, Fields, MutexType
  <2> HIDE DEF raised, o
  <2>3. Kept(x, InsertToTCBRdyList(RemoveFromTCBRdyList(raised, o), o))
    BY <2>1, <2>2, RemoveRdyKept, InsertRdyKept, KeptTrans DEF Kept
  <2>4. Kept(x, ReorderWaiting(raised, o))
    BY <2>1, <2>2, ReorderKept, KeptTrans DEF Kept
  <2>5. Kept(x, k2)
    BY <1>2, <2>3, <2>4
  <2> HIDE DEF k2
  <2>6. k2.mx[m] \in MutexType /\ Append(k2.mx[m].list, t) \in Seq(Task)
    <3>1. k2.mx[m] \in MutexType /\ t \in Task
      BY <1>1, <2>5 DEF Kept, KType
    <3>2. k2.mx[m].list \in Seq(Task)
      BY <3>1 DEF MutexType
    <3> HIDE DEF t
    <3> QED BY <3>1, <3>2
  <2> QED BY <1>1, <2>5, <2>6 DEF Kept, KType, Fields, MutexType, Alive
<1> HIDE DEF k3, k4
<1> QED BY <1>3, <1>4, <1>5

LEMMA BrokenKept ==
    ASSUME NEW x, KType(x)
    PROVE  Kept(x, [x EXCEPT !.intact = FALSE])
BY DEF Kept, KType, Fields

LEMMA LeaveKept ==
    ASSUME NEW x, KType(x), NEW m \in Mutex
    PROVE  Kept(x, LeaveMutex(x, m))
<1> DEFINE y == x.mx[m]
           o == y.own
           t == Head(y.list)
           k1 == [x EXCEPT !.mid[o] = InvalidId]
           h == IF y.hipri = o THEN Highest(x, y.list, x.prio[t], o)
                               ELSE [id |-> y.hipri, prio |-> x.prio[o]]
           b0 == [k1.mx[m] EXCEPT !.own = InvalidId, !.hipri = h.id]
           k0 == [k1 EXCEPT !.mx[m] = b0]
           k2 == SetPriority(k0, o, y.orig)
           mstale == (k2.mstale \ {t}) \cup {y.list[i] : i \in DOMAIN y.list \cap {2}}
           k3 == [k2 EXCEPT !.mx[m] = [@ EXCEPT !.own = t, !.orig = k2.prio[t], !.list = Tail(y.list)],
                            !.prio[t] = h.prio, !.mstale = mstale]
           broken == [x EXCEPT !.intact = FALSE]
           freed == [k1 EXCEPT !.mx[m].own = InvalidId]
<1>1. y \in MutexType
  BY DEF KType
<1>2. Kept(x, broken)
  BY BrokenKept
<1>3. /\ o = InvalidId => LeaveMutex(x, m) = broken
      /\ o # InvalidId /\ y.list = << >> => LeaveMutex(x, m) = freed
      /\ o # InvalidId /\ y.list # << >> => LeaveMutex(x, m) = InsertToTCBRdyList(k3, t)
  BY ZenonT(40) DEF LeaveMutex
<1>4. SUFFICES ASSUME o # InvalidId
               PROVE  Kept(x, freed) /\ (y.list # << >> => Kept(x, InsertToTCBRdyList(k3, t)))
  BY <1>2, <1>3
<1> HIDE DEF broken
<1>5. o \in Task /\ y.list \in Seq(Task) /\ y.orig \in Nat /\ y.hipri \in Task \cup {InvalidId}
  BY <1>1, <1>4 DEF MutexType
<1>6. Kept(x, k1) /\ k1.mx = x.mx
  BY <1>5 DEF Kept, KType, Fields
<1> HIDE DEF k1
<1>7. Kept(x, freed)
  <2>1. k1.mx[m] \in MutexType
    BY <1>1, <1>6
  <2>2. [k1.mx[m] EXCEPT !.own = InvalidId] \in MutexType
    BY <2>1 DEF MutexType
  <2>3. freed = [k1 EXCEPT !.mx[m] = [k1.mx[m] EXCEPT !.own = InvalidId]]
    OBVIOUS
  <2> QED BY <1>6, <2>2, <2>3, BlockKept, KeptTrans DEF Kept
<1> HIDE DEF freed
<1>8. ASSUME y.list # << >> PROVE Kept(x, InsertToTCBRdyList(k3, t))
  <2>1. t \in Task /\ Tail(y.list) \in Seq(Task) /\ x.prio[t] \in Nat /\ x.prio[o] \in Nat
    BY <1>5, <1>8, HeadTailProperties DEF KType
  <2>2. h.id \in Task \cup {InvalidId} /\ h.prio \in Nat
    BY <1>5, <2>1, HighestType
  <2> HIDE DEF h, t, o
  <2>3. Kept(x, k0)
    <3>1. b0 \in MutexType
      BY <1>1, <1>6, <2>2 DEF MutexType
    <3> HIDE DEF b0
    <3> QED BY <1>6, <3>1, BlockKept, KeptTrans DEF Kept
  <2> HIDE DEF k0
  <2>4. Kept(x, k2)
    <3>1. KType(k0) /\ o \in Task
      BY <1>5, <2>3 DEF Kept
    <3>2. Kept(k0, k2)
      BY <1>5, <3>1, SetPriorityKept
    <3> QED BY <2>3, <3>2, KeptTrans
  <2> HIDE DEF k2
  <2>5. k2.mx[m] \in MutexType /\ k2.prio[t] \in Nat
    BY <2>1, <2>4 DEF Kept, KType
  <2> HIDE DEF mstale, y
  <2>6. Kept(x, k3)
    BY <2>1, <2>2, <2>4, <2>5 DEF Kept, KType, Fields, MutexType
  <2> HIDE DEF k3
  <2> QED BY <2>1, <2>6, InsertRdyKept, KeptTrans DEF Kept
<1> QED BY <1>7, <1>8

LEMMA RemoveMutexKept ==
    ASSUME NEW x, KType(x), NEW t \in Task, x.mid[t] # InvalidId
    PROVE  Kept(x, RemoveMutexList(x, t))
<1> DEFINE m == x.mid[t]
           y == x.mx[m]
           k1 == [x EXCEPT !.mx[m].list = Unlinked(@, t), !.mid[t] = InvalidId,
                           !.mstale = @ \ {t}, !.intact = @ /\ ~Misses(x, t)]
           h == Highest(k1, k1.mx[m].list, y.orig, y.own)
           b0 == [k1.mx[m] EXCEPT !.own = InvalidId, !.hipri = h.id]
           k0 == [k1 EXCEPT !.mx[m] = b0]
           k2 == SetPriority(k0, y.own, h.prio)
           k3 == [k2 EXCEPT !.mx[m].own = y.own]
<1>1. m \in Mutex /\ y \in MutexType
  BY DEF KType
<1>2. Unlinked(y.list, t) \in Seq(Task)
  <2>1. y.list \in Seq(Task)
    BY <1>1 DEF MutexType
  <2> HIDE DEF y
  <2> QED BY <2>1, RemoveSeq
<1>3. RemoveMutexList(x, t) \in {k1, k3}
  BY DEF RemoveMutexList
<1>4. Kept(x, k1)
  BY <1>1, <1>2 DEF Kept, KType, Fields, MutexType
<1> HIDE DEF k1
<1>5. h.id \in Task \cup {InvalidId} /\ h.prio \in Nat
  <2>1. k1.mx[m].list \in Seq(Task)
    BY <1>1, <1>4 DEF Kept, KType, MutexType
  <2>2. y.orig \in Nat /\ y.own \in Task \cup {InvalidId}
    BY <1>1 DEF MutexType
  <2> QED BY <1>4, <2>1, <2>2, HighestType DEF Kept
<1> HIDE DEF h
<1>6. Kept(x, k0)
  <2>1. k1.mx[m] \in MutexType
    BY <1>1, <1>4 DEF Kept, KType
  <2>2. b0 \in MutexType
    BY <1>5, <2>1 DEF MutexType
  <2> HIDE DEF b0
  <2> QED BY <1>1, <1>4, <2>2, BlockKept, KeptTrans DEF Kept
<1> HIDE DEF k0
<1>7. Kept(x, k2)
  BY <1>1, <1>5, <1>6, SetPriorityKept, KeptTrans DEF Kept, MutexType
<1> HIDE DEF k2
<1>8. Kept(x, k3)
  <2>1. k2.mx[m] \in MutexType
    BY <1>1, <1>7 DEF Kept, KType
  <2>2. [k2.mx[m] EXCEPT !.own = y.own] \in MutexType
    BY <1>1, <2>1 DEF MutexType
  <2>3. k3 = [k2 EXCEPT !.mx[m] = [k2.mx[m] EXCEPT !.own = y.own]]
    OBVIOUS
  <2> HIDE DEF k3
  <2> QED BY <1>1, <1>7, <2>2, <2>3, BlockKept, KeptTrans DEF Kept
<1> HIDE DEF k3
<1> QED BY <1>3, <1>4, <1>8

(***************************************************************************)
(* Time, scheduling and service requests.                                  *)
(***************************************************************************)
LEMMA ExpireKept ==
    ASSUME NEW x, KType(x), NEW t \in Task, x.dly # << >>
    PROVE  Kept(x, Expire(x, t)) /\ Expire(x, t).dly = Tail(x.dly)
<1> DEFINE k1 == IF x.ev[t] # InvalidId THEN RemoveEventWaittingList(x, t) ELSE x
           k2 == IF Pnode(x, t) THEN RemoveLinkNode(k1, t) ELSE k1
           k3 == [k2 EXCEPT !.tick[t] = Invalid, !.dly = Tail(@)]
<1>1. Expire(x, t) = InsertToTCBRdyList(k3, t)
  BY DEF Expire
<1>2. Kept(x, k1) /\ k1.dly = x.dly
  BY RemoveWaitingKept DEF Kept
<1> HIDE DEF k1
<1>3. Kept(x, k2) /\ k2.dly = x.dly
  BY <1>2, LinkNodeKept, KeptTrans DEF Kept
<1> HIDE DEF k2
<1>4. Tail(x.dly) \in Seq(Task)
  BY HeadTailProperties DEF KType
<1>5. Kept(k2, k3) /\ k3.dly = Tail(x.dly)
  BY <1>3, <1>4 DEF Kept, KType, Fields
<1> HIDE DEF k3
<1>6. Kept(x, k3) /\ KType(k3)
  BY <1>3, <1>5, KeptTrans DEF Kept
<1> QED BY <1>1, <1>5, <1>6, InsertRdyKept, KeptTrans

\* The tasks at the head of the delay list whose delay is over.
LEMMA ExpiredCount ==
    ASSUME NEW s \in Seq(Task), NEW tick
    PROVE  \E m \in 0 .. Len(s) : /\ \A i \in 1 .. m : tick[s[i]] = 0
                                  /\ m = Len(s) \/ tick[s[m + 1]] # 0
<1> DEFINE Z == {i \in 1 .. Len(s) : tick[s[i]] # 0}
<1>1. Len(s) \in Nat
  BY LenProperties
<1>2. CASE Z = {}
  BY <1>1, <1>2
<1>3. CASE Z # {}
  <2>1. PICK i \in Z : \A j \in Z : i <= j
    <3>1. Z \in SUBSET Nat
      BY <1>1
    <3> HIDE DEF Z
    <3> QED BY <1>3, <3>1, Least
  <2>2. i - 1 \in 0 .. Len(s) /\ tick[s[i]] # 0 /\ i \in 1 .. Len(s)
    BY <1>1, <2>1
  <2>3. \A j \in 1 .. i - 1 : tick[s[j]] = 0
    BY <1>1, <2>1
  <2>4. (i - 1) + 1 = i
    BY <2>2
  <2> QED BY <2>2, <2>3, <2>4
<1> QED BY <1>2, <1>3

LEMMA TimeDisposeKept ==
    ASSUME NEW x, KType(x)
    PROVE  Kept(x, TimeDispose(x))
<1> DEFINE n == CHOOSE m \in 0 .. Len(x.dly) :
                  /\ \A i \in 1 .. m : x.tick[x.dly[i]] = 0
                  /\ m = Len(x.dly) \/ x.tick[x.dly[m + 1]] # 0
           s == SubSeq(x.dly, 1, n)
           Loop(g, m) == g = [i \in 0 .. m |-> IF i = 0 THEN x ELSE Expire(g[i - 1], s[i])]
           h == CHOOSE g : Loop(g, Len(s))
<1>1. x.dly \in Seq(Task) /\ Len(x.dly) \in Nat
  BY LenProperties DEF KType
<1>2. n \in 0 .. Len(x.dly)
  BY <1>1, ExpiredCount
<1>3. TimeDispose(x) = h[Len(s)]
  BY DEF TimeDispose, Each
<1> HIDE DEF n
<1>4. Len(s) = n /\ \A i \in 1 .. n : s[i] \in Task
  <2>1. \A i \in 1 .. n : x.dly[i] \in Task
    BY <1>1, <1>2, ElementOfSeq
  <2>2. s \in Seq(Task) /\ Len(s) = n
    BY <1>1, <1>2, <2>1, SubSeqProperties
  <2> HIDE DEF s
  <2> QED BY <2>2, ElementOfSeq
<1> HIDE DEF s
<1>5. \E g : Loop(g, n)
  <2> DEFINE I == {m \in 0 .. n : \E g : Loop(g, m)}
  <2>1. 0 \in I
    <3>1. Loop([i \in 0 .. 0 |-> x], 0)
      OBVIOUS
    <3> HIDE DEF Loop
    <3> QED BY <1>2, <3>1
  <2>2. ASSUME NEW m \in 0 .. n - 1, m \in I PROVE m + 1 \in I
    <3>1. PICK g : Loop(g, m)
      BY <2>2
    <3> DEFINE gg == [i \in 0 .. m + 1 |-> IF i <= m THEN g[i] ELSE Expire(g[m], s[m + 1])]
    <3>2. Loop(gg, m + 1)
      BY <1>2, <3>1
    <3> HIDE DEF Loop, gg
    <3> QED BY <1>2, <3>2
  <2> HIDE DEF I
  <2>3. n \in I
    BY <1>2, <2>1, <2>2, Rounds
  <2> QED BY <2>3 DEF I
<1>6. Loop(h, n)
  BY <1>4, <1>5
<1> HIDE DEF h
<1> DEFINE I == {i \in 0 .. n : Kept(x, h[i]) /\ Len(h[i].dly) = Len(x.dly) - i}
<1>7. 0 \in I
  BY <1>1, <1>2, <1>6 DEF Kept
<1>8. ASSUME NEW i \in 0 .. n - 1, i \in I PROVE i + 1 \in I
  <2>1. h[i + 1] = Expire(h[i], s[i + 1]) /\ s[i + 1] \in Task
    BY <1>2, <1>4, <1>6
  <2>2. h[i].dly \in Seq(Task) /\ h[i].dly # << >>
    BY <1>1, <1>2, <1>8 DEF Kept, KType
  <2>3. Len(Tail(h[i].dly)) = Len(x.dly) - (i + 1)
    BY <1>1, <1>2, <1>8, <2>2, HeadTailProperties
  <2>4. Kept(h[i], h[i + 1]) /\ h[i + 1].dly = Tail(h[i].dly)
    BY <1>8, <2>1, <2>2, ExpireKept DEF Kept
  <2>5. Kept(x, h[i + 1])
    BY <1>8, <2>4, KeptTrans
  <2>6. Len(h[i + 1].dly) = Len(x.dly) - (i + 1) /\ i + 1 \in 0 .. n
    BY <1>2, <2>3, <2>4
  <2> QED BY <2>5, <2>6
<1> HIDE DEF I
<1>9. n \in I
  BY <1>2, <1>7, <1>8, Rounds
<1> QED BY <1>3, <1>4, <1>9 DEF I

\* Schedule may change the running task and nothing else of what Kept names.
Switched(x, y) ==
  /\ KType(y) /\ y.lock = x.lock
  /\ x.due \subseteq x.flg.rdy => y.due \subseteq y.flg.rdy

LEMMA ScheduleSwitched ==
    ASSUME NEW x, KType(x)
    PROVE  Switched(x, Schedule(x))
<1> DEFINE cur == x.run
           next == x.rdy[1]
           k1 == [x EXCEPT !.req = FALSE]
           k2 == RemoveFromTCBRdyList(k1, next)
           k3 == RemoveFromTCBRdyList(InsertToTCBRdyList(k1, cur), next)
<1>1. CASE x.rdy = << >>
  BY <1>1 DEF Schedule, Switched
<1>2. CASE x.rdy # << >>
  <2>1. next \in Task /\ cur \in Task
    BY <1>2, EmptySeq, ElementOfSeq DEF KType
  <2>2. Schedule(x) = SwitchTo(k2, next) \/ Schedule(x) = SwitchTo(k3, next) \/ Schedule(x) = k1
    BY <1>2 DEF Schedule
  <2>3. Kept(x, k1)
    BY DEF Kept, KType, Fields
  <2> HIDE DEF k1, next, cur
  <2>4. Kept(x, k2)
    BY <2>3, RemoveRdyKept, KeptTrans DEF Kept
  <2>5. Kept(x, k3)
    BY <2>1, <2>3, InsertRdyKept, RemoveRdyKept, KeptTrans DEF Kept
  <2>6. ASSUME NEW y, Kept(x, y) PROVE Switched(x, SwitchTo(y, next))
    BY <2>1, <2>6 DEF SwitchTo, Switched, Kept, KType, Fields, Alive
  <2> HIDE DEF k2, k3
  <2>7. Switched(x, k1)
    BY <2>3 DEF Kept, Switched
  <2> QED BY <2>2, <2>4, <2>5, <2>6, <2>7
<1> QED BY <1>1, <1>2

LEMMA ServeSafe ==
    ASSUME NEW x, KType(x), NEW r \in Request
    PROVE  Safe(x, Serve(x, r))
<1>1. CASE r \in [flag : Flag]
  BY <1>1, SetFlagSafe DEF Serve
<1>2. CASE r \in [ev : Event, mail : Nat]
  <2>1. r.ev \in Event /\ "flag" \notin DOMAIN r
    BY <1>2
  <2> QED BY <2>1, PostKept, KeptSafe DEF Serve
<1> QED BY <1>1, <1>2 DEF Request

LEMMA RespondSafe ==
    ASSUME NEW x, KType(x)
    PROVE  Safe(x, RespondSRQ(x))
<1> DEFINE k1 == IF x.timeReq THEN [TimeDispose(x) EXCEPT !.timeReq = FALSE] ELSE x
           k2 == [k1 EXCEPT !.srq = << >>]
           s == k1.srq
           n == Len(s)
           Loop(g, m) == g = [i \in 0 .. m |-> IF i = 0 THEN k2 ELSE Serve(g[i - 1], s[i])]
           h == CHOOSE g : Loop(g, n)
<1>1. RespondSRQ(x) = h[n]
  BY DEF RespondSRQ, Each
<1>2. Kept(x, k1)
  <2>1. Kept(x, TimeDispose(x))
    BY TimeDisposeKept
  <2>2. Kept(TimeDispose(x), [TimeDispose(x) EXCEPT !.timeReq = FALSE])
    BY <2>1 DEF Kept, KType, Fields
  <2> QED BY <2>1, <2>2, KeptTrans DEF Kept
<1> HIDE DEF k1
<1>3. n \in Nat /\ s \in Seq(Request)
  BY <1>2, LenProperties DEF Kept, KType
<1>4. Kept(x, k2)
  BY <1>2 DEF Kept, KType, Fields
<1> HIDE DEF k2, s, n
<1>5. \E g : Loop(g, n)
  <2> DEFINE I == {m \in 0 .. n : \E g : Loop(g, m)}
  <2>1. 0 \in I
    <3>1. Loop([i \in 0 .. 0 |-> k2], 0)
      OBVIOUS
    <3> HIDE DEF Loop
    <3> QED BY <1>3, <3>1
  <2>2. ASSUME NEW m \in 0 .. n - 1, m \in I PROVE m + 1 \in I
    <3>1. PICK g : Loop(g, m)
      BY <2>2
    <3> DEFINE gg == [i \in 0 .. m + 1 |-> IF i <= m THEN g[i] ELSE Serve(g[m], s[m + 1])]
    <3>2. Loop(gg, m + 1)
      BY <1>3, <3>1
    <3> HIDE DEF Loop, gg
    <3> QED BY <1>3, <3>2
  <2> HIDE DEF I
  <2>3. n \in I
    BY <1>3, <2>1, <2>2, Rounds
  <2> QED BY <2>3 DEF I
<1>6. Loop(h, n)
  BY <1>5
<1> HIDE DEF h
<1> DEFINE I == {i \in 0 .. n : Safe(x, h[i])}
<1>7. 0 \in I
  BY <1>3, <1>4, <1>6, KeptSafe
<1>8. ASSUME NEW i \in 0 .. n - 1, i \in I PROVE i + 1 \in I
  <2>1. s[i + 1] \in Request
    BY <1>3, ElementOfSeq DEF n
  <2>2. h[i + 1] = Serve(h[i], s[i + 1])
    BY <1>3, <1>6
  <2>3. Safe(h[i], h[i + 1])
    BY <1>8, <2>1, <2>2, ServeSafe DEF Safe
  <2>4. Safe(x, h[i + 1])
    BY <1>8, <2>3, SafeTrans
  <2> QED BY <1>3, <2>4
<1> HIDE DEF I
<1>9. n \in I
  BY <1>3, <1>7, <1>8, Rounds
<1> QED BY <1>1, <1>9 DEF I

\* OsSchedUnlock does nothing while the scheduler is still locked.
LEMMA UnlockSwitched ==
    ASSUME NEW x, KType(x)
    PROVE  /\ Switched(x, OsSchedUnlock(x))
           /\ x.lock > 0 => OsSchedUnlock(x) = x
<1> DEFINE k1 == RespondSRQ(x)
<1>1. Safe(x, k1)
  BY RespondSafe
<1>2. OsSchedUnlock(x) = IF x.lock > 0 THEN x ELSE IF k1.req THEN Schedule(k1) ELSE k1
  BY DEF OsSchedUnlock
<1> HIDE DEF k1
<1>3. Switched(k1, Schedule(k1))
  BY <1>1, ScheduleSwitched DEF Safe
<1>4. Switched(x, Schedule(k1)) /\ Switched(x, k1) /\ Switched(x, x)
  BY <1>1, <1>3 DEF Switched, Safe
<1> QED BY <1>2, <1>4

\* The tick, and that it neither switches nor sets a flag under a lock.
LEMMA TickSwitched ==
    ASSUME NEW x, KType(x)
    PROVE  /\ Switched(x, SysTick(x))
           /\ x.lock > 0 => SysTick(x).run = x.run /\ SysTick(x).flg.rdy = x.flg.rdy
<1> DEFINE slice == IF x.slice < 0 THEN x.slice ELSE x.slice - 1
           k1 == [x EXCEPT !.slice = slice, !.req = TRUE]
           head == x.dly[1]
           k2 == [k1 EXCEPT !.tick[head] = @ - 1]
           k3 == [k1 EXCEPT !.tick[head] = 0, !.timeReq = TRUE]
           k4 == [k1 EXCEPT !.tick[head] = 0]
<1>1. PICK y \in {k1, k2, k3, TimeDispose(k4)} : SysTick(x) = OsSchedUnlock(y)
  BY DEF SysTick
<1> HIDE DEF slice, head
<1>2. Kept(x, k1)
  BY DEF Kept, KType, Fields
<1> HIDE DEF k1
<1>3. Kept(x, k2) /\ Kept(x, k3) /\ Kept(x, k4)
  BY <1>2 DEF Kept, KType, Fields
<1> HIDE DEF k2, k3, k4
<1>4. Kept(x, TimeDispose(k4))
  BY <1>3, TimeDisposeKept, KeptTrans DEF Kept
<1>5. Kept(x, y)
  BY <1>1, <1>2, <1>3, <1>4
<1>6. Switched(y, OsSchedUnlock(y)) /\ (y.lock > 0 => OsSchedUnlock(y) = y)
  BY <1>5, UnlockSwitched DEF Kept
<1> QED BY <1>1, <1>5, <1>6 DEF Kept, Switched

(***************************************************************************)
(* Part 3.  The start.                                                     *)
(***************************************************************************)
LEMMA InitType ==
    ASSUME NEW spare \in Seq(Task)
    PROVE  LET x == CoInitOS(spare) IN KType(x) /\ x.due \subseteq x.flg.rdy
<1> DEFINE x == CoInitOS(spare)
<1>1. NewMutex \in MutexType
  BY EmptySeq DEF NewMutex, MutexType
<1>2. NewFlags \in [rdy : SUBSET Flag, act : SUBSET Flag, list : Seq(NodeType)]
  BY EmptySeq DEF NewFlags
<1>3. << >> \in Seq(Task) /\ << >> \in Seq(Request)
  BY EmptySeq
<1>4. DOMAIN x = Fields
  BY DEF CoInitOS, Fields
<1>5. /\ x.st = [t \in Task |-> IF t = Idle THEN "RUNNING" ELSE "DORMANT"]
      /\ x.prio = [t \in Task |-> Lowest]
      /\ x.rdy = << >> /\ x.dly = << >> /\ x.free = spare
      /\ x.ev = [t \in Task |-> InvalidId] /\ x.wait = [e \in Event |-> << >>]
      /\ x.run = Idle
      /\ x.mid = [t \in Task |-> InvalidId] /\ x.mx = [m \in Mutex |-> NewMutex]
      /\ x.flg = NewFlags /\ x.due = {} /\ x.srq = << >>
  BY DEF CoInitOS
<1> HIDE DEF x
<1>6. KType(x)
  BY <1>1, <1>2, <1>3, <1>4, <1>5, KernelAssumption DEF KType, Alive
<1> QED BY <1>5, <1>6 DEF x

\* What CreateTask does before CoStartOS.
BootOne(kk, p, t) == InsertToTCBRdyList([kk EXCEPT !.prio[t] = p[t], !.base[t] = p[t]], t)

LEMMA BootOneKept ==
    ASSUME NEW x, KType(x), NEW p, NEW t \in Task, p[t] \in Nat
    PROVE  Kept(x, BootOne(x, p, t))
<1> DEFINE y == [x EXCEPT !.prio[t] = p[t], !.base[t] = p[t]]
<1>1. Kept(x, y)
  BY DEF Kept, KType, Fields
<1> HIDE DEF y
<1>2. Kept(x, InsertToTCBRdyList(y, t))
  BY <1>1, InsertRdyKept, KeptTrans DEF Kept
<1> QED BY <1>2 DEF BootOne, y

LEMMA BootType ==
    ASSUME NEW p \in Seq(0 .. Lowest), DOMAIN p \subseteq Task, NEW spare \in Seq(Task)
    PROVE  LET x == Boot(p, spare) IN KType(x) /\ x.due \subseteq x.flg.rdy
<1> DEFINE n == Len(p)
           s == [i \in DOMAIN p |-> i]
           x == CoInitOS(spare)
           Loop(g, m) == g = [i \in 0 .. m |-> IF i = 0 THEN x ELSE BootOne(g[i - 1], p, s[i])]
           h == CHOOSE g : Loop(g, Len(s))
<1>1. n \in Nat /\ DOMAIN p = 1 .. n
  BY LenProperties
<1>2. Len(s) = n /\ \A i \in 1 .. n : s[i] = i
  BY <1>1
<1>3. Boot(p, spare) = OsSchedUnlock(h[Len(s)])
  BY DEF Boot, Each, BootOne
<1>4. KType(x) /\ x.due \subseteq x.flg.rdy
  BY InitType
<1> HIDE DEF n, s, x
<1>5. \E g : Loop(g, n)
  <2> DEFINE I == {m \in 0 .. n : \E g : Loop(g, m)}
  <2>1. 0 \in I
    <3>1. Loop([i \in 0 .. 0 |-> x], 0)
      OBVIOUS
    <3> HIDE DEF Loop
    <3> QED BY <1>1, <3>1
  <2>2. ASSUME NEW m \in 0 .. n - 1, m \in I PROVE m + 1 \in I
    <3>1. PICK g : Loop(g, m)
      BY <2>2
    <3> DEFINE gg == [i \in 0 .. m + 1 |-> IF i <= m THEN g[i] ELSE BootOne(g[m], p, s[m + 1])]
    <3>2. Loop(gg, m + 1)
      BY <1>1, <3>1
    <3> HIDE DEF Loop, gg
    <3> QED BY <1>1, <3>2
  <2> HIDE DEF I
  <2>3. n \in I
    BY <1>1, <2>1, <2>2, Rounds
  <2> QED BY <2>3 DEF I
<1>6. Loop(h, n)
  BY <1>2, <1>5
<1> HIDE DEF h
<1> DEFINE I == {i \in 0 .. n : Kept(x, h[i])}
<1>7. 0 \in I
  BY <1>1, <1>4, <1>6 DEF Kept
<1>8. ASSUME NEW i \in 0 .. n - 1, i \in I PROVE i + 1 \in I
  <2>1. h[i + 1] = BootOne(h[i], p, i + 1)
    BY <1>1, <1>2, <1>6
  <2>2. i + 1 \in Task /\ p[i + 1] \in Nat
    BY <1>1, KernelAssumption
  <2>3. Kept(x, h[i + 1])
    BY <1>8, <2>1, <2>2, BootOneKept, KeptTrans DEF Kept
  <2> QED BY <1>1, <2>3
<1> HIDE DEF I
<1>9. n \in I
  BY <1>1, <1>7, <1>8, Rounds
<1>10. KType(h[n]) /\ h[n].due \subseteq h[n].flg.rdy
  BY <1>4, <1>9 DEF I, Kept
<1> QED BY <1>2, <1>3, <1>10, UnlockSwitched DEF Switched
=============================================================================
