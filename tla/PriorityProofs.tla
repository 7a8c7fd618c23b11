-------------------------- MODULE PriorityProofs --------------------------
(***************************************************************************)
(* The priorities in TaskSched: the order of the ready list and the task   *)
(* that runs (Parts 1 to 5), and the priorities that the owners of mutexes *)
(* inherit (Parts 6 and 7).                                                *)
(***************************************************************************)
EXTENDS TaskSchedProofs

(***************************************************************************)
(* Part 1.  The ready list in the order of priorities.                     *)
(***************************************************************************)

\* The ready list of x is in the order of priorities, but for the tasks in U,
\* whose priority was written and whose place has still to be found.
Ordered(x, U) ==
  \A i, j \in DOMAIN x.rdy :
    i < j /\ x.rdy[i] \notin U /\ x.rdy[j] \notin U => x.prio[x.rdy[i]] <= x.prio[x.rdy[j]]

\* No ready task has a higher priority than the running one.
Leads(x, U) == \A t \in ToSet(x.rdy) \ U : x.prio[x.run] <= x.prio[t]

\* And if one has, a switch is requested.
Ranked(x, U) == Ordered(x, U) /\ (x.req \/ x.run \in U \/ Leads(x, U))

LEMMA RankedSame ==
    ASSUME NEW x, NEW U, Ranked(x, U), NEW y, y.rdy = x.rdy, y.prio = x.prio, y.run = x.run,
           x.req => y.req
    PROVE  Ranked(y, U)
BY DEF Ranked, Ordered, Leads

LEMMA RankedMore ==
    ASSUME NEW x, NEW U, Ranked(x, {})
    PROVE  Ranked(x, U)
BY DEF Ranked, Ordered, Leads

LEMMA Requested ==
    ASSUME NEW x, NEW U, Ordered(x, U), NEW y, y.rdy = x.rdy, y.prio = x.prio, y.req
    PROVE  Ranked(y, U)
BY DEF Ranked, Ordered

\* The priority of t is written.
LEMMA Retouched ==
    ASSUME NEW x, KType(x), NEW t \in Task, Ranked(x, {t}), NEW y, y.rdy = x.rdy, y.run = x.run,
           x.req => y.req, \A u \in Task \ {t} : y.prio[u] = x.prio[u]
    PROVE  Ranked(y, {t})
<1>1. x.rdy \in Seq(Task) /\ x.run \in Task
  BY DEF KType
<1>2. ToSet(x.rdy) \subseteq Task /\ \A i \in DOMAIN x.rdy : x.rdy[i] \in Task
  BY <1>1, Elements
<1>3. Ordered(y, {t})
  BY <1>2 DEF Ranked, Ordered
<1>4. y.req \/ y.run \in {t} \/ Leads(y, {t})
  BY <1>1, <1>2 DEF Ranked, Leads
<1> QED BY <1>3, <1>4 DEF Ranked

\* A task that does not run and is not ready does not matter.
LEMMA Aside ==
    ASSUME NEW x, KType(x), NEW t, Ranked(x, {t}), t \notin ToSet(x.rdy), t # x.run
    PROVE  Ranked(x, {})
<1>1. x.rdy \in Seq(Task)
  BY DEF KType
<1>2. \A i \in DOMAIN x.rdy : x.rdy[i] # t
  BY <1>1 DEF ToSet
<1> QED BY <1>2 DEF Ranked, Ordered, Leads

\* The head of the list has the highest priority in it.
LEMMA First ==
    ASSUME NEW x, KType(x), Ordered(x, {}), x.rdy # << >>
    PROVE  /\ x.rdy[1] \in Task /\ x.rdy[1] \in ToSet(x.rdy)
           /\ \A t \in ToSet(x.rdy) : x.prio[x.rdy[1]] <= x.prio[t]
<1>1. x.rdy \in Seq(Task) /\ x.prio \in [Task -> Nat]
  BY DEF KType
<1>2. /\ ToSet(x.rdy) = {x.rdy[i] : i \in 1 .. Len(x.rdy)} /\ ToSet(x.rdy) \subseteq Task
      /\ DOMAIN x.rdy = 1 .. Len(x.rdy) /\ Len(x.rdy) \in Nat \ {0}
  BY <1>1, Elements
<1>3. x.rdy[1] \in ToSet(x.rdy) /\ x.rdy[1] \in Task
  BY <1>2
<1>4. ASSUME NEW i \in 1 .. Len(x.rdy) PROVE x.prio[x.rdy[1]] <= x.prio[x.rdy[i]]
  <2>1. CASE i = 1
    <3>1. x.prio[x.rdy[1]] \in Nat
      BY <1>1, <1>3
    <3> QED BY <2>1, <3>1
  <2>2. CASE i # 1
    <3>1. 1 \in DOMAIN x.rdy /\ i \in DOMAIN x.rdy /\ 1 < i
      BY <1>2, <2>2
    <3> QED BY <3>1 DEF Ordered
  <2> QED BY <2>1, <2>2
<1> QED BY <1>2, <1>3, <1>4

\* InsertToTCBRdyList keeps the order, and asks for a switch if the task is
\* first.
LEMMA RankIn ==
    ASSUME NEW x, KType(x), Ordered(x, {}), NEW t \in Task
    PROVE  LET y == InsertToTCBRdyList(x, t)
           IN /\ Ordered(y, {}) /\ (Ranked(x, {}) => Ranked(y, {}))
              /\ x.rdy # << >> /\ x.prio[x.rdy[1]] <= x.prio[t] => (y.req <=> x.req)
              /\ KType(y) /\ ToSet(y.rdy) = ToSet(x.rdy) \cup {t}
              /\ y.run = x.run /\ y.prio = x.prio /\ y.st = [x.st EXCEPT ![t] = "READY"]
              /\ y.ev = x.ev /\ y.srq = x.srq /\ (x.req => y.req) /\ y.lock = x.lock
              /\ y.mid = x.mid /\ y.mx = x.mx /\ y.base = x.base
              /\ y.rdy \in Seq(Task)
              /\ IsInjective(x.rdy) /\ t \notin ToSet(x.rdy) => IsInjective(y.rdy)
<1> DEFINE p == x.prio[t]
           s == x.rdy
           lower == {i \in DOMAIN s : p < x.prio[s[i]]}
           pos == RdyPos(x, p)
           list == InsertAt(s, pos, t)
           slice == IF p = x.prio[x.run] /\ t # x.run /\ x.slice < 0 THEN TimeSlice ELSE x.slice
           req == x.req \/ pos = 1
           intact == x.intact /\ t \notin Linked(x)
           y == InsertToTCBRdyList(x, t)
<1>1. s \in Seq(Task) /\ x.prio \in [Task -> Nat] /\ p \in Nat /\ x.run \in Task
  BY DEF KType
<1>2. /\ ToSet(s) = {s[i] : i \in 1 .. Len(s)} /\ ToSet(s) \subseteq Task
      /\ DOMAIN s = 1 .. Len(s) /\ Len(s) \in Nat
      /\ \A i \in 1 .. Len(s) : s[i] \in Task /\ x.prio[s[i]] \in Nat
  <2>1. \A i \in 1 .. Len(s) : s[i] \in Task
    BY <1>1, ElementOfSeq
  <2> QED BY <1>1, <2>1, Elements
<1>3. pos = IF lower = {} THEN Len(s) + 1 ELSE CHOOSE i \in lower : \A j \in lower : i <= j
  BY DEF RdyPos
<1>4. pos \in 1 .. Len(s) + 1 /\ (\A i \in 1 .. Len(s) : i < pos => x.prio[s[i]] <= p)
      /\ (pos <= Len(s) => p < x.prio[s[pos]])
  <2>1. CASE lower = {}
    <3>1. \A i \in 1 .. Len(s) : ~(p < x.prio[s[i]])
      BY <1>2, <2>1
    <3> QED BY <1>1, <1>2, <1>3, <2>1, <3>1
  <2>2. CASE lower # {}
    <3>1. lower \in SUBSET (1 .. Len(s))
      BY <1>2
    <3> HIDE DEF lower, pos
    <3>2. \E i \in lower : \A j \in lower : i <= j
      BY <1>2, <2>2, <3>1, Least
    <3>3. pos \in lower /\ \A j \in lower : pos <= j
      BY <1>3, <2>2, <3>2
    <3>4. ASSUME NEW i \in 1 .. Len(s), i < pos PROVE x.prio[s[i]] <= p
      <4>1. i \notin lower
        BY <1>2, <3>1, <3>3, <3>4
      <4> QED BY <1>1, <1>2, <4>1 DEF lower
    <3> QED BY <1>2, <3>1, <3>3, <3>4 DEF lower
  <2> QED BY <2>1, <2>2
<1> HIDE DEF pos, lower
<1>5. /\ list \in Seq(Task) /\ Len(list) = Len(s) + 1
      /\ \A j \in 1 .. Len(s) + 1 :
           list[j] = IF j < pos THEN s[j] ELSE IF j = pos THEN t ELSE s[j - 1]
      /\ ToSet(list) = ToSet(s) \cup {t}
      /\ IsInjective(s) /\ t \notin ToSet(s) => IsInjective(list)
  BY <1>1, <1>4, Inserted
<1>6. y = [x EXCEPT !.st[t] = "READY", !.rdy = list, !.req = req, !.slice = slice, !.intact = intact]
  BY DEF InsertToTCBRdyList, pos
<1>7. req <=> x.req \/ pos = 1
  OBVIOUS
<1> HIDE DEF list, slice, req, intact, y
<1>8. /\ y.st = [x.st EXCEPT ![t] = "READY"] /\ y.rdy = list /\ y.req = req
      /\ y.run = x.run /\ y.prio = x.prio /\ y.ev = x.ev /\ y.srq = x.srq /\ y.lock = x.lock
      /\ y.mid = x.mid /\ y.mx = x.mx /\ y.base = x.base
  BY <1>6 DEF KType, Fields
<1>9. \A i, j \in 1 .. Len(s) : i < j => x.prio[s[i]] <= x.prio[s[j]]
  BY <1>2 DEF Ordered
<1>10. \A i \in 1 .. Len(s) : pos <= i => p <= x.prio[s[i]]
  <2> TAKE i \in 1 .. Len(s)
  <2> HAVE pos <= i
  <2>1. pos \in 1 .. Len(s) /\ p < x.prio[s[pos]] /\ x.prio[s[pos]] \in Nat
    BY <1>2, <1>4
  <2>2. x.prio[s[pos]] <= x.prio[s[i]]
    BY <1>2, <1>4, <1>9, <2>1
  <2> QED BY <1>1, <1>2, <2>1, <2>2
<1>11. ASSUME NEW i \in 1 .. Len(s) + 1, NEW j \in 1 .. Len(s) + 1, i < j
       PROVE  x.prio[list[i]] <= x.prio[list[j]]
  <2>1. CASE j < pos
    <3>1. i \in 1 .. Len(s) /\ j \in 1 .. Len(s) /\ list[i] = s[i] /\ list[j] = s[j]
      BY <1>4, <1>5, <1>11, <2>1
    <3> QED BY <1>9, <1>11, <3>1
  <2>2. CASE j = pos
    <3>1. i \in 1 .. Len(s) /\ list[i] = s[i] /\ list[j] = t /\ i < pos
      BY <1>4, <1>5, <1>11, <2>2
    <3> QED BY <1>4, <3>1
  <2>3. CASE j > pos
    <3>1. j - 1 \in 1 .. Len(s) /\ pos <= j - 1 /\ list[j] = s[j - 1]
      BY <1>4, <1>5, <2>3
    <3>2. CASE i < pos
      <4>1. i \in 1 .. Len(s) /\ list[i] = s[i] /\ i < j - 1
        BY <1>4, <1>5, <3>1, <3>2
      <4> QED BY <1>9, <3>1, <4>1
    <3>3. CASE i = pos
      <4>1. list[i] = t
        BY <1>5, <3>3
      <4> QED BY <1>10, <3>1, <4>1
    <3>4. CASE i > pos
      <4>1. i - 1 \in 1 .. Len(s) /\ list[i] = s[i - 1] /\ i - 1 < j - 1
        BY <1>4, <1>5, <1>11, <3>4
      <4> QED BY <1>9, <3>1, <4>1
    <3> QED BY <1>4, <3>2, <3>3, <3>4
  <2> QED BY <1>4, <2>1, <2>2, <2>3
<1>12. Ordered(y, {})
  <2>1. DOMAIN list = 1 .. Len(s) + 1
    BY <1>5
  <2> QED BY <1>8, <1>11, <2>1 DEF Ordered
<1>13. ASSUME Ranked(x, {}) PROVE y.req \/ Leads(y, {})
  <2> SUFFICES ASSUME ~req PROVE Leads(y, {})
    BY <1>8
  <2>1. ~x.req /\ pos # 1
    BY <1>7
  <2>2. Leads(x, {})
    BY <1>13, <2>1 DEF Ranked
  <2>3. 1 \in 1 .. Len(s) /\ x.prio[s[1]] <= p
    BY <1>4, <2>1
  <2>4. x.prio[x.run] <= x.prio[s[1]] /\ x.prio[s[1]] \in Nat /\ x.prio[x.run] \in Nat
    BY <1>1, <1>2, <2>2, <2>3 DEF Leads
  <2>5. x.prio[x.run] <= x.prio[t]
    BY <1>1, <2>3, <2>4
  <2> QED BY <1>5, <1>8, <2>2, <2>5 DEF Leads
<1>14. ASSUME s # << >>, x.prio[s[1]] <= p PROVE y.req <=> x.req
  <2>1. 1 \in 1 .. Len(s)
    BY <1>1, <1>2, <1>14, Elements
  <2>2. pos # 1
    BY <1>1, <1>2, <1>4, <1>14, <2>1
  <2> QED BY <1>8, <2>2 DEF req
<1>15. KType(y)
  BY InsertRdyKept DEF Kept, y
<1> QED BY <1>5, <1>7, <1>8, <1>12, <1>13, <1>14, <1>15 DEF Ranked, y

\* RemoveFromTCBRdyList keeps the order of the others.
LEMMA RankOut ==
    ASSUME NEW x, KType(x), IsInjective(x.rdy), NEW t \in Task, Ordered(x, {t})
    PROVE  LET y == RemoveFromTCBRdyList(x, t)
           IN /\ Ordered(y, {}) /\ ToSet(y.rdy) = ToSet(x.rdy) \ {t}
              /\ IsInjective(y.rdy)
              /\ y.run = x.run /\ y.prio = x.prio /\ y.st = x.st /\ y.req = x.req
              /\ y.ev = x.ev /\ y.srq = x.srq /\ y.lock = x.lock /\ KType(y)
              /\ y.mid = x.mid /\ y.mx = x.mx /\ y.base = x.base
<1> DEFINE s == x.rdy
           list == Unlinked(s, t)
           intact == x.intact /\ t \in ToSet(s)
           y == RemoveFromTCBRdyList(x, t)
<1>1. s \in Seq(Task)
  BY DEF KType
<1>2. KType(y)
  BY RemoveRdyKept DEF Kept
<1>3. y = [x EXCEPT !.rdy = list, !.intact = intact]
  BY DEF RemoveFromTCBRdyList
<1>4. list \in Seq(Task) /\ IsInjective(list) /\ ToSet(list) = ToSet(s) \ {t}
  BY <1>1, UnlinkedOnce
<1>5. /\ ToSet(s) = {s[i] : i \in 1 .. Len(s)} /\ DOMAIN s = 1 .. Len(s) /\ Len(s) \in Nat
  BY <1>1, Elements
<1>6. CASE t \notin ToSet(s)
  <2>1. list = s
    BY <1>1, <1>6, FoundPlace DEF Unlinked
  <2> HIDE DEF list, intact, y
  <2>2. /\ y.rdy = s /\ y.run = x.run /\ y.prio = x.prio /\ y.st = x.st /\ y.req = x.req
        /\ y.ev = x.ev /\ y.srq = x.srq /\ y.lock = x.lock
        /\ y.mid = x.mid /\ y.mx = x.mx /\ y.base = x.base
    BY <1>3, <2>1 DEF KType, Fields
  <2>3. \A i \in DOMAIN s : s[i] # t
    BY <1>5, <1>6
  <2>4. Ordered(y, {})
    BY <2>2, <2>3 DEF Ordered
  <2> QED BY <1>2, <1>4, <2>1, <2>2, <2>4 DEF y
<1>7. CASE t \in ToSet(s)
  <2> DEFINE pos == PlaceOf(s, t)
  <2>1. pos \in 1 .. Len(s) /\ s[pos] = t
    BY <1>1, <1>7, FoundPlace
  <2>2. list = RemoveAt(s, pos)
    BY <1>5, <2>1 DEF Unlinked
  <2> HIDE DEF pos, list, intact, y
  <2>3. /\ Len(list) = Len(s) - 1
        /\ \A j \in 1 .. Len(s) - 1 : list[j] = IF j < pos THEN s[j] ELSE s[j + 1]
    BY <1>1, <2>1, <2>2, Removed
  <2>4. /\ y.rdy = list /\ y.run = x.run /\ y.prio = x.prio /\ y.st = x.st /\ y.req = x.req
        /\ y.ev = x.ev /\ y.srq = x.srq /\ y.lock = x.lock
        /\ y.mid = x.mid /\ y.mx = x.mx /\ y.base = x.base
    BY <1>3 DEF KType, Fields
  <2>5. DOMAIN list = 1 .. Len(s) - 1
    BY <1>4, <1>5, <2>3, LenProperties
  <2>6. ASSUME NEW i \in 1 .. Len(s) - 1
        PROVE  \E a \in 1 .. Len(s) : list[i] = s[a] /\ s[a] # t /\ a = (IF i < pos THEN i ELSE i + 1)
    <3> DEFINE a == IF i < pos THEN i ELSE i + 1
    <3>1. a \in 1 .. Len(s) /\ list[i] = s[a]
      BY <1>5, <2>1, <2>3
    <3>2. s[a] # t
      <4>1. list[i] \in ToSet(list)
        BY <2>5 DEF ToSet
      <4> QED BY <1>4, <3>1, <4>1
    <3> QED BY <3>1, <3>2
  <2>7. ASSUME NEW i \in 1 .. Len(s) - 1, NEW j \in 1 .. Len(s) - 1, i < j
        PROVE  x.prio[list[i]] <= x.prio[list[j]]
    <3>1. PICK a \in 1 .. Len(s) : list[i] = s[a] /\ s[a] # t /\ a = (IF i < pos THEN i ELSE i + 1)
      BY <2>6
    <3>2. PICK b \in 1 .. Len(s) : list[j] = s[b] /\ s[b] # t /\ b = (IF j < pos THEN j ELSE j + 1)
      BY <2>6
    <3>3. a < b
      BY <2>1, <2>7, <3>1, <3>2
    <3> QED BY <1>5, <3>1, <3>2, <3>3 DEF Ordered
  <2>8. Ordered(y, {})
    BY <2>4, <2>5, <2>7 DEF Ordered
  <2> QED BY <1>2, <1>4, <2>4, <2>8 DEF y
<1> QED BY <1>6, <1>7

(***************************************************************************)
(* Part 2.  CoSetPriority and the priorities of owners.                    *)
(***************************************************************************)

\* A kernel state in which the running task runs, the ready list has ready
\* tasks, each once, and nobody waits for an event.
Lined(x) ==
  /\ KType(x) /\ x.ev = [t \in Task |-> InvalidId] /\ x.srq = << >>
  /\ IsInjective(x.rdy)
  /\ \A t \in ToSet(x.rdy) : x.st[t] = "READY"
  /\ \A t \in Task : x.st[t] = "RUNNING" <=> t = x.run

LEMMA LinedSame ==
    ASSUME NEW x, Lined(x), NEW y, KType(y), y.rdy = x.rdy, y.st = x.st, y.run = x.run,
           y.ev = x.ev, y.srq = x.srq
    PROVE  Lined(y)
BY DEF Lined

\* What keeps a state in the order of priorities and leaves alone whatever
\* the other tasks are about.
Sorted(x, y) ==
  /\ Lined(y) /\ Ranked(y, {}) /\ y.st = x.st /\ y.run = x.run /\ y.lock = x.lock

LEMMA SortedTrans ==
    ASSUME NEW x, NEW y, NEW z, Sorted(x, y), Sorted(y, z)
    PROVE  Sorted(x, z)
BY DEF Sorted

\* A ready task is moved to its place.
LEMMA Moved ==
    ASSUME NEW x, Lined(x), NEW t \in Task, Ranked(x, {t}), x.st[t] = "READY"
    PROVE  LET y == InsertToTCBRdyList(RemoveFromTCBRdyList(x, t), t)
           IN Sorted(x, y) /\ y.prio = x.prio /\ y.mx = x.mx /\ y.mid = x.mid /\ y.base = x.base
<1> DEFINE w == RemoveFromTCBRdyList(x, t)
           y == InsertToTCBRdyList(w, t)
<1>1. KType(x) /\ IsInjective(x.rdy) /\ t # x.run /\ x.st \in [Task -> Alive \cup {"DORMANT"}]
  BY DEF Lined, KType
<1>2. /\ Ordered(w, {}) /\ ToSet(w.rdy) = ToSet(x.rdy) \ {t} /\ IsInjective(w.rdy)
      /\ w.run = x.run /\ w.prio = x.prio /\ w.st = x.st /\ w.req = x.req
      /\ w.ev = x.ev /\ w.srq = x.srq /\ w.lock = x.lock /\ KType(w)
      /\ w.mid = x.mid /\ w.mx = x.mx /\ w.base = x.base
  BY <1>1, RankOut DEF Ranked
<1> HIDE DEF w
<1>3. Ranked(w, {})
  <2>1. w.req \/ Leads(w, {})
    BY <1>1, <1>2 DEF Ranked, Leads
  <2> QED BY <1>2, <2>1 DEF Ranked
<1>4. /\ Ranked(y, {}) /\ ToSet(y.rdy) = ToSet(w.rdy) \cup {t}
      /\ y.run = w.run /\ y.prio = w.prio /\ y.st = [w.st EXCEPT ![t] = "READY"]
      /\ y.ev = w.ev /\ y.srq = w.srq /\ y.lock = w.lock
      /\ y.mid = w.mid /\ y.mx = w.mx /\ y.base = w.base
      /\ IsInjective(y.rdy)
  <2>1. t \notin ToSet(w.rdy)
    BY <1>2
  <2> QED BY <1>2, <1>3, <2>1, RankIn DEF Ranked
<1>5. KType(y)
  BY <1>2, InsertRdyKept DEF Kept
<1> HIDE DEF y
<1>6. y.st = x.st
  BY <1>1, <1>2, <1>4
<1>7. Lined(y)
  <2>1. \A u \in ToSet(y.rdy) : y.st[u] = "READY"
    BY <1>2, <1>4, <1>6 DEF Lined
  <2> QED BY <1>2, <1>4, <1>5, <1>6, <2>1 DEF Lined
<1> QED BY <1>2, <1>4, <1>6, <1>7 DEF Sorted, y, w

\* The end of CoSetPriority for the running task.
LEMMA Compared ==
    ASSUME NEW x, Lined(x), Ranked(x, {x.run}), NEW req,
           req <=> x.req \/ x.prio[x.run] > RdyPrio(x)
    PROVE  Sorted(x, [x EXCEPT !.req = req])
<1> DEFINE y == [x EXCEPT !.req = req]
<1>1. KType(x) /\ x.run \in Task /\ x.run \notin ToSet(x.rdy) /\ x.prio \in [Task -> Nat] /\ x.rdy \in Seq(Task)
  <2>1. KType(x) /\ x.run \in Task /\ x.prio \in [Task -> Nat] /\ x.rdy \in Seq(Task)
    BY DEF Lined, KType
  <2>2. x.st[x.run] = "RUNNING"
    BY <2>1 DEF Lined
  <2> QED BY <2>1, <2>2 DEF Lined
<1>2. /\ KType(y) /\ y.st = x.st /\ y.run = x.run /\ y.lock = x.lock /\ y.prio = x.prio
      /\ y.rdy = x.rdy /\ y.ev = x.ev /\ y.srq = x.srq /\ y.req = req
  BY <1>1 DEF KType, Fields
<1> HIDE DEF y
<1>3. Lined(y)
  BY <1>2, LinedSame
<1>4. Ordered(x, {})
  <2>1. \A i \in DOMAIN x.rdy : x.rdy[i] # x.run
    BY <1>1 DEF ToSet
  <2> QED BY <2>1 DEF Ranked, Ordered
<1>5. y.req \/ Leads(y, {})
  <2> SUFFICES ASSUME ~req PROVE Leads(y, {})
    BY <1>2
  <2>1. ~(x.prio[x.run] > RdyPrio(x))
    OBVIOUS
  <2>2. ASSUME NEW t \in ToSet(x.rdy) PROVE x.prio[x.run] <= x.prio[t]
    <3>1. x.rdy # << >>
      BY <1>1, Elements
    <3>2. /\ x.rdy[1] \in Task /\ x.prio[x.rdy[1]] <= x.prio[t] /\ t \in Task
      <4>1. t \in Task
        BY <1>1, Elements
      <4> QED BY <1>1, <1>4, <3>1, <4>1, First
    <3>3. x.prio[x.run] <= x.prio[x.rdy[1]]
      BY <1>1, <2>1, <3>1, <3>2 DEF RdyPrio
    <3>4. x.prio[x.run] \in Nat /\ x.prio[x.rdy[1]] \in Nat /\ x.prio[t] \in Nat
      BY <1>1, <3>2
    <3> QED BY <3>2, <3>3, <3>4
  <2> QED BY <1>2, <2>2 DEF Leads
<1>6. Ranked(y, {})
  BY <1>2, <1>4, <1>5 DEF Ranked, Ordered
<1> QED BY <1>2, <1>3, <1>6 DEF Sorted, y

\* A state that differs in no field that matters for the order.
LEMMA SortedSame ==
    ASSUME NEW x, Lined(x), Ranked(x, {}), NEW y, KType(y), y.rdy = x.rdy, y.st = x.st,
           y.run = x.run, y.ev = x.ev, y.srq = x.srq, y.prio = x.prio, y.req = x.req,
           y.lock = x.lock
    PROVE  Sorted(x, y)
<1>1. Lined(y)
  BY LinedSame
<1>2. Ranked(y, {})
  BY RankedSame
<1> QED BY <1>1, <1>2 DEF Sorted

\* No task of a state of Lined waits for an event.
LEMMA NoPlace ==
    ASSUME NEW x, Lined(x), NEW t \in Task
    PROVE  ReorderWaiting(x, t) = x
BY DEF ReorderWaiting, Lined

\* A call of CoSetPriority that is left to make.
Sorts(x, c) == Sorted(x, c.k) /\ c.task \in Task \cup {InvalidId} /\ c.prio \in Nat

LEMMA SortsDone ==
    ASSUME NEW x, NEW y, Sorted(x, y)
    PROVE  Sorts(x, Done(y))
BY DEF Sorts, Done

\* A task that waits is neither ready nor running.
LEMMA OutOf ==
    ASSUME NEW x, Lined(x), NEW t \in Task, x.st[t] \notin {"READY", "RUNNING"}
    PROVE  t \notin ToSet(x.rdy) /\ t # x.run
BY DEF Lined

LEMMA TailSorted ==
    ASSUME NEW x, Lined(x), NEW t \in Task, Ranked(x, {t}), NEW seen \in Alive, seen = x.st[t]
    PROVE  Sorts(x, SetPriorityTail(x, t, seen))
<1> DEFINE m == x.mid[t]
           h == Highest(x, x.mx[m].list, x.mx[m].orig, x.mx[m].own)
           b == [x.mx[m] EXCEPT !.hipri = h.id]
           k0 == [x EXCEPT !.mx[m].hipri = h.id]
           k1 == ReorderWaiting(k0, t)
<1>0. KType(x)
  BY DEF Lined
<1>1. CASE seen = "READY"
  <2> DEFINE y == InsertToTCBRdyList(RemoveFromTCBRdyList(x, t), t)
  <2>1. SetPriorityTail(x, t, seen) = Done(y)
    BY <1>1 DEF SetPriorityTail
  <2>2. Sorted(x, y)
    BY <1>1, Moved
  <2> QED BY <2>1, <2>2, SortsDone
<1>2. CASE seen = "RUNNING"
  <2> DEFINE req == x.req \/ x.prio[t] > RdyPrio(x)
             y == [x EXCEPT !.req = req]
  <2>1. SetPriorityTail(x, t, seen) = Done(y)
    BY <1>2 DEF SetPriorityTail
  <2>2. t = x.run
    BY <1>2 DEF Lined
  <2>3. Ranked(x, {x.run})
    BY <2>2
  <2>4. req <=> x.req \/ x.prio[x.run] > RdyPrio(x)
    BY <2>2
  <2> HIDE DEF req
  <2>5. Sorted(x, y)
    BY <2>3, <2>4, Compared
  <2> QED BY <2>1, <2>5, SortsDone
<1>3. CASE seen = "WAITING"
  <2>1. Ranked(x, {})
    BY <1>0, <1>3, OutOf, Aside
  <2>2. Sorted(x, x)
    BY <1>0, <2>1, SortedSame
  <2>3. CASE m = InvalidId
    <3>1. SetPriorityTail(x, t, seen) = Done(x)
      BY <1>3, <2>3, NoPlace DEF SetPriorityTail
    <3> QED BY <2>2, <3>1, SortsDone
  <2>4. CASE m # InvalidId
    <3>1. m \in Mutex /\ x.mx[m] \in MutexType
      BY <1>0, <2>4 DEF KType
    <3>2. x.mx[m].own \in Task \cup {InvalidId}
      BY <3>1 DEF MutexType
    <3>3. h.id \in Task \cup {InvalidId} /\ h.prio \in Nat
      BY <1>0, <3>1, <3>2, HighestType DEF MutexType
    <3>4. SetPriorityTail(x, t, seen) \in {Done(k1), [k |-> k1, task |-> x.mx[m].own, prio |-> h.prio]}
      BY <1>3, <2>4 DEF SetPriorityTail
    <3> HIDE DEF h
    <3>5. b \in MutexType
      BY <3>1, <3>3 DEF MutexType
    <3>6. k0 = [x EXCEPT !.mx[m] = b]
      BY <1>0, <3>1 DEF KType, Fields
    <3> HIDE DEF b, k0
    <3>7. /\ KType(k0) /\ k0.rdy = x.rdy /\ k0.st = x.st /\ k0.run = x.run /\ k0.ev = x.ev
          /\ k0.srq = x.srq /\ k0.prio = x.prio /\ k0.req = x.req /\ k0.lock = x.lock
      BY <1>0, <3>1, <3>5, <3>6 DEF KType, Fields
    <3>8. Sorted(x, k0)
      BY <2>1, <3>7, SortedSame
    <3>9. k1 = k0
      BY <3>8, NoPlace DEF Sorted
    <3> HIDE DEF k1, m
    <3>10. Sorts(x, [k |-> k1, task |-> x.mx[m].own, prio |-> h.prio]) /\ Sorts(x, Done(k1))
      BY <3>2, <3>3, <3>8, <3>9, SortsDone DEF Sorts
    <3> QED BY <3>4, <3>10
  <2> QED BY <2>3, <2>4
<1> QED BY <1>1, <1>2, <1>3 DEF Alive

\* The assignment of the priority.
LEMMA HeadRanked ==
    ASSUME NEW x, Lined(x), Ranked(x, {}), NEW t \in Task, NEW p \in Nat
    PROVE  LET y == SetPriorityHead(x, t, p)
           IN /\ Lined(y) /\ Ranked(y, {t}) /\ y.st = x.st /\ y.run = x.run /\ y.lock = x.lock
              /\ KeepsRaised(x, t, p) => Sorted(x, y)
<1> DEFINE m == x.mid[t]
           y1 == IF Holds(x, t) THEN [x EXCEPT !.mx[m].orig = p] ELSE x
           y2 == [y1 EXCEPT !.prio[t] = p]
           y == SetPriorityHead(x, t, p)
<1>0. KType(x)
  BY DEF Lined
<1>1. /\ KType(y1) /\ y1.rdy = x.rdy /\ y1.st = x.st /\ y1.run = x.run /\ y1.ev = x.ev
      /\ y1.srq = x.srq /\ y1.prio = x.prio /\ y1.req = x.req /\ y1.lock = x.lock
  <2>1. CASE Holds(x, t)
    <3>1. m \in Mutex /\ x.mx[m] \in MutexType
      BY <1>0, <2>1 DEF KType, Holds
    <3> QED BY <1>0, <2>1, <3>1 DEF KType, Fields, MutexType
  <2>2. CASE ~Holds(x, t)
    BY <1>0, <2>2
  <2> QED BY <2>1, <2>2
<1>2. y = IF KeepsRaised(x, t, p) THEN y1 ELSE y2
  BY DEF SetPriorityHead
<1> HIDE DEF y1
<1>3. /\ KType(y2) /\ y2.rdy = x.rdy /\ y2.st = x.st /\ y2.run = x.run /\ y2.ev = x.ev
      /\ y2.srq = x.srq /\ y2.req = x.req /\ y2.lock = x.lock
      /\ y2.prio = [x.prio EXCEPT ![t] = p]
  BY <1>1 DEF KType, Fields
<1> HIDE DEF y2, y
<1>4. Sorted(x, y1)
  BY <1>1, SortedSame
<1>5. Ranked(y1, {t}) /\ Lined(y1)
  BY <1>4, RankedMore DEF Sorted
<1>6. Lined(y2)
  BY <1>3, LinedSame
<1>7. Ranked(y2, {t})
  <2>1. \A u \in Task \ {t} : y2.prio[u] = x.prio[u]
    BY <1>0, <1>3 DEF KType
  <2>2. Ranked(x, {t})
    BY RankedMore
  <2> QED BY <1>0, <1>3, <2>1, <2>2, Retouched
<1>8. CASE KeepsRaised(x, t, p)
  <2>1. y = y1
    BY <1>2, <1>8
  <2> QED BY <1>1, <1>4, <1>5, <2>1 DEF y
<1>9. CASE ~KeepsRaised(x, t, p)
  <2>1. y = y2
    BY <1>2, <1>9
  <2> QED BY <1>3, <1>6, <1>7, <1>9, <2>1 DEF y
<1> QED BY <1>8, <1>9

LEMMA OnceSorted ==
    ASSUME NEW x, NEW c, Sorts(x, c)
    PROVE  Sorts(x, SetPriorityOnce(c))
<1> DEFINE t == c.task
           y == SetPriorityHead(c.k, t, c.prio)
           d == SetPriorityTail(y, t, c.k.st[t])
<1>0. Sorted(x, c.k) /\ Lined(c.k) /\ Ranked(c.k, {}) /\ c.prio \in Nat /\ t \in Task \cup {InvalidId}
  BY DEF Sorts, Sorted
<1>1. InvalidId \notin Task
  BY KernelAssumption
<1>2. SUFFICES ASSUME t # InvalidId PROVE Sorts(x, SetPriorityOnce(c))
  BY DEF SetPriorityOnce
<1>3. t \in Task /\ c.k.st[t] \in Alive \cup {"DORMANT"}
  BY <1>0, <1>2 DEF Lined, KType
<1>4. /\ Lined(y) /\ Ranked(y, {t}) /\ y.st = c.k.st /\ y.run = c.k.run /\ y.lock = c.k.lock
      /\ KeepsRaised(c.k, t, c.prio) => Sorted(c.k, y)
  BY <1>0, <1>3, HeadRanked
<1>5. CASE c.k.st[t] = "DORMANT"
  <2>1. SetPriorityOnce(c) = Done(c.k)
    BY <1>2, <1>5 DEF SetPriorityOnce
  <2> QED BY <1>0, <2>1, SortsDone
<1>6. CASE c.k.st[t] # "DORMANT"
  <2>1. \/ SetPriorityOnce(c) = Done(c.k)
        \/ SetPriorityOnce(c) = Done(y) /\ KeepsRaised(c.k, t, c.prio)
        \/ SetPriorityOnce(c) = d
    BY <1>2 DEF SetPriorityOnce
  <2>2. Sorts(y, d)
    <3> HIDE DEF y
    <3> QED BY <1>3, <1>4, <1>6, TailSorted
  <2> HIDE DEF y, d
  <2>3. Sorts(x, d)
    BY <1>0, <1>4, <2>2 DEF Sorts, Sorted
  <2>4. Sorts(x, Done(c.k)) /\ (KeepsRaised(c.k, t, c.prio) => Sorts(x, Done(y)))
    BY <1>0, <1>4, SortsDone, SortedTrans
  <2> QED BY <2>1, <2>3, <2>4
<1> QED BY <1>5, <1>6

LEMMA FinishedSorted ==
    ASSUME NEW x, NEW c, Sorts(x, c)
    PROVE  Sorted(x, Finished(c))
<1> DEFINE n == Cardinality(Task)
           s == [i \in 1 .. n |-> i]
           Loop(g, m) == g = [i \in 0 .. m |-> IF i = 0 THEN c ELSE SetPriorityOnce(g[i - 1])]
           h == CHOOSE g : Loop(g, Len(s))
<1>1. n \in Nat
  BY KernelAssumption, FS_CardinalityType
<1>2. Len(s) = n
  BY <1>1
<1>3. Finished(c) = h[Len(s)].k
  BY DEF Finished, Each
<1> HIDE DEF n, s
<1>4. \E g : Loop(g, n)
  <2> DEFINE I == {m \in 0 .. n : \E g : Loop(g, m)}
  <2>1. 0 \in I
    <3>1. Loop([i \in 0 .. 0 |-> c], 0)
      OBVIOUS
    <3> HIDE DEF Loop
    <3> QED BY <1>1, <3>1
  <2>2. ASSUME NEW m \in 0 .. n - 1, m \in I PROVE m + 1 \in I
    <3>1. PICK g : Loop(g, m)
      BY <2>2
    <3> DEFINE gg == [i \in 0 .. m + 1 |-> IF i <= m THEN g[i] ELSE SetPriorityOnce(g[m])]
    <3>2. Loop(gg, m + 1)
      BY <1>1, <3>1
    <3> HIDE DEF Loop, gg
    <3> QED BY <1>1, <3>2
  <2> HIDE DEF I
  <2>3. n \in I
    BY <1>1, <2>1, <2>2, Rounds
  <2> QED BY <2>3 DEF I
<1>5. Loop(h, n)
  BY <1>2, <1>4
<1> HIDE DEF h
<1> DEFINE I == {i \in 0 .. n : Sorts(x, h[i])}
<1>6. 0 \in I
  BY <1>1, <1>5
<1>7. ASSUME NEW i \in 0 .. n - 1, i \in I PROVE i + 1 \in I
  <2>1. h[i + 1] = SetPriorityOnce(h[i])
    BY <1>1, <1>5
  <2>2. Sorts(x, h[i + 1])
    BY <1>7, <2>1, OnceSorted
  <2> QED BY <1>1, <2>2
<1> HIDE DEF I
<1>8. n \in I
  BY <1>1, <1>6, <1>7, Rounds
<1> QED BY <1>2, <1>3, <1>8 DEF I, Sorts

LEMMA SetPrioritySorted ==
    ASSUME NEW x, Lined(x), Ranked(x, {}), NEW t \in Task \cup {InvalidId}, NEW p \in Nat
    PROVE  Sorted(x, SetPriority(x, t, p))
<1>1. Sorts(x, [k |-> x, task |-> t, prio |-> p])
  BY DEF Sorts, Sorted
<1> QED BY <1>1, FinishedSorted DEF SetPriority

(***************************************************************************)
(* Part 3.  The end of delays, Schedule and OsSchedUnlock.                 *)
(***************************************************************************)

\* What the end of delays leaves of the priorities.
Unraised(x, y) ==
  /\ y.prio = x.prio /\ y.base = x.base /\ y.srq = x.srq /\ y.mx = x.mx /\ y.lock = x.lock
  /\ y.free = x.free

LEMMA InsertUnraised ==
    ASSUME NEW x, KType(x), NEW t \in Task
    PROVE  Unraised(x, InsertToTCBRdyList(x, t))
  BY DEF InsertToTCBRdyList, Unraised, KType, Fields

LEMMA RemoveUnraised ==
    ASSUME NEW x, KType(x), NEW t \in Task
    PROVE  Unraised(x, RemoveFromTCBRdyList(x, t))
  BY DEF RemoveFromTCBRdyList, Unraised, KType, Fields

LEMMA ExpireRanked ==
    ASSUME NEW x, KType(x), NEW t \in Task, x.dly # << >>
    PROVE  LET y == Expire(x, t) IN Unraised(x, y) /\ (Ranked(x, {}) => Ranked(y, {}))
<1> DEFINE k1 == IF x.ev[t] # InvalidId THEN RemoveEventWaittingList(x, t) ELSE x
           k2 == IF Pnode(x, t) THEN RemoveLinkNode(k1, t) ELSE k1
           k3 == [k2 EXCEPT !.tick[t] = Invalid, !.dly = Tail(@)]
           y == Expire(x, t)
           Same(z) == Unraised(x, z) /\ z.rdy = x.rdy /\ z.run = x.run /\ z.req = x.req
<1>1. y = InsertToTCBRdyList(k3, t)
  BY DEF Expire
<1>2. KType(k1) /\ k1.dly = x.dly
  BY RemoveWaitingKept DEF Kept
<1>3. Same(k1)
  BY DEF RemoveEventWaittingList, KType, Fields, Unraised
<1> HIDE DEF k1
<1>4. KType(k2) /\ k2.dly = x.dly
  BY <1>2, LinkNodeKept DEF Kept
<1>5. Same(k2)
  <2>1. CASE Pnode(x, t)
    <3> DEFINE w == RemoveLinkNode(k1, t)
    <3>1. /\ w.prio = k1.prio /\ w.base = k1.base /\ w.srq = k1.srq /\ w.mx = k1.mx
          /\ w.lock = k1.lock /\ w.free = k1.free
          /\ w.rdy = k1.rdy /\ w.run = k1.run /\ w.req = k1.req
      BY <1>2 DEF RemoveLinkNode, KType, Fields
    <3> HIDE DEF w
    <3>2. Same(w)
      BY <1>3, <3>1 DEF Unraised
    <3> QED BY <2>1, <3>2 DEF w
  <2>2. CASE ~Pnode(x, t)
    <3>1. k2 = k1
      BY <2>2
    <3> HIDE DEF k2
    <3> QED BY <1>3, <3>1
  <2> QED BY <2>1, <2>2
<1> HIDE DEF k2
<1>6. Tail(x.dly) \in Seq(Task)
  BY HeadTailProperties DEF KType
<1>7. KType(k3) /\ Same(k3)
  BY <1>4, <1>5, <1>6 DEF KType, Fields, Unraised
<1> HIDE DEF k3
<1>8. Ranked(x, {}) => Ranked(k3, {})
  BY <1>7, RankedSame DEF Unraised
<1> HIDE DEF y, Same
<1>9. Ranked(x, {}) => Ranked(y, {})
  <2> SUFFICES ASSUME Ranked(x, {}) PROVE Ranked(y, {})
    OBVIOUS
  <2>1. Ranked(k3, {}) /\ Ordered(k3, {})
    BY <1>8 DEF Ranked
  <2> QED BY <1>1, <1>7, <2>1, RankIn
<1>10. Unraised(k3, y)
  BY <1>1, <1>7, InsertUnraised
<1>11. Unraised(x, y)
  BY <1>7, <1>10 DEF Unraised, Same
<1> QED BY <1>9, <1>11 DEF y

LEMMA DisposeRanked ==
    ASSUME NEW x, KType(x)
    PROVE  LET y == TimeDispose(x) IN Unraised(x, y) /\ (Ranked(x, {}) => Ranked(y, {}))
<1> DEFINE n == CHOOSE m \in 0 .. Len(x.dly) :
                  /\ \A i \in 1 .. m : x.tick[x.dly[i]] = 0
                  /\ m = Len(x.dly) \/ x.tick[x.dly[m + 1]] # 0
           s == SubSeq(x.dly, 1, n)
           Loop(g, m) == g = [i \in 0 .. m |-> IF i = 0 THEN x ELSE Expire(g[i - 1], s[i])]
           h == CHOOSE g : Loop(g, Len(s))
<1>1. x.dly \in Seq(Task) /\ Len(x.dly) \in Nat
  BY LenProperties DEF KType
<1>2. n \in 0 .. Len(x.dly)
  BY <1>1, ExpiredCount
<1>3. TimeDispose(x) = h[Len(s)]
  BY DEF TimeDispose, Each
<1> HIDE DEF n
<1>4. Len(s) = n /\ \A i \in 1 .. n : s[i] \in Task
  <2>1. \A i \in 1 .. n : x.dly[i] \in Task
    BY <1>1, <1>2, ElementOfSeq
  <2>2. s \in Seq(Task) /\ Len(s) = n
    BY <1>1, <1>2, <2>1, SubSeqProperties
  <2> HIDE DEF s
  <2> QED BY <2>2, ElementOfSeq
<1> HIDE DEF s
<1>5. \E g : Loop(g, n)
  <2> DEFINE I == {m \in 0 .. n : \E g : Loop(g, m)}
  <2>1. 0 \in I
    <3>1. Loop([i \in 0 .. 0 |-> x], 0)
      OBVIOUS
    <3> HIDE DEF Loop
    <3> QED BY <1>2, <3>1
  <2>2. ASSUME NEW m \in 0 .. n - 1, m \in I PROVE m + 1 \in I
    <3>1. PICK g : Loop(g, m)
      BY <2>2
    <3> DEFINE gg == [i \in 0 .. m + 1 |-> IF i <= m THEN g[i] ELSE Expire(g[m], s[m + 1])]
    <3>2. Loop(gg, m + 1)
      BY <1>2, <3>1
    <3> HIDE DEF Loop, gg
    <3> QED BY <1>2, <3>2
  <2> HIDE DEF I
  <2>3. n \in I
    BY <1>2, <2>1, <2>2, Rounds
  <2> QED BY <2>3 DEF I
<1>6. Loop(h, n)
  BY <1>4, <1>5
<1> HIDE DEF h
<1> DEFINE Good(z) == KType(z) /\ Unraised(x, z) /\ (Ranked(x, {}) => Ranked(z, {}))
           I == {i \in 0 .. n : Good(h[i]) /\ Len(h[i].dly) = Len(x.dly) - i}
<1>7. 0 \in I
  BY <1>1, <1>2, <1>6 DEF Unraised
<1>8. ASSUME NEW i \in 0 .. n - 1, i \in I PROVE i + 1 \in I
  <2>1. h[i + 1] = Expire(h[i], s[i + 1]) /\ s[i + 1] \in Task
    BY <1>2, <1>4, <1>6
  <2>2. h[i].dly \in Seq(Task) /\ h[i].dly # << >>
    BY <1>1, <1>2, <1>8 DEF KType
  <2>3. Len(Tail(h[i].dly)) = Len(x.dly) - (i + 1)
    <3>1. Len(h[i].dly) = Len(x.dly) - i
      BY <1>8
    <3> QED BY <1>1, <1>2, <2>2, <3>1, HeadTailProperties
  <2>4. KType(h[i + 1]) /\ h[i + 1].dly = Tail(h[i].dly)
    BY <1>8, <2>1, <2>2, ExpireKept DEF Kept
  <2>5. Unraised(h[i], h[i + 1]) /\ (Ranked(x, {}) => Ranked(h[i + 1], {}))
    BY <1>8, <2>1, <2>2, ExpireRanked
  <2>6. Unraised(x, h[i + 1])
    BY <1>8, <2>5 DEF Unraised
  <2>7. Len(h[i + 1].dly) = Len(x.dly) - (i + 1) /\ i + 1 \in 0 .. n
    BY <1>2, <2>3, <2>4
  <2> QED BY <2>4, <2>5, <2>6, <2>7
<1> HIDE DEF I
<1>9. n \in I
  BY <1>2, <1>7, <1>8, Rounds
<1> QED BY <1>3, <1>4, <1>9 DEF I

LEMMA RespondRanked ==
    ASSUME NEW x, KType(x), x.srq = << >>
    PROVE  LET y == RespondSRQ(x) IN Unraised(x, y) /\ (Ranked(x, {}) => Ranked(y, {}))
<1> DEFINE d == TimeDispose(x)
           k0 == IF x.timeReq THEN d ELSE x
           k1 == IF x.timeReq THEN [d EXCEPT !.timeReq = FALSE] ELSE x
           k2 == [k1 EXCEPT !.srq = << >>]
           h == CHOOSE g : g = [i \in 0 .. Len(k1.srq) |-> IF i = 0 THEN k2 ELSE Serve(g[i - 1], k1.srq[i])]
<1>1. KType(d) /\ Unraised(x, d) /\ (Ranked(x, {}) => Ranked(d, {}))
  BY TimeDisposeKept, DisposeRanked DEF Kept
<1>2. RespondSRQ(x) = h[Len(k1.srq)]
  BY DEF RespondSRQ, Each
<1> HIDE DEF d
<1>3. KType(k0) /\ Unraised(x, k0) /\ (Ranked(x, {}) => Ranked(k0, {}))
  <2>1. Unraised(x, x)
    BY DEF Unraised
  <2> QED BY <1>1, <2>1
<1>4. /\ KType(k1) /\ k1.srq = << >> /\ k1.rdy = k0.rdy /\ k1.prio = k0.prio /\ k1.run = k0.run
      /\ k1.req = k0.req /\ k1.base = k0.base /\ k1.mx = k0.mx /\ k1.lock = k0.lock
      /\ k1.free = k0.free
  BY <1>1, <1>3 DEF KType, Fields, Unraised
<1> HIDE DEF k0, k1
<1>5. h = [i \in {0} |-> k2]
  <2>1. \E g : g = [i \in 0 .. Len(k1.srq) |-> IF i = 0 THEN k2 ELSE Serve(g[i - 1], k1.srq[i])]
    <3> DEFINE g == [i \in {0} |-> k2]
    <3>1. g = [i \in 0 .. Len(k1.srq) |-> IF i = 0 THEN k2 ELSE Serve(g[i - 1], k1.srq[i])]
      BY <1>4
    <3> HIDE DEF g, k2
    <3> QED BY <3>1
  <2>2. h = [i \in 0 .. Len(k1.srq) |-> IF i = 0 THEN k2 ELSE Serve(h[i - 1], k1.srq[i])]
    BY <2>1
  <2>3. 0 .. Len(k1.srq) = {0}
    BY <1>4
  <2> HIDE DEF h, k2
  <2> QED BY <2>2, <2>3
<1> HIDE DEF h
<1>6. RespondSRQ(x) = k2
  BY <1>2, <1>4, <1>5
<1>7. /\ k2.srq = << >> /\ k2.rdy = k1.rdy /\ k2.prio = k1.prio /\ k2.run = k1.run
      /\ k2.req = k1.req /\ k2.base = k1.base /\ k2.mx = k1.mx /\ k2.lock = k1.lock
      /\ k2.free = k1.free
  BY <1>4 DEF KType, Fields
<1> HIDE DEF k2
<1>8. Ranked(x, {}) => Ranked(k2, {})
  BY <1>3, <1>4, <1>7, RankedSame
<1>9. Unraised(x, k2)
  BY <1>3, <1>4, <1>7 DEF Unraised
<1> QED BY <1>6, <1>8, <1>9

\* What RemoveFromTCBRdyList leaves of a list in order is in order.
LEMMA RankDrop ==
    ASSUME NEW x, KType(x), NEW t \in Task, Ordered(x, {})
    PROVE  LET y == RemoveFromTCBRdyList(x, t)
           IN /\ KType(y) /\ Ordered(y, {}) /\ ToSet(y.rdy) \subseteq ToSet(x.rdy)
              /\ y.run = x.run /\ y.req = x.req /\ Unraised(x, y)
<1> DEFINE s == x.rdy
           list == Unlinked(s, t)
           intact == x.intact /\ t \in ToSet(s)
           y == RemoveFromTCBRdyList(x, t)
<1>1. s \in Seq(Task)
  BY DEF KType
<1>2. KType(y)
  BY RemoveRdyKept DEF Kept
<1>3. y = [x EXCEPT !.rdy = list, !.intact = intact]
  BY DEF RemoveFromTCBRdyList
<1>4. /\ ToSet(s) = {s[i] : i \in 1 .. Len(s)} /\ DOMAIN s = 1 .. Len(s) /\ Len(s) \in Nat
  BY <1>1, Elements
<1>5. list = s \/ \E pos \in 1 .. Len(s) : list = RemoveAt(s, pos)
  BY <1>1, <1>4, FoundPlace DEF Unlinked
<1> HIDE DEF list, intact, y
<1>6. /\ y.rdy = list /\ y.run = x.run /\ y.prio = x.prio /\ y.req = x.req
      /\ y.base = x.base /\ y.srq = x.srq /\ y.mx = x.mx /\ y.lock = x.lock /\ y.free = x.free
  BY <1>3 DEF KType, Fields
<1>7. CASE list = s
  <2>1. Ordered(y, {})
    BY <1>6, <1>7 DEF Ordered
  <2> QED BY <1>2, <1>6, <1>7, <2>1 DEF y, Unraised
<1>8. ASSUME NEW pos \in 1 .. Len(s), list = RemoveAt(s, pos)
      PROVE  Ordered(y, {}) /\ ToSet(list) \subseteq ToSet(s)
  <2>1. /\ list \in Seq(Task) /\ Len(list) = Len(s) - 1
        /\ \A j \in 1 .. Len(s) - 1 : list[j] = IF j < pos THEN s[j] ELSE s[j + 1]
    BY <1>1, <1>8, Removed
  <2>2. DOMAIN list = 1 .. Len(s) - 1 /\ ToSet(list) = {list[i] : i \in 1 .. Len(s) - 1}
    BY <1>4, <2>1, Elements
  <2>3. ASSUME NEW i \in 1 .. Len(s) - 1
        PROVE  \E a \in 1 .. Len(s) : list[i] = s[a] /\ a = (IF i < pos THEN i ELSE i + 1)
    <3> DEFINE a == IF i < pos THEN i ELSE i + 1
    <3>1. a \in 1 .. Len(s) /\ list[i] = s[a]
      BY <1>4, <2>1
    <3> QED BY <3>1
  <2>4. ASSUME NEW i \in 1 .. Len(s) - 1, NEW j \in 1 .. Len(s) - 1, i < j
        PROVE  x.prio[list[i]] <= x.prio[list[j]]
    <3>1. PICK a \in 1 .. Len(s) : list[i] = s[a] /\ a = (IF i < pos THEN i ELSE i + 1)
      BY <2>3
    <3>2. PICK b \in 1 .. Len(s) : list[j] = s[b] /\ b = (IF j < pos THEN j ELSE j + 1)
      BY <2>3
    <3>3. a < b
      BY <2>4, <3>1, <3>2
    <3> QED BY <1>4, <3>1, <3>2, <3>3 DEF Ordered
  <2>5. Ordered(y, {})
    BY <1>6, <2>2, <2>4 DEF Ordered
  <2>6. ToSet(list) \subseteq ToSet(s)
    BY <1>4, <2>2, <2>3
  <2> QED BY <2>5, <2>6
<1>9. CASE \E pos \in 1 .. Len(s) : list = RemoveAt(s, pos)
  <2>1. Ordered(y, {}) /\ ToSet(list) \subseteq ToSet(s)
    BY <1>8, <1>9
  <2> QED BY <1>2, <1>6, <2>1 DEF y, Unraised
<1> QED BY <1>5, <1>7, <1>9

\* Schedule runs the first of the tasks with the highest priority.
LEMMA ScheduleRanked ==
    ASSUME NEW x, KType(x), Ordered(x, {})
    PROVE  LET y == Schedule(x)
           IN /\ Ordered(y, {}) /\ Leads(y, {}) /\ (y.req => y.rdy = << >>)
              /\ Unraised(x, y)
<1> DEFINE cur == x.run
           next == x.rdy[1]
           k1 == [x EXCEPT !.req = FALSE]
           k2 == InsertToTCBRdyList(k1, cur)
           robin == x.prio[next] = x.prio[cur] /\ x.slice = 0
           y == Schedule(x)
           Goal(z) == /\ Ordered(z, {}) /\ Leads(z, {}) /\ (z.req => z.rdy = << >>)
                      /\ Unraised(x, z)
<1> SUFFICES Goal(y)
  OBVIOUS
<1>1. x.rdy \in Seq(Task) /\ cur \in Task /\ x.prio \in [Task -> Nat]
  BY DEF KType
<1>2. CASE x.rdy = << >>
  <2>1. ToSet(x.rdy) = {}
    BY <1>1, <1>2, Elements
  <2>2. y = x
    BY <1>2 DEF Schedule
  <2> HIDE DEF y
  <2> QED BY <1>2, <2>1, <2>2 DEF Leads, Unraised
<1>3. CASE x.rdy # << >>
  <2>1. /\ next \in Task /\ next \in ToSet(x.rdy)
        /\ \A t \in ToSet(x.rdy) : x.prio[next] <= x.prio[t]
        /\ ToSet(x.rdy) \subseteq Task
    BY <1>1, <1>3, First, Elements
  <2>2. /\ KType(k1) /\ k1.req = FALSE /\ k1.rdy = x.rdy /\ k1.run = x.run
        /\ Unraised(x, k1)
    BY DEF KType, Fields, Unraised
  <2>3. y = IF x.st[cur] # "RUNNING" THEN SwitchTo(RemoveFromTCBRdyList(k1, next), next)
            ELSE IF x.prio[next] < x.prio[cur] \/ robin
            THEN SwitchTo(RemoveFromTCBRdyList(k2, next), next) ELSE k1
    BY <1>3 DEF Schedule
  <2>4. Ordered(k1, {})
    BY <2>2 DEF Ordered, Unraised
  <2>5. /\ KType(k2) /\ Ordered(k2, {}) /\ k2.run = x.run
        /\ ToSet(k2.rdy) = ToSet(x.rdy) \cup {cur} /\ Unraised(x, k2)
        /\ x.prio[next] <= x.prio[cur] => ~k2.req
    <3>1. /\ KType(k2) /\ Ordered(k2, {}) /\ k2.run = k1.run
          /\ ToSet(k2.rdy) = ToSet(k1.rdy) \cup {cur} /\ Unraised(k1, k2)
          /\ k1.rdy # << >> /\ k1.prio[k1.rdy[1]] <= k1.prio[cur] => (k2.req <=> k1.req)
      <4> HIDE DEF k1
      <4>1. Unraised(k1, k2)
        BY <1>1, <2>2, InsertUnraised
      <4> QED BY <1>1, <2>2, <2>4, <4>1, RankIn
    <3> HIDE DEF k1, k2
    <3> QED BY <1>3, <2>2, <3>1 DEF Unraised
  <2> HIDE DEF y, robin, k1, k2, next
  <2>6. ASSUME NEW z, KType(z), Ordered(z, {}), Unraised(x, z), ~z.req,
               \A t \in ToSet(z.rdy) : x.prio[next] <= x.prio[t],
               y = SwitchTo(RemoveFromTCBRdyList(z, next), next)
        PROVE  Goal(y)
    <3> DEFINE w == RemoveFromTCBRdyList(z, next)
    <3>2. /\ KType(w) /\ Ordered(w, {}) /\ ToSet(w.rdy) \subseteq ToSet(z.rdy) /\ ~w.req
          /\ Unraised(z, w)
      BY <2>1, <2>6, RankDrop
    <3>3. y = SwitchTo(w, next)
      BY <2>6
    <3> HIDE DEF w
    <3>4. y.rdy = w.rdy /\ y.run = next /\ ~y.req /\ Unraised(w, y)
      BY <3>2, <3>3 DEF SwitchTo, KType, Fields, Unraised
    <3>5. Unraised(x, y)
      BY <2>6, <3>2, <3>4 DEF Unraised
    <3>6. Ordered(y, {})
      BY <3>2, <3>4 DEF Ordered, Unraised
    <3>7. Leads(y, {})
      BY <2>6, <3>2, <3>4, <3>5 DEF Leads, Unraised
    <3> QED BY <3>4, <3>5, <3>6, <3>7
  <2> HIDE DEF Goal
  <2>7. CASE x.st[cur] # "RUNNING"
    <3>1. y = SwitchTo(RemoveFromTCBRdyList(k1, next), next)
      BY <2>3, <2>7
    <3> QED BY <2>1, <2>2, <2>4, <2>6, <3>1
  <2>8. CASE x.st[cur] = "RUNNING" /\ (x.prio[next] < x.prio[cur] \/ robin)
    <3>1. y = SwitchTo(RemoveFromTCBRdyList(k2, next), next)
      BY <2>3, <2>8
    <3>2. x.prio[next] <= x.prio[cur] /\ x.prio[next] \in Nat /\ x.prio[cur] \in Nat
      BY <1>1, <2>1, <2>8 DEF robin
    <3>3. \A t \in ToSet(k2.rdy) : x.prio[next] <= x.prio[t]
      BY <2>1, <2>5, <3>2
    <3> QED BY <2>5, <2>6, <3>1, <3>2, <3>3
  <2>9. CASE x.st[cur] = "RUNNING" /\ ~(x.prio[next] < x.prio[cur] \/ robin)
    <3>1. y = k1
      BY <2>3, <2>9
    <3>2. \A t \in ToSet(x.rdy) : x.prio[cur] <= x.prio[t]
      <4> TAKE t \in ToSet(x.rdy)
      <4>1. x.prio[next] <= x.prio[t] /\ x.prio[t] \in Nat /\ x.prio[next] \in Nat /\ x.prio[cur] \in Nat
        BY <1>1, <2>1
      <4> QED BY <2>9, <4>1
    <3>3. Leads(k1, {})
      BY <2>2, <3>2 DEF Leads, Unraised
    <3> QED BY <2>2, <2>4, <3>1, <3>3 DEF Goal
  <2>10. \/ x.st[cur] # "RUNNING"
         \/ x.st[cur] = "RUNNING" /\ (x.prio[next] < x.prio[cur] \/ robin)
         \/ x.st[cur] = "RUNNING" /\ ~(x.prio[next] < x.prio[cur] \/ robin)
    OBVIOUS
  <2> QED BY <2>7, <2>8, <2>9, <2>10
<1> QED BY <1>2, <1>3

\* Neither Schedule nor OsSchedUnlock writes a priority or a mutex.
LEMMA ScheduleUnraised ==
    ASSUME NEW x, KType(x)
    PROVE  Unraised(x, Schedule(x))
<1> DEFINE cur == x.run
           next == x.rdy[1]
           k1 == [x EXCEPT !.req = FALSE]
           k2 == InsertToTCBRdyList(k1, cur)
           robin == x.prio[next] = x.prio[cur] /\ x.slice = 0
           y == Schedule(x)
<1>1. x.rdy \in Seq(Task) /\ cur \in Task
  BY DEF KType
<1>2. Unraised(x, x)
  BY DEF Unraised
<1>3. KType(k1) /\ Unraised(x, k1)
  BY DEF KType, Fields, Unraised
<1>4. y = IF x.rdy = << >> THEN x
          ELSE IF x.st[cur] # "RUNNING" THEN SwitchTo(RemoveFromTCBRdyList(k1, next), next)
          ELSE IF x.prio[next] < x.prio[cur] \/ robin
          THEN SwitchTo(RemoveFromTCBRdyList(k2, next), next) ELSE k1
  BY DEF Schedule
<1> HIDE DEF k1, y, robin, next
<1>5. KType(k2) /\ Unraised(x, k2)
  <2>1. Unraised(k1, k2) /\ KType(k2)
    BY <1>1, <1>3, InsertUnraised, InsertRdyKept DEF Kept
  <2> HIDE DEF k2
  <2> QED BY <1>3, <2>1 DEF Unraised
<1> HIDE DEF k2
<1>6. ASSUME NEW z, KType(z), Unraised(x, z), x.rdy # << >>,
             y = SwitchTo(RemoveFromTCBRdyList(z, next), next)
      PROVE  Unraised(x, y)
  <2> DEFINE w == RemoveFromTCBRdyList(z, next)
  <2>1. next \in Task
    BY <1>1, <1>6 DEF next
  <2>2. KType(w) /\ Unraised(z, w)
    BY <1>6, <2>1, RemoveUnraised, RemoveRdyKept DEF Kept
  <2>3. y = SwitchTo(w, next)
    BY <1>6
  <2> HIDE DEF w
  <2>4. Unraised(w, y)
    BY <2>2, <2>3 DEF SwitchTo, KType, Fields, Unraised
  <2> QED BY <1>6, <2>2, <2>4 DEF Unraised
<1> QED BY <1>2, <1>3, <1>4, <1>5, <1>6 DEF y

LEMMA UnlockUnraised ==
    ASSUME NEW x, KType(x), x.srq = << >>
    PROVE  Unraised(x, OsSchedUnlock(x))
<1> DEFINE r == RespondSRQ(x)
           y == OsSchedUnlock(x)
<1>1. KType(r) /\ Unraised(x, r)
  BY RespondSafe, RespondRanked DEF Safe
<1>2. Unraised(r, Schedule(r))
  BY <1>1, ScheduleUnraised
<1>3. y = IF x.lock > 0 THEN x ELSE IF r.req THEN Schedule(r) ELSE r
  BY DEF OsSchedUnlock
<1>4. Unraised(x, x)
  BY DEF Unraised
<1>5. Unraised(x, Schedule(r))
  BY <1>1, <1>2 DEF Unraised
<1> HIDE DEF r, y
<1> QED BY <1>1, <1>3, <1>4, <1>5 DEF y

(***************************************************************************)
(* Part 4.  The steps of the tasks and the tick.                           *)
(***************************************************************************)

\* The task whose priority the running task has written in CoSetPriority,
\* and for which it has not yet found the place.
Touched(x, c) == IF c[x.run].op = "prio" THEN {c[x.run].task} ELSE {}

\* The inductive invariant: the ready list is in order and a switch to a
\* higher priority is requested, but for that task.  Without a lock nothing
\* is left to do.
Ranks(x, c) ==
  /\ Ranked(x, Touched(x, c))
  /\ x.lock = 0 => (x.req => x.rdy = << >>) /\ (x.run \in Touched(x, c) \/ Leads(x, {}))

\* OsSchedUnlock makes up for what it finds.
LEMMA UnlockRanked ==
    ASSUME NEW x, KType(x), Ranked(x, {}), x.srq = << >>, x.lock \in Nat, NEW c
    PROVE  LET y == OsSchedUnlock(x) IN Ranks(y, c) /\ Unraised(x, y)
<1> DEFINE r == RespondSRQ(x)
           y == OsSchedUnlock(x)
<1>1. KType(r) /\ Ranked(r, {}) /\ Unraised(x, r)
  BY RespondSafe, RespondRanked DEF Safe
<1> HIDE DEF r
<1>2. CASE x.lock > 0
  <2>1. y = x
    BY <1>2, UnlockSwitched
  <2>2. x.lock # 0
    BY <1>2
  <2>3. Ranked(x, Touched(x, c))
    BY RankedMore
  <2>4. Ranks(x, c) /\ Unraised(x, x)
    BY <2>2, <2>3 DEF Ranks, Unraised
  <2> HIDE DEF y
  <2> QED BY <2>1, <2>4 DEF y
<1>3. CASE ~(x.lock > 0) /\ r.req
  <2>1. y = Schedule(r)
    BY <1>3 DEF OsSchedUnlock, r
  <2> HIDE DEF y
  <2>2. Ordered(r, {})
    BY <1>1 DEF Ranked
  <2>3. Ordered(y, {}) /\ Leads(y, {}) /\ (y.req => y.rdy = << >>) /\ Unraised(r, y)
    BY <1>1, <2>1, <2>2, ScheduleRanked
  <2>4. Ranked(y, {})
    BY <2>3 DEF Ranked
  <2>5. Ranked(y, Touched(y, c))
    BY <2>4, RankedMore
  <2>6. Unraised(x, y)
    BY <1>1, <2>3 DEF Unraised
  <2> QED BY <2>3, <2>5, <2>6 DEF Ranks, y
<1>4. CASE ~(x.lock > 0) /\ ~r.req
  <2>1. y = r
    BY <1>4 DEF OsSchedUnlock, r
  <2> HIDE DEF y
  <2>2. Leads(y, {}) /\ Ranked(y, {}) /\ ~y.req /\ Unraised(x, y)
    BY <1>1, <1>4, <2>1 DEF Ranked
  <2>3. Ranked(y, Touched(y, c))
    BY <2>2, RankedMore
  <2> QED BY <2>2, <2>3 DEF Ranks, y
<1> QED BY <1>2, <1>3, <1>4

\* What the steps use of the invariant.
LEMMA RankParts ==
    ASSUME Sound, Ranks(k, call)
    PROVE  /\ Lined(k) /\ KType(k) /\ k.srq = << >> /\ IsInjective(k.rdy)
           /\ ToSet(k.rdy) = {t \in Task : k.st[t] = "READY"}
           /\ k.lock \in Nat /\ k.run \in Task /\ k.run \notin ToSet(k.rdy)
           /\ call[k.run].op # "prio" => Ranked(k, {}) /\ Ordered(k, {})
<1>1. /\ KType(k) /\ Typed(k) /\ Placed(k, {}) /\ States(k, call) /\ k.st[k.run] = "RUNNING"
      /\ k.lock \in Nat /\ k.run \in Task
  BY SoundParts
<1>2. IsInjective(k.rdy) /\ ToSet(k.rdy) = {t \in Task : k.st[t] = "READY"}
  BY <1>1 DEF Placed
<1>3. k.ev = [t \in Task |-> InvalidId] /\ k.srq = << >>
  BY <1>1 DEF Typed
<1>4. \A t \in Task : k.st[t] = "RUNNING" <=> t = k.run
  BY <1>1 DEF States
<1>5. Lined(k)
  BY <1>1, <1>2, <1>3, <1>4 DEF Lined
<1>6. call[k.run].op # "prio" => Ranked(k, {}) /\ Ordered(k, {})
  BY DEF Ranks, Touched, Ranked
<1> QED BY <1>1, <1>2, <1>3, <1>5, <1>6

\* A step that ends in OsSchedUnlock.
LEMMA EndsRanked ==
    ASSUME Sound, NEW y, KType(y), Ranked(y, {}), y.srq = k.srq, y.lock \in Nat,
           k' = OsSchedUnlock(y)
    PROVE  Ranks(k', call')
<1>1. k.srq = << >>
  BY SoundParts DEF Typed
<1> QED BY <1>1, UnlockRanked

\* A step that only begins a call.
LEMMA BeginRanked ==
    ASSUME Sound, Ranks(k, call), call[k.run].op # "prio", k'.rdy = k.rdy, k'.prio = k.prio,
           k'.run = k.run, k'.req = k.req, call'[k.run].op # "prio",
           k'.lock = k.lock \/ k'.lock > 0
    PROVE  Ranks(k', call')
<1>1. Touched(k, call) = {} /\ Touched(k', call') = {}
  BY DEF Touched
<1>2. k'.lock = 0 => k.lock = 0
  BY SoundParts
<1>3. Ranked(k', {})
  BY <1>1, RankedSame DEF Ranks
<1>4. Leads(k, {}) => Leads(k', {})
  BY DEF Leads
<1> QED BY <1>1, <1>2, <1>3, <1>4 DEF Ranks

\* The first steps of calls but CoSetPriority.
LEMMA RankTest ==
    ASSUME Sound, Ranks(k, call), NEW op, Caller(op), UNCHANGED k, NEW v, v.op # "prio", Begin(v)
    PROVE  Ranks(k', call')
<1>1. call[k.run].op # "prio"
  BY DEF Caller, NoCall
<1>2. call'[k.run].op # "prio"
  BY Called
<1> QED BY <1>1, <1>2, BeginRanked

LEMMA RankTests ==
    ASSUME Sound, Ranks(k, call), NEW t \in Task,
           \/ DelTest(t) \/ SuspendTest(t) \/ AwakeTest(t)
           \/ \E n \in prog.delays \cup {0} : ResetDelayTest(t, n)
    PROVE  Ranks(k', call')
<1>1. CASE DelTest(t)
  <2> DEFINE v == IF Holds(k, t) THEN [op |-> "delleave", task |-> t, mutex |-> k.mid[t]]
                                 ELSE [op |-> "delete", task |-> t]
  <2>1. Caller("delete") /\ UNCHANGED k /\ Begin(v)
    BY <1>1 DEF DelTest
  <2>2. v.op # "prio"
    OBVIOUS
  <2> HIDE DEF v
  <2> QED BY <2>1, <2>2, RankTest
<1>2. CASE SuspendTest(t)
  <2> DEFINE v == [op |-> "suspend", task |-> t]
  <2>1. Caller("suspend") /\ UNCHANGED k /\ Begin(v)
    BY <1>2 DEF SuspendTest
  <2>2. v.op # "prio"
    OBVIOUS
  <2> HIDE DEF v
  <2> QED BY <2>1, <2>2, RankTest
<1>3. CASE AwakeTest(t)
  <2> DEFINE v == [op |-> "awake", task |-> t]
  <2>1. Caller("awake") /\ UNCHANGED k /\ Begin(v)
    BY <1>3 DEF AwakeTest
  <2>2. v.op # "prio"
    OBVIOUS
  <2> HIDE DEF v
  <2> QED BY <2>1, <2>2, RankTest
<1>4. CASE \E n \in prog.delays \cup {0} : ResetDelayTest(t, n)
  <2>1. PICK n \in prog.delays \cup {0} : ResetDelayTest(t, n)
    BY <1>4
  <2> DEFINE v == [op |-> "reset", task |-> t, ticks |-> n]
  <2>2. Caller("reset") /\ UNCHANGED k /\ Begin(v)
    BY <2>1 DEF ResetDelayTest
  <2>3. v.op # "prio"
    OBVIOUS
  <2> HIDE DEF v
  <2> QED BY <2>2, <2>3, RankTest
<1> QED BY <1>1, <1>2, <1>3, <1>4

LEMMA RankEnterReturn ==
    ASSUME Sound, Ranks(k, call), EnterReturn
    PROVE  Ranks(k', call')
<1>1. KType(k) /\ call[k.run].op # "prio"
  BY SoundParts DEF EnterReturn, Pending
<1>2. k'.rdy = k.rdy /\ k'.prio = k.prio /\ k'.run = k.run /\ k'.req = k.req /\ k'.lock = k.lock
  BY <1>1 DEF EnterReturn, KType, Fields
<1>3. call'[k.run].op # "prio"
  <2>1. Begin(NoCall)
    BY DEF EnterReturn, Finish, Begin
  <2>2. call'[k.run] = NoCall
    BY <2>1, Called
  <2> QED BY <2>2 DEF NoCall
<1> QED BY <1>1, <1>2, <1>3, BeginRanked

LEMMA RankLock ==
    ASSUME Sound, Ranks(k, call), CoSchedLock
    PROVE  Ranks(k', call')
<1>1. KType(k) /\ k.lock \in Nat /\ call[k.run].op # "prio" /\ UNCHANGED call
  BY SoundParts DEF CoSchedLock, Caller, NoCall
<1>2. /\ k'.rdy = k.rdy /\ k'.prio = k.prio /\ k'.run = k.run /\ k'.req = k.req
      /\ k'.lock = k.lock + 1
  BY <1>1 DEF CoSchedLock, KType, Fields
<1>3. k'.lock > 0
  BY <1>1, <1>2
<1> QED BY <1>1, <1>2, <1>3, BeginRanked

\* The steps that write nothing that matters before OsSchedUnlock.
LEMMA RankPlain ==
    ASSUME Sound, Ranks(k, call), call[k.run].op # "prio", NEW y, KType(y), y.srq = k.srq,
           y.lock \in Nat, y.rdy = k.rdy, y.prio = k.prio, y.run = k.run, k.req => y.req,
           k' = OsSchedUnlock(y)
    PROVE  Ranks(k', call')
<1>1. Ranked(k, {})
  BY RankParts
<1>2. Ranked(y, {})
  BY <1>1, RankedSame
<1> QED BY <1>2, EndsRanked

LEMMA RankUnlock ==
    ASSUME Sound, Ranks(k, call), CoSchedUnlock
    PROVE  Ranks(k', call')
<1> DEFINE n == k.lock - 1
           y == [k EXCEPT !.lock = n]
<1>1. KType(k) /\ n \in Nat /\ call[k.run].op # "prio" /\ k' = OsSchedUnlock(y)
  BY SoundParts DEF CoSchedUnlock, Caller, NoCall
<1> HIDE DEF n
<1>2. /\ y.rdy = k.rdy /\ y.prio = k.prio /\ y.run = k.run /\ y.req = k.req
      /\ y.lock = n /\ y.srq = k.srq
  BY <1>1 DEF KType, Fields
<1>3. KType(y)
  BY <1>1 DEF KType, Fields
<1> HIDE DEF y
<1> QED BY <1>1, <1>2, <1>3, RankPlain

LEMMA RankAssign ==
    ASSUME Sound, Ranks(k, call), NEW p, NEW w, AssignTCB(p, w)
    PROVE  Ranks(k', call')
<1>1. KType(k) /\ k.lock \in Nat /\ call[k.run].op # "prio"
  BY SoundParts DEF AssignTCB, Caller, NoCall
<1>2. CASE k.free = << >>
  <2>1. k' = OsSchedUnlock(k)
    BY <1>2 DEF AssignTCB
  <2> QED BY <1>1, <2>1, RankPlain
<1>3. CASE k.free # << >>
  <2> DEFINE rest == Tail(k.free)
             y == [k EXCEPT !.free = rest]
  <2>1. rest \in Seq(Task) /\ k' = OsSchedUnlock(y)
    BY <1>1, <1>3 DEF AssignTCB, KType
  <2> HIDE DEF rest
  <2>2. /\ y.rdy = k.rdy /\ y.prio = k.prio /\ y.run = k.run /\ y.req = k.req
        /\ y.lock = k.lock /\ y.srq = k.srq
    BY <1>1 DEF KType, Fields
  <2>3. KType(y)
    BY <1>1, <2>1 DEF KType, Fields
  <2> HIDE DEF y
  <2> QED BY <1>1, <2>1, <2>2, <2>3, RankPlain
<1> QED BY <1>2, <1>3

LEMMA RankCreateMutex ==
    ASSUME Sound, Ranks(k, call), CoCreateMutex
    PROVE  Ranks(k', call')
<1> DEFINE m == k.mnum + 1
           mx == [k.mx EXCEPT ![m] = NewMutex]
           n == m
           y == [k EXCEPT !.mnum = n, !.mx = mx]
<1>1. KType(k) /\ Typed(k) /\ k.lock \in Nat /\ call[k.run].op # "prio"
  BY SoundParts DEF CoCreateMutex, Caller, NoCall
<1>2. m \in Mutex
  BY <1>1, KernelAssumption, FS_CardinalityType DEF CoCreateMutex, Typed
<1>3. NewMutex \in MutexType
  BY DEF NewMutex, MutexType
<1>4. mx \in [Mutex -> MutexType]
  BY <1>1, <1>3 DEF KType
<1>5. k' = OsSchedUnlock(y)
  BY DEF CoCreateMutex
<1> HIDE DEF mx, n
<1>6. /\ y.rdy = k.rdy /\ y.prio = k.prio /\ y.run = k.run /\ y.req = k.req
      /\ y.lock = k.lock /\ y.srq = k.srq
  BY <1>1 DEF KType, Fields
<1>7. KType(y)
  BY <1>1, <1>4 DEF KType, Fields
<1> HIDE DEF y
<1> QED BY <1>1, <1>5, <1>6, <1>7, RankPlain

\* The delay list: a task that is inserted asks for a switch.
LEMMA DelayInRanked ==
    ASSUME NEW x, KType(x), Ordered(x, {}), NEW t \in Task, NEW n, n # 0
    PROVE  LET y == InsertDelayList(x, t, n)
           IN KType(y) /\ Ranked(y, {}) /\ y.srq = x.srq /\ y.lock = x.lock
<1> DEFINE y == InsertDelayList(x, t, n)
<1>1. Kept(x, y)
  BY InsertDelayKept
<1>2. y.rdy = x.rdy /\ y.prio = x.prio /\ y.req /\ y.srq = x.srq
  BY DEF InsertDelayList, KType, Fields
<1> HIDE DEF y
<1>3. Ranked(y, {})
  BY <1>2, Requested
<1>4. KType(y) /\ y.lock = x.lock
  BY <1>1 DEF Kept
<1> QED BY <1>2, <1>3, <1>4 DEF y

LEMMA DelayOutRanked ==
    ASSUME NEW x, KType(x), NEW t \in Task
    PROVE  LET y == RemoveDelayList(x, t)
           IN /\ KType(y) /\ y.rdy = x.rdy /\ y.prio = x.prio /\ y.run = x.run
              /\ y.req = x.req /\ y.srq = x.srq /\ y.lock = x.lock /\ y.mid = x.mid
              /\ y.ev = x.ev /\ y.mx = x.mx /\ y.base = x.base /\ y.free = x.free
<1> DEFINE y == RemoveDelayList(x, t)
<1>1. Kept(x, y)
  BY RemoveDelayKept
<1>2. /\ y.rdy = x.rdy /\ y.prio = x.prio /\ y.req = x.req /\ y.srq = x.srq /\ y.mid = x.mid
      /\ y.ev = x.ev /\ y.mx = x.mx /\ y.base = x.base /\ y.free = x.free
  BY DEF RemoveDelayList, KType, Fields
<1> HIDE DEF y
<1>3. KType(y) /\ y.lock = x.lock /\ y.run = x.run
  BY <1>1 DEF Kept
<1> QED BY <1>2, <1>3 DEF y

LEMMA RankSuspend ==
    ASSUME Sound, Ranks(k, call), CoSuspendTask
    PROVE  Ranks(k', call')
<1> DEFINE t == call[k.run].task
           st == [k.st EXCEPT ![k.run] = "WAITING"]
           y == [k EXCEPT !.req = TRUE, !.st = st]
<1>1. KType(k) /\ Calls(k, call) /\ k.lock \in Nat /\ k.run \in Task /\ call[k.run].op = "suspend"
  BY SoundParts DEF CoSuspendTask, Pending
<1>2. t = k.run
  <2>1. Alone(k, call, k.run)
    BY <1>1, RunCall, OtherCall
  <2> QED BY <1>1, <2>1, AloneCall
<1>3. k' = OsSchedUnlock(y)
  <2>1. k' = OsSchedUnlock([[k EXCEPT !.req = TRUE] EXCEPT !.st[k.run] = "WAITING"])
    BY <1>2 DEF CoSuspendTask
  <2>2. [[k EXCEPT !.req = TRUE] EXCEPT !.st[k.run] = "WAITING"] = y
    BY <1>1 DEF KType, Fields
  <2> QED BY <2>1, <2>2
<1>4. st \in [Task -> Alive \cup {"DORMANT"}]
  BY <1>1 DEF KType, Alive
<1> HIDE DEF st
<1>5. /\ y.rdy = k.rdy /\ y.prio = k.prio /\ y.run = k.run /\ y.req
      /\ y.lock = k.lock /\ y.srq = k.srq
  BY <1>1 DEF KType, Fields
<1>6. KType(y)
  BY <1>1, <1>4 DEF KType, Fields
<1> HIDE DEF y
<1> QED BY <1>1, <1>3, <1>5, <1>6, RankPlain

LEMMA RankAwake ==
    ASSUME Sound, Ranks(k, call), CoAwakeTask
    PROVE  Ranks(k', call')
<1> DEFINE t == call[k.run].task
           y == InsertToTCBRdyList(k, t)
<1>1. KType(k) /\ Calls(k, call) /\ k.lock \in Nat /\ k.run \in Task /\ call[k.run].op = "awake"
  BY SoundParts DEF CoAwakeTask, Pending
<1>2. t \in Task
  BY <1>1, RunCall, OtherCall, AloneCall
<1>3. Ranked(k, {}) /\ Ordered(k, {})
  BY <1>1, RankParts
<1>4. KType(y) /\ Ranked(y, {}) /\ y.srq = k.srq /\ y.lock = k.lock
  BY <1>1, <1>2, <1>3, RankIn
<1>5. k' = OsSchedUnlock(y)
  BY DEF CoAwakeTask
<1> HIDE DEF y
<1> QED BY <1>1, <1>4, <1>5, EndsRanked

LEMMA RankDelay ==
    ASSUME Sound, Ranks(k, call), NEW n \in prog.delays, CoTickDelay(n)
    PROVE  Ranks(k', call')
<1> DEFINE y == InsertDelayList(k, k.run, n)
<1>1. /\ KType(k) /\ k.lock \in Nat /\ k.run \in Task /\ call[k.run].op # "prio"
      /\ prog \in Programs
  BY SoundParts DEF CoTickDelay, Caller, NoCall
<1>2. n # 0
  BY <1>1, TaskSchedAssumption
<1>3. Ordered(k, {})
  BY <1>1, RankParts
<1>4. KType(y) /\ Ranked(y, {}) /\ y.srq = k.srq /\ y.lock = k.lock
  BY <1>1, <1>2, <1>3, DelayInRanked
<1>5. k' = OsSchedUnlock(y)
  BY DEF CoTickDelay
<1> HIDE DEF y
<1> QED BY <1>1, <1>4, <1>5, EndsRanked

LEMMA RankReset ==
    ASSUME Sound, Ranks(k, call), CoResetTaskDelayTick
    PROVE  Ranks(k', call')
<1> DEFINE t == call[k.run].task
           n == call[k.run].ticks
           k1 == RemoveDelayList(k, t)
           y == IF n = 0 THEN InsertToTCBRdyList(k1, t) ELSE InsertDelayList(k1, t, n)
<1>1. KType(k) /\ Calls(k, call) /\ k.lock \in Nat /\ k.run \in Task /\ call[k.run].op = "reset"
  BY SoundParts DEF CoResetTaskDelayTick, Pending
<1>2. t \in Task
  BY <1>1, RunCall, OtherCall, AloneCall
<1>3. Ranked(k, {})
  BY <1>1, RankParts
<1>4. k' = OsSchedUnlock(y)
  BY DEF CoResetTaskDelayTick
<1>5. /\ KType(k1) /\ k1.rdy = k.rdy /\ k1.prio = k.prio /\ k1.run = k.run
      /\ k1.req = k.req /\ k1.srq = k.srq /\ k1.lock = k.lock
  BY <1>1, <1>2, DelayOutRanked
<1> HIDE DEF k1, t, n
<1>6. Ranked(k1, {}) /\ Ordered(k1, {})
  <2>1. Ranked(k1, {})
    BY <1>3, <1>5, RankedSame
  <2> QED BY <2>1 DEF Ranked
<1>7. KType(y) /\ Ranked(y, {}) /\ y.srq = k1.srq /\ y.lock = k1.lock
  <2>1. CASE n = 0
    <3>1. y = InsertToTCBRdyList(k1, t)
      BY <2>1
    <3> HIDE DEF y
    <3> QED BY <1>2, <1>5, <1>6, <3>1, RankIn
  <2>2. CASE n # 0
    <3>1. y = InsertDelayList(k1, t, n)
      BY <2>2
    <3> HIDE DEF y
    <3> QED BY <1>2, <1>5, <1>6, <2>2, <3>1, DelayInRanked
  <2> QED BY <2>1, <2>2
<1> HIDE DEF y
<1> QED BY <1>1, <1>4, <1>5, <1>7, EndsRanked

LEMMA RankCreate ==
    ASSUME Sound, Ranks(k, call), CreateTask
    PROVE  Ranks(k', call')
<1> DEFINE t == call[k.run].task
           p == call[k.run].prio
           prio == [k.prio EXCEPT ![t] = p]
           tick == [k.tick EXCEPT ![t] = Invalid]
           ev == [k.ev EXCEPT ![t] = InvalidId]
           pmail == [k.pmail EXCEPT ![t] = 0]
           stale == k.stale \ {t}
           mid == [k.mid EXCEPT ![t] = InvalidId]
           pset == k.pset \ {t}
           base == [k.base EXCEPT ![t] = p]
           x == [k EXCEPT !.prio[t] = p, !.tick[t] = Invalid, !.ev[t] = InvalidId,
                          !.pmail[t] = 0, !.stale = @ \ {t}, !.mid[t] = InvalidId,
                          !.pset = @ \ {t}, !.base[t] = p]
<1>1. KType(k) /\ Calls(k, call) /\ k.lock \in Nat /\ k.run \in Task /\ call[k.run].op = "create"
  BY SoundParts DEF CreateTask, Pending
<1>2. k.lock > 0 /\ t \in Task \ {k.run} /\ p \in 0 .. Lowest /\ k.st[t] = "DORMANT"
  <2>1. ~Alone(k, call, k.run)
    BY <1>1, AloneCall
  <2>2. PICK u \in Task \ {Idle, k.run} : k.lock > 0 /\ Other(k, call, k.run, u)
    BY <1>1, <2>1, RunCall
  <2> QED BY <1>1, <2>2, OtherCall
<1>3. /\ k' = IF call[k.run].waiting THEN [x EXCEPT !.st[t] = "WAITING"]
              ELSE OsSchedUnlock(InsertToTCBRdyList(x, t))
      /\ k.prio \in [Task -> Nat] /\ k.ev \in [Task -> Event \cup {InvalidId}]
      /\ k.mid \in [Task -> Mutex \cup {InvalidId}] /\ k.st \in [Task -> Alive \cup {"DORMANT"}]
  BY <1>1 DEF CreateTask, KType
<1> HIDE DEF t, p
<1>4. p \in Nat
  BY <1>2, KernelAssumption
<1>5. x = [k EXCEPT !.prio = prio, !.tick = tick, !.ev = ev, !.pmail = pmail, !.stale = stale,
                    !.mid = mid, !.pset = pset, !.base = base]
  OBVIOUS
<1>6. /\ prio \in [Task -> Nat] /\ ev \in [Task -> Event \cup {InvalidId}]
      /\ mid \in [Task -> Mutex \cup {InvalidId}]
      /\ \A u \in Task \ {t} : prio[u] = k.prio[u]
  BY <1>2, <1>3, <1>4
<1> HIDE DEF x, prio, tick, ev, pmail, stale, mid, pset, base
<1>7. /\ x.rdy = k.rdy /\ x.run = k.run /\ x.req = k.req /\ x.lock = k.lock /\ x.srq = k.srq
      /\ x.st = k.st /\ x.prio = prio
  BY <1>1, <1>5 DEF KType, Fields
<1>8. KType(x)
  BY <1>1, <1>5, <1>6 DEF KType, Fields
<1>9. Ranked(x, {})
  <2>1. Ranked(k, {t})
    BY <1>1, RankParts, RankedMore
  <2>2. Ranked(x, {t})
    BY <1>1, <1>2, <1>6, <1>7, <2>1, Retouched
  <2>3. t \notin ToSet(x.rdy) /\ t # x.run
    BY <1>2, <1>7, RankParts
  <2> QED BY <1>8, <2>2, <2>3, Aside
<1>10. CASE call[k.run].waiting
  <2>1. k' = [x EXCEPT !.st[t] = "WAITING"]
    BY <1>3, <1>10
  <2>2. k'.rdy = x.rdy /\ k'.run = x.run /\ k'.req = x.req /\ k'.lock = k.lock /\ k'.prio = x.prio
    BY <1>7, <1>8, <2>1 DEF KType, Fields
  <2>3. Ranked(k', {})
    BY <1>9, <2>2, RankedSame
  <2>4. Ranked(k', Touched(k', call'))
    BY <2>3, RankedMore
  <2>5. k'.lock # 0
    BY <1>2, <2>2
  <2> QED BY <2>4, <2>5 DEF Ranks
<1>11. CASE ~call[k.run].waiting
  <2> DEFINE y == InsertToTCBRdyList(x, t)
  <2>1. k' = OsSchedUnlock(y)
    BY <1>3, <1>11
  <2>2. Ordered(x, {})
    BY <1>9 DEF Ranked
  <2>3. KType(y) /\ Ranked(y, {}) /\ y.srq = k.srq /\ y.lock = k.lock
    BY <1>2, <1>7, <1>8, <1>9, <2>2, RankIn
  <2> HIDE DEF y
  <2> QED BY <1>1, <2>1, <2>3, EndsRanked
<1> QED BY <1>10, <1>11

LEMMA RankSetPriority ==
    ASSUME Sound, Ranks(k, call), CoSetPriority
    PROVE  Ranks(k', call')
<1> DEFINE t == call[k.run].task
           seen == call[k.run].seen
           y == Finished(SetPriorityTail(k, t, seen))
<1>1. /\ KType(k) /\ Calls(k, call) /\ k.lock \in Nat /\ k.run \in Task /\ call[k.run].op = "prio"
      /\ k.st[k.run] = "RUNNING" /\ k.st \in [Task -> Alive \cup {"DORMANT"}]
  BY SoundParts DEF CoSetPriority, Pending, KType
<1>2. t \in Task /\ seen = k.st[t] /\ k.st[t] # "DORMANT"
  BY <1>1, RunCall, OtherCall, AloneCall
<1>3. k' = IF y = k THEN k ELSE OsSchedUnlock(y)
  BY DEF CoSetPriority
<1>4. Sorted(k, y)
  <2>1. Lined(k)
    BY RankParts
  <2>2. Ranked(k, {t})
    BY <1>1 DEF Ranks, Touched
  <2>3. seen \in Alive
    BY <1>1, <1>2
  <2> HIDE DEF t, seen
  <2>4. Sorts(k, SetPriorityTail(k, t, seen))
    BY <1>2, <2>1, <2>2, <2>3, TailSorted
  <2> QED BY <2>4, FinishedSorted
<1> HIDE DEF t, seen, y
<1>5. CASE y = k
  <2>1. k' = k /\ Ranked(k, {})
    BY <1>3, <1>4, <1>5 DEF Sorted
  <2>2. call'[k.run].op # "prio"
    <3>1. Begin(NoCall)
      BY DEF CoSetPriority, Finish, Begin
    <3>2. call'[k.run] = NoCall
      BY <3>1, Called
    <3> QED BY <3>2 DEF NoCall
  <2>3. Touched(k', call') = {}
    BY <2>1, <2>2 DEF Touched
  <2>4. k.lock = 0 => (k.req => k.rdy = << >>)
    BY DEF Ranks
  <2>5. k.rdy = << >> => Leads(k, {})
    BY <1>1, Elements DEF Leads, KType
  <2>6. Leads(k, {}) \/ k.req
    BY <2>1 DEF Ranked
  <2>7. k.lock = 0 => Leads(k, {})
    BY <2>4, <2>5, <2>6
  <2> QED BY <2>1, <2>3, <2>4, <2>7 DEF Ranks
<1>6. CASE y # k
  <2>1. k' = OsSchedUnlock(y)
    BY <1>3, <1>6
  <2>2. KType(y) /\ Ranked(y, {}) /\ y.srq = << >> /\ y.lock = k.lock
    BY <1>4 DEF Sorted, Lined
  <2>3. k.srq = << >>
    BY RankParts
  <2> QED BY <1>1, <2>1, <2>2, <2>3, EndsRanked
<1> QED BY <1>5, <1>6

LEMMA RankSetPrioTest ==
    ASSUME Guarded, Sound, Ranks(k, call), NEW t \in Task, NEW p \in prog.prio, SetPrioTest(t, p)
    PROVE  Ranks(k', call')
<1> DEFINE x == SetPriorityHead(k, t, p)
           base == [x.base EXCEPT ![t] = p]
<1>1. /\ KType(k) /\ k.lock \in Nat /\ k.run \in Task /\ call[k.run].op # "prio"
      /\ k.st[k.run] = "RUNNING" /\ p \in Nat /\ Lined(k) /\ Ranked(k, {})
  <2>1. call[k.run].op # "prio"
    BY DEF SetPrioTest, Caller, NoCall
  <2>2. p \in 0 .. Lowest
    BY SoundParts
  <2> QED BY <2>1, <2>2, SoundParts, RankParts, KernelAssumption
<1>2. t = k.run \/ k.lock > 0
  BY DEF SetPrioTest, Disciplined
<1>3. k' = [x EXCEPT !.base = base]
  BY DEF SetPrioTest
<1>4. /\ x.rdy = k.rdy /\ x.req = k.req
      /\ KeepsRaised(k, t, p) => x.prio = k.prio
  BY <1>1 DEF SetPriorityHead, KType, Fields
<1>5. Lined(x) /\ Ranked(x, {t}) /\ x.st = k.st /\ x.run = k.run /\ x.lock = k.lock
  BY <1>1, HeadRanked
<1> HIDE DEF x, base
<1>6. /\ k'.rdy = k.rdy /\ k'.req = k.req /\ k'.run = k.run /\ k'.lock = k.lock
      /\ k'.prio = x.prio
  BY <1>3, <1>4, <1>5 DEF Lined, KType, Fields
<1>7. Ranked(k', {t})
  BY <1>4, <1>5, <1>6, RankedSame
<1>8. CASE KeepsRaised(k, t, p)
  <2>1. k'.prio = k.prio /\ UNCHANGED call
    BY <1>4, <1>6, <1>8 DEF SetPrioTest
  <2> QED BY <1>1, <1>6, <2>1, BeginRanked
<1>9. CASE ~KeepsRaised(k, t, p) /\ k.st[t] = "WAITING" /\ UNCHANGED call
  <2>1. t \notin ToSet(k.rdy) /\ t # k.run
    BY <1>1, <1>9, OutOf
  <2>2. Ranked(x, {})
    BY <1>4, <1>5, <2>1, Aside DEF Lined
  <2>3. Ranked(k', {})
    BY <1>4, <1>5, <1>6, <2>2, RankedSame
  <2>4. Ranked(k', Touched(k', call'))
    BY <2>3, RankedMore
  <2>5. k'.lock # 0
    BY <1>1, <1>2, <1>6, <2>1
  <2> QED BY <2>4, <2>5 DEF Ranks
<1>10. CASE Begin([op |-> "prio", task |-> t, seen |-> k.st[t]])
  <2>1. call'[k'.run].op = "prio" /\ call'[k'.run].task = t
    BY <1>6, <1>10, Called
  <2>2. Touched(k', call') = {t}
    BY <2>1 DEF Touched
  <2>3. k.lock = 0 => (k.req => k.rdy = << >>)
    BY DEF Ranks
  <2>4. k'.lock = 0 => k'.run = t
    BY <1>1, <1>2, <1>6
  <2> QED BY <1>6, <1>7, <2>2, <2>3, <2>4 DEF Ranks
<1> QED BY <1>8, <1>9, <1>10 DEF SetPrioTest

\* CoLeaveMutexSection gives the owner its priority back and makes the next
\* owner ready, after it was given the priority of the old one.
LEMMA LeaveRanked ==
    ASSUME NEW x, Lined(x), Ranked(x, {}), NEW m \in Mutex, x.mx[m].own # InvalidId,
           \A u \in ToSet(x.mx[m].list) : x.st[u] = "WAITING"
    PROVE  LET z == LeaveMutex(x, m)
           IN KType(z) /\ Ranked(z, {}) /\ z.srq = x.srq /\ z.lock = x.lock
<1> DEFINE o == x.mx[m].own
           list == x.mx[m].list
           orig == x.mx[m].orig
           t == Head(list)
           z == LeaveMutex(x, m)
           mid == [x.mid EXCEPT ![o] = InvalidId]
           Goal(y) == KType(y) /\ Ranked(y, {}) /\ y.srq = x.srq /\ y.lock = x.lock
<1> SUFFICES Goal(z)
  OBVIOUS
<1>1. KType(x) /\ x.srq = << >> /\ x.mx \in [Mutex -> MutexType] /\ x.mx[m] \in MutexType
  BY DEF Lined, KType
<1>2. /\ o \in Task /\ orig \in Nat /\ list \in Seq(Task)
      /\ x.mx[m].hipri \in Task \cup {InvalidId}
  BY <1>1 DEF MutexType
<1>3. mid \in [Task -> Mutex \cup {InvalidId}] /\ x.prio \in [Task -> Nat]
  BY <1>1 DEF KType
<1>4. ASSUME NEW b \in MutexType
      PROVE  Sorted(x, [x EXCEPT !.mid[o] = InvalidId, !.mx[m] = b])
  <2> DEFINE mx == [x.mx EXCEPT ![m] = b]
             y == [x EXCEPT !.mid = mid, !.mx = mx]
  <2>1. mx \in [Mutex -> MutexType]
    BY <1>1, <1>4
  <2>2. [x EXCEPT !.mid[o] = InvalidId, !.mx[m] = b] = y
    OBVIOUS
  <2> HIDE DEF mx, mid
  <2>3. KType(y)
    BY <1>1, <1>3, <2>1 DEF KType, Fields
  <2>4. /\ y.rdy = x.rdy /\ y.st = x.st /\ y.run = x.run /\ y.ev = x.ev /\ y.srq = x.srq
        /\ y.prio = x.prio /\ y.req = x.req /\ y.lock = x.lock
    BY <1>1 DEF KType, Fields
  <2> HIDE DEF y
  <2>5. Sorted(x, y)
    BY <2>3, <2>4, SortedSame
  <2> QED BY <2>2, <2>5
<1>5. CASE list = << >>
  <2> DEFINE b == [x.mx[m] EXCEPT !.own = InvalidId]
             y == [x EXCEPT !.mid[o] = InvalidId, !.mx[m] = b]
  <2>1. z = y
    <3>1. z = [[x EXCEPT !.mid[o] = InvalidId] EXCEPT !.mx[m].own = InvalidId]
      BY <1>5 DEF LeaveMutex
    <3> QED BY <1>1, <3>1 DEF KType, Fields
  <2>2. b \in MutexType
    BY <1>1 DEF MutexType
  <2> HIDE DEF b
  <2>3. Sorted(x, y)
    BY <1>4, <2>2
  <2> HIDE DEF y
  <2>4. Goal(y)
    BY <1>1, <2>3 DEF Sorted, Lined
  <2> QED BY <2>1, <2>4
<1>6. CASE list # << >>
  <2> DEFINE h == IF x.mx[m].hipri = o THEN Highest(x, list, x.prio[t], o)
                                       ELSE [id |-> x.mx[m].hipri, prio |-> x.prio[o]]
             b0 == [x.mx[m] EXCEPT !.own = InvalidId, !.hipri = h.id]
             k0 == [x EXCEPT !.mid[o] = InvalidId, !.mx[m] = b0]
             k2 == SetPriority(k0, o, orig)
             mstale == (k2.mstale \ {t}) \cup {list[i] : i \in DOMAIN list \cap {2}}
             b == [k2.mx[m] EXCEPT !.own = t, !.orig = k2.prio[t], !.list = Tail(list)]
             mx == [k2.mx EXCEPT ![m] = b]
             prio == [k2.prio EXCEPT ![t] = h.prio]
             k3 == [k2 EXCEPT !.mx[m] = b, !.prio[t] = h.prio, !.mstale = mstale]
  <2>1. t \in ToSet(list) /\ t \in Task /\ Tail(list) \in Seq(Task) /\ x.st[t] = "WAITING"
    <3>1. list[1] \in ToSet(list) /\ ToSet(list) \subseteq Task
      <4>1. Len(list) \in Nat /\ Len(list) # 0
        BY <1>2, <1>6, Elements
      <4> QED BY <1>2, <4>1, Elements
    <3>2. t = list[1] /\ Tail(list) \in Seq(Task)
      BY <1>2, <1>6
    <3> QED BY <3>1, <3>2
  <2>2. h.id \in Task \cup {InvalidId} /\ h.prio \in Nat
    <3>1. x.prio[t] \in Nat /\ x.prio[o] \in Nat
      BY <1>2, <1>3, <2>1
    <3>2. CASE x.mx[m].hipri = o
      <4>1. h = Highest(x, list, x.prio[t], o)
        BY <3>2
      <4> HIDE DEF h
      <4> QED BY <1>1, <1>2, <3>1, <4>1, HighestType
    <3>3. CASE x.mx[m].hipri # o
      BY <1>2, <3>1, <3>3
    <3> QED BY <3>2, <3>3
  <2>3. z = InsertToTCBRdyList(k3, t)
    <3>1. k0 = [[x EXCEPT !.mid[o] = InvalidId] EXCEPT
                  !.mx[m] = [@ EXCEPT !.own = InvalidId, !.hipri = h.id]]
      BY SMTT(30), <1>1 DEF KType, Fields
    <3> QED BY <1>6, <3>1 DEF LeaveMutex
  <2>4. b0 \in MutexType
    BY <1>1, <2>2 DEF MutexType
  <2> HIDE DEF h, b0, t, z
  <2>5. Sorted(x, k0)
    BY <1>4, <2>4
  <2> HIDE DEF k0
  <2>6. Sorted(k0, k2)
    <3>1. Lined(k0) /\ Ranked(k0, {})
      BY <2>5 DEF Sorted
    <3> HIDE DEF orig, o
    <3> QED BY <1>2, <3>1, SetPrioritySorted
  <2> HIDE DEF k2
  <2>7. Sorted(x, k2) /\ Lined(k2) /\ Ranked(k2, {}) /\ KType(k2) /\ k2.lock = x.lock /\ k2.srq = << >>
    <3>1. Sorted(x, k2)
      BY <2>5, <2>6, SortedTrans
    <3> QED BY <3>1 DEF Sorted, Lined
  <2>8. k2.mx \in [Mutex -> MutexType] /\ k2.mx[m] \in MutexType /\ k2.prio \in [Task -> Nat]
    BY <2>7 DEF KType
  <2>9. mx \in [Mutex -> MutexType] /\ prio \in [Task -> Nat]
    <3>1. k2.prio[t] \in Nat
      BY <2>1, <2>8
    <3>2. b \in MutexType
      BY <2>1, <2>8, <3>1 DEF MutexType
    <3> HIDE DEF b
    <3> QED BY <2>2, <2>8, <3>2
  <2>10. /\ \A u \in Task \ {t} : prio[u] = k2.prio[u]
         /\ k3 = [k2 EXCEPT !.mx = mx, !.prio = prio, !.mstale = mstale]
    BY <2>8
  <2> HIDE DEF mx, prio, mstale, k3
  <2>11. /\ k3.rdy = k2.rdy /\ k3.run = k2.run /\ k3.req = k2.req /\ k3.prio = prio
         /\ k3.lock = k2.lock /\ k3.srq = k2.srq
    BY <2>7, <2>10 DEF KType, Fields
  <2>12. KType(k3)
    BY <2>7, <2>9, <2>10 DEF KType, Fields
  <2>13. Ranked(k3, {})
    <3>1. Ranked(k2, {t})
      BY <2>7, RankedMore
    <3>2. Ranked(k3, {t})
      BY <2>1, <2>7, <2>10, <2>11, <3>1, Retouched
    <3>3. k2.st[t] = "WAITING"
      BY <2>1, <2>7 DEF Sorted
    <3>4. t \notin ToSet(k2.rdy) /\ t # k2.run
      BY <2>1, <2>7, <3>3, OutOf
    <3> QED BY <2>11, <2>12, <3>2, <3>4, Aside
  <2>14. Ordered(k3, {})
    BY <2>13 DEF Ranked
  <2>15. KType(z) /\ Ranked(z, {}) /\ z.srq = k3.srq /\ z.lock = k3.lock
    BY <2>1, <2>3, <2>12, <2>13, <2>14, RankIn
  <2> QED BY <1>1, <2>7, <2>11, <2>15
<1> QED BY <1>5, <1>6

LEMMA RankLeft ==
    ASSUME Sound, Ranks(k, call), call[k.run].op # "prio", NEW m \in Mutex, NEW t \in Task,
           k.mx[m].own = t, NEW y, Outside(LeaveMutex(k, m), t, y), k' = OsSchedUnlock(y)
    PROVE  Ranks(k', call')
<1> DEFINE z == LeaveMutex(k, m)
<1>1. Lined(k) /\ Ranked(k, {}) /\ k.lock \in Nat /\ k.mx[m].own # InvalidId
  BY RankParts, KernelAssumption
<1>2. \A u \in ToSet(k.mx[m].list) : k.st[u] = "WAITING"
  BY SoundParts DEF Placed
<1>3. KType(z) /\ Ranked(z, {}) /\ z.srq = k.srq /\ z.lock = k.lock
  BY <1>1, <1>2, LeaveRanked
<1> HIDE DEF z
<1>4. /\ KType(y) /\ y.rdy = z.rdy /\ y.prio = z.prio /\ y.run = z.run /\ y.req = z.req
      /\ y.lock = z.lock /\ y.srq = z.srq
  BY DEF Outside, z
<1>5. Ranked(y, {})
  BY <1>3, <1>4, RankedSame
<1> QED BY <1>1, <1>3, <1>4, <1>5, EndsRanked

LEMMA RankDelLeave ==
    ASSUME Sound, Ranks(k, call), DelLeave
    PROVE  Ranks(k', call')
<1> DEFINE t == call[k.run].task
           m == call[k.run].mutex
           y == [LeaveMutex(k, m) EXCEPT !.inside[t] = {}]
<1>1. call[k.run].op = "delleave" /\ k' = OsSchedUnlock(y)
  BY DEF DelLeave, Pending
<1>2. t \in Task /\ m \in Mutex /\ k.mx[m].own = t
  <2>1. CASE Alone(k, call, k.run)
    <3>1. ~Doomed(k, call, k.run)
      BY <1>1 DEF Doomed
    <3> QED BY <1>1, <2>1, <3>1, SoundParts, AloneCall
  <2>2. ASSUME NEW u \in Task \ {Idle, k.run}, Other(k, call, k.run, u)
        PROVE  t \in Task /\ m \in Mutex /\ k.mx[m].own = t
    BY <1>1, <2>2, OtherCall
  <2>3. call[k.run].op # "none"
    BY <1>1
  <2> QED BY <2>1, <2>2, <2>3, SoundParts, RunCall
<1>3. Outside(LeaveMutex(k, m), t, y)
  <2>1. Typed(LeaveMutex(k, m))
    <3>1. Whole(k, call, left) /\ k.mx[m].own # InvalidId
      BY <1>2, SoundParts, KernelAssumption
    <3> QED BY <1>2, <3>1, Left
  <2> QED BY <1>2, <2>1, OutsideIs DEF y
<1> HIDE DEF t, m, y
<1>4. call[k.run].op # "prio"
  BY <1>1
<1> QED BY <1>1, <1>2, <1>3, <1>4, RankLeft

LEMMA RankLeave ==
    ASSUME Sound, Ranks(k, call), NEW m \in Mutex, CoLeaveMutexSection(m)
    PROVE  Ranks(k', call')
<1> DEFINE y == [LeaveMutex(k, m) EXCEPT !.inside[k.run] = {}]
<1>1. call[k.run] = NoCall /\ m \in k.inside[k.run]
  BY DEF CoLeaveMutexSection, Caller
<1>2. k.run \in Task /\ k.mx[m].own = k.run
  BY <1>1, SoundParts DEF Owned
<1>3. Whole(k, call, left) /\ k.mx[m].own # InvalidId
  BY <1>2, SoundParts, KernelAssumption
<1>4. LeaveMutex(k, m).inside = k.inside /\ Typed(LeaveMutex(k, m))
  BY <1>3, Left
<1>5. k.inside[k.run] \ {m} = {}
  <2>1. \A n \in k.inside[k.run] : n \in Mutex /\ k.mx[n].own = k.run
    BY <1>2, SoundParts DEF Typed, Owned
  <2>2. \A n \in k.inside[k.run] : n = k.mid[k.run]
    BY <1>2, <2>1, SoundParts, KernelAssumption DEF Owned
  <2> QED BY <1>1, <2>2
<1>6. k' = OsSchedUnlock(y)
  BY <1>4, <1>5 DEF CoLeaveMutexSection
<1>7. Outside(LeaveMutex(k, m), k.run, y)
  BY <1>2, <1>4, OutsideIs DEF y
<1>8. call[k.run].op # "prio"
  BY <1>1 DEF NoCall
<1> HIDE DEF y
<1> QED BY <1>2, <1>6, <1>7, <1>8, RankLeft

\* RemoveMutexList gives the owner another priority, if it had the one of
\* the task that goes.
LEMMA UnwaitRanked ==
    ASSUME NEW x, Lined(x), Ranked(x, {}), NEW t \in Task, x.mid[t] # InvalidId
    PROVE  Sorted(x, RemoveMutexList(x, t))
<1> DEFINE m == x.mid[t]
           o == x.mx[m].own
           orig == x.mx[m].orig
           list == Unlinked(x.mx[m].list, t)
           z == RemoveMutexList(x, t)
           ko == [x.mx[m] EXCEPT !.list = list]
           mx1 == [x.mx EXCEPT ![m] = ko]
           mid == [x.mid EXCEPT ![t] = InvalidId]
           mstale == x.mstale \ {t}
           intact == x.intact /\ ~Misses(x, t)
           k1 == [x EXCEPT !.mx = mx1, !.mid = mid, !.mstale = mstale, !.intact = intact]
           h == Highest(k1, k1.mx[m].list, orig, o)
           b0 == [k1.mx[m] EXCEPT !.own = InvalidId, !.hipri = h.id]
           k0 == [k1 EXCEPT !.mx[m] = b0]
           k2 == SetPriority(k0, o, h.prio)
           b == [k2.mx[m] EXCEPT !.own = o]
           k3 == [k2 EXCEPT !.mx[m] = b]
<1>1. /\ KType(x) /\ x.mid \in [Task -> Mutex \cup {InvalidId}]
      /\ x.mx \in [Mutex -> MutexType] /\ m \in Mutex /\ x.mx[m] \in MutexType
  BY DEF Lined, KType
<1>2. x.mx[m].list \in Seq(Task) /\ o \in Task \cup {InvalidId} /\ orig \in Nat
  BY <1>1 DEF MutexType
<1>3. list \in Seq(Task)
  BY <1>2, RemoveSeq
<1>4. z = IF x.mx[m].hipri = t THEN k3 ELSE k1
  <2>1. k1 = [x EXCEPT !.mx[m].list = list, !.mid[t] = InvalidId,
                       !.mstale = @ \ {t}, !.intact = @ /\ ~Misses(x, t)]
    OBVIOUS
  <2>2. k3 = [k2 EXCEPT !.mx[m].own = o]
    OBVIOUS
  <2> HIDE DEF b, k1
  <2> QED BY <2>1, <2>2 DEF RemoveMutexList
<1>5. ko \in MutexType
  BY <1>1, <1>3 DEF MutexType
<1> HIDE DEF z, list, ko
<1>6. mx1 \in [Mutex -> MutexType] /\ mid \in [Task -> Mutex \cup {InvalidId}]
      /\ mx1[m] = ko
  BY <1>1, <1>5
<1> HIDE DEF mx1, mid, mstale, intact, m
<1>7. KType(k1)
  BY <1>1, <1>6 DEF KType, Fields
<1>8. /\ k1.rdy = x.rdy /\ k1.st = x.st /\ k1.run = x.run /\ k1.ev = x.ev /\ k1.srq = x.srq
      /\ k1.prio = x.prio /\ k1.req = x.req /\ k1.lock = x.lock /\ k1.mx = mx1
  BY <1>1 DEF KType, Fields
<1> HIDE DEF k1
<1>9. Sorted(x, k1)
  BY <1>7, <1>8, SortedSame
<1>10. ASSUME NEW y, Sorted(x, y), NEW c \in MutexType PROVE Sorted(x, [y EXCEPT !.mx[m] = c])
  <2> DEFINE mx == [y.mx EXCEPT ![m] = c]
             w == [y EXCEPT !.mx = mx]
  <2>1. KType(y) /\ Lined(y) /\ Ranked(y, {}) /\ y.mx \in [Mutex -> MutexType]
    BY <1>10 DEF Sorted, Lined, KType
  <2>2. mx \in [Mutex -> MutexType]
    BY <1>10, <2>1
  <2>3. [y EXCEPT !.mx[m] = c] = w
    OBVIOUS
  <2> HIDE DEF mx
  <2>4. KType(w)
    BY <2>1, <2>2 DEF KType, Fields
  <2>5. /\ w.rdy = y.rdy /\ w.st = y.st /\ w.run = y.run /\ w.ev = y.ev /\ w.srq = y.srq
        /\ w.prio = y.prio /\ w.req = y.req /\ w.lock = y.lock
    BY <2>1 DEF KType, Fields
  <2> HIDE DEF w
  <2>6. Sorted(y, w)
    BY <2>1, <2>4, <2>5, SortedSame
  <2>7. Sorted(x, w)
    BY <1>10, <2>6, SortedTrans
  <2> QED BY <2>3, <2>7
<1>11. h.id \in Task \cup {InvalidId} /\ h.prio \in Nat
  <2>1. k1.mx[m].list \in Seq(Task)
    BY <1>5, <1>6, <1>8 DEF MutexType
  <2> HIDE DEF orig, o
  <2> QED BY <1>2, <1>7, <2>1, HighestType
<1> HIDE DEF h
<1>12. b0 \in MutexType
  BY <1>5, <1>6, <1>8, <1>11 DEF MutexType
<1> HIDE DEF b0
<1>13. Sorted(x, k0)
  BY <1>9, <1>10, <1>12
<1> HIDE DEF k0, o
<1>14. Sorted(x, k2)
  <2>1. Lined(k0) /\ Ranked(k0, {})
    BY <1>13 DEF Sorted
  <2>2. Sorted(k0, k2)
    BY <1>2, <1>11, <2>1, SetPrioritySorted
  <2> HIDE DEF k2
  <2> QED BY <1>13, <2>2, SortedTrans
<1> HIDE DEF k2
<1>15. b \in MutexType
  <2>1. k2.mx[m] \in MutexType
    BY <1>1, <1>14 DEF Sorted, Lined, KType
  <2> QED BY <1>2, <2>1 DEF MutexType
<1> HIDE DEF b
<1>16. Sorted(x, k3)
  BY <1>10, <1>14, <1>15
<1> HIDE DEF k3
<1> QED BY <1>4, <1>9, <1>16 DEF z

LEMMA UnlinkRanked ==
    ASSUME Sound, Ranks(k, call), call[k.run].op # "prio", NEW t \in Task
    PROVE  LET y == Unlink(t) IN Ordered(y, {}) /\ y.srq = k.srq
<1> DEFINE k1 == IF k.tick[t] # Invalid THEN RemoveDelayList(k, t) ELSE k
           k4 == IF k.mid[t] # InvalidId THEN RemoveMutexList(k1, t) ELSE k1
           y == Unlink(t)
<1>1. /\ Typed(k) /\ KType(k) /\ Lined(k) /\ Ranked(k, {}) /\ Ordered(k, {}) /\ k.srq = << >>
      /\ \A u \in Task : k.tick[u] # Invalid => k.st[u] = "WAITING"
  BY SoundParts, RankParts DEF Placed
<1>2. k.ev[t] = InvalidId /\ ~Pnode(k, t)
  <2>1. << >> \in Seq(Task)
    OBVIOUS
  <2>2. ToSet(<< >>) = {}
    BY <2>1, Elements
  <2>3. k.flg.list = << >>
    BY <1>1 DEF Typed
  <2> QED BY <1>1, <2>2, <2>3 DEF Typed, Pnode
<1>3. y = CASE k.st[t] = "READY" -> RemoveFromTCBRdyList(k, t)
            [] k.st[t] = "WAITING" -> k4
            [] OTHER -> k
  BY <1>2 DEF Unlink
<1> HIDE DEF y
<1>4. CASE k.st[t] = "READY"
  <2> DEFINE z == RemoveFromTCBRdyList(k, t)
  <2>1. Ordered(z, {}) /\ z.srq = k.srq
    BY <1>1, RankDrop DEF Unraised
  <2> HIDE DEF z
  <2>2. y = z
    BY <1>3, <1>4 DEF z
  <2> QED BY <2>1, <2>2 DEF y
<1>5. CASE k.st[t] = "WAITING"
  <2>1. Lined(k1) /\ Ranked(k1, {}) /\ k1.srq = k.srq /\ k1.mid = k.mid
    <3>1. CASE k.tick[t] = Invalid
      <4>1. k1 = k
        BY <3>1
      <4> HIDE DEF k1
      <4> QED BY <1>1, <4>1
    <3>2. CASE k.tick[t] # Invalid
      <4> DEFINE z == RemoveDelayList(k, t)
      <4>1. k1 = z
        BY <3>2
      <4>2. /\ KType(z) /\ z.rdy = k.rdy /\ z.prio = k.prio /\ z.run = k.run
            /\ z.req = k.req /\ z.srq = k.srq /\ z.mid = k.mid /\ z.ev = k.ev
        BY <1>1, DelayOutRanked
      <4>3. z.st = k.st
        BY <1>1 DEF RemoveDelayList, KType, Fields
      <4> HIDE DEF z, k1
      <4>4. Lined(z)
        BY <1>1, <4>2, <4>3, LinedSame
      <4>5. Ranked(z, {})
        BY <1>1, <4>2, RankedSame
      <4> QED BY <4>1, <4>2, <4>4, <4>5
    <3> QED BY <3>1, <3>2
  <2> HIDE DEF k1
  <2>2. Ordered(k4, {}) /\ k4.srq = k.srq
    <3>1. CASE k.mid[t] # InvalidId
      <4> DEFINE z == RemoveMutexList(k1, t)
      <4>1. Sorted(k1, z)
        BY <2>1, <3>1, UnwaitRanked
      <4> HIDE DEF z
      <4>2. k4 = z
        BY <3>1 DEF z
      <4> HIDE DEF k4
      <4> QED BY <1>1, <4>1, <4>2 DEF Sorted, Lined, Ranked
    <3>2. CASE k.mid[t] = InvalidId
      BY <2>1, <3>2 DEF Ranked
    <3> QED BY <3>1, <3>2
  <2>3. y = k4
    BY <1>3, <1>5
  <2> HIDE DEF k4
  <2> QED BY <2>2, <2>3 DEF y
<1>6. CASE k.st[t] \notin {"READY", "WAITING"}
  <2>1. y = k
    BY <1>3, <1>6
  <2> QED BY <1>1, <2>1 DEF y
<1> QED BY <1>4, <1>5, <1>6

LEMMA RankDelete ==
    ASSUME Sound, Ranks(k, call), CoDelTask
    PROVE  Ranks(k', call')
<1> DEFINE t == call[k.run].task
           k1 == Unlink(t)
           st == [k1.st EXCEPT ![t] = "DORMANT"]
           free == <<t>> \o k1.free
           intact == k1.intact /\ t \notin Linked(k1)
           y == [k1 EXCEPT !.st = st, !.req = TRUE, !.free = free, !.intact = intact]
<1>1. call[k.run].op = "delete" /\ k' = OsSchedUnlock(y)
  BY DEF CoDelTask, Pending
<1>2. KType(k) /\ Owned(k, call) /\ Calls(k, call) /\ k.run \in Task /\ k.st[k.run] = "RUNNING"
  BY SoundParts
<1>3. /\ t \in Task /\ k.st[t] # "DORMANT"
      /\ t # k.run \/ k.mid[t] = InvalidId
      /\ k.mid[t] # InvalidId => k.mx[k.mid[t]].own # t /\ ~Misses(k, t)
  <2>1. CASE Alone(k, call, k.run)
    <3>1. t = k.run /\ t # Idle /\ k.lock = 0 /\ k.mid[t] = InvalidId
      BY <1>1, <2>1, AloneCall
    <3> QED BY <1>2, <3>1
  <2>2. ASSUME NEW u \in Task \ {Idle, k.run}, Other(k, call, k.run, u)
        PROVE  /\ t = u /\ k.st[u] # "DORMANT"
               /\ k.mid[u] # InvalidId => k.mx[k.mid[u]].own # u /\ ~Misses(k, u)
    BY <1>1, <2>2, OtherCall
  <2>3. CASE \E u \in Task \ {Idle, k.run} : Other(k, call, k.run, u)
    BY <2>2, <2>3
  <2>4. call[k.run].op # "none"
    BY SMTT(30), <1>1
  <2> QED BY <1>2, <2>1, <2>3, <2>4, RunCall
<1>4. call[k.run].op # "prio" /\ k.lock \in Nat
  BY <1>1, RankParts
<1> HIDE DEF t
<1>5. Ordered(k1, {}) /\ k1.srq = k.srq
  BY <1>3, <1>4, UnlinkRanked
<1>6. KType(k1) /\ k1.lock = k.lock
  BY <1>3, Undone DEF Detached, Typed
<1> HIDE DEF k1
<1>7. st \in [Task -> Alive \cup {"DORMANT"}] /\ free \in Seq(Task)
  BY <1>3, <1>6, Pushed DEF KType, Alive
<1> HIDE DEF st, free, intact
<1>8. y.rdy = k1.rdy /\ y.prio = k1.prio /\ y.req /\ y.lock = k1.lock /\ y.srq = k1.srq
  BY <1>6 DEF KType, Fields
<1>9. KType(y)
  BY <1>6, <1>7 DEF KType, Fields
<1> HIDE DEF y
<1>10. Ranked(y, {})
  BY <1>5, <1>8, Requested
<1> QED BY <1>1, <1>4, <1>5, <1>6, <1>8, <1>9, <1>10, EndsRanked

LEMMA RankEnter ==
    ASSUME Guarded, Sound, Ranks(k, call), NEW m \in Mutex, CoEnterMutexSection(m)
    PROVE  Ranks(k', call')
<1> DEFINE t == k.run
           o == k.mx[m].own
<1>1. /\ call[k.run] = NoCall /\ k.inside[k.run] = {} /\ call[k.run].op # "prio"
      /\ KType(k) /\ t \in Task /\ k.lock \in Nat /\ k.prio \in [Task -> Nat]
      /\ k.mx \in [Mutex -> MutexType] /\ k.mx[m] \in MutexType /\ Owned(k, call)
      /\ Lined(k) /\ Ranked(k, {}) /\ Ordered(k, {})
  <2>1. call[k.run] = NoCall /\ k.inside[k.run] = {}
    BY DEF CoEnterMutexSection, Caller
  <2>2. call[k.run].op # "prio"
    BY <2>1 DEF NoCall
  <2> QED BY <2>1, <2>2, SoundParts, RankParts DEF KType
<1>2. CASE o = InvalidId
  <2> DEFINE b == [k.mx[m] EXCEPT !.own = t, !.orig = k.prio[t], !.hipri = t]
             mid == [k.mid EXCEPT ![t] = m]
             mx == [k.mx EXCEPT ![m] = b]
             inside == [k.inside EXCEPT ![t] = k.inside[t] \cup {m}]
             y == [k EXCEPT !.mid = mid, !.mx = mx, !.inside = inside]
  <2>1. k' = OsSchedUnlock(y)
    <3>1. EnterMutex(k, m) = [k EXCEPT !.mid = mid, !.mx = mx]
      <4>1. EnterMutex(k, m) = [[k EXCEPT !.mid[t] = m] EXCEPT !.mx[m] = [@ EXCEPT !.own = t, !.orig = k.prio[t], !.hipri = t]]
        BY <1>2 DEF EnterMutex
      <4> QED BY <1>1, <4>1 DEF KType, Fields
    <3>2. k' = OsSchedUnlock([EnterMutex(k, m) EXCEPT !.inside[t] = @ \cup {m}])
      BY <1>2 DEF CoEnterMutexSection
    <3> HIDE DEF mid, mx
    <3>3. [EnterMutex(k, m) EXCEPT !.inside[t] = @ \cup {m}] = y
      BY <1>1, <3>1 DEF KType, Fields
    <3> QED BY <3>2, <3>3
  <2>2. mx \in [Mutex -> MutexType] /\ mid \in [Task -> Mutex \cup {InvalidId}]
    <3>1. b \in MutexType
      BY <1>1 DEF MutexType
    <3> HIDE DEF b
    <3> QED BY <1>1, <3>1 DEF KType
  <2> HIDE DEF mx, mid, inside
  <2>3. /\ y.rdy = k.rdy /\ y.prio = k.prio /\ y.run = k.run /\ y.req = k.req
        /\ y.lock = k.lock /\ y.srq = k.srq
    BY <1>1 DEF KType, Fields
  <2>4. KType(y)
    BY <1>1, <2>2 DEF KType, Fields
  <2> HIDE DEF y
  <2> QED BY <1>1, <2>1, <2>3, <2>4, RankPlain
<1>3. CASE o # InvalidId
  <2> DEFINE k1 == [k EXCEPT !.mid[t] = m]
             raised == [k1 EXCEPT !.prio[o] = k.prio[t], !.mx[m].hipri = t]
             k2 == IF k.prio[o] <= k.prio[t] THEN k1
                   ELSE IF k.st[o] = "READY" THEN InsertToTCBRdyList(RemoveFromTCBRdyList(raised, o), o)
                   ELSE ReorderWaiting(raised, o)
             y == EnterMutex(k, m)
  <2>1. o \in Task /\ k.mid[o] = m /\ o # t
    <3>1. k.mid[t] = InvalidId
      BY <1>1, NoMutex
    <3>2. o \in Task /\ k.mid[o] = m
      BY <1>1, <1>3 DEF MutexType, Owned
    <3> QED BY <3>1, <3>2, KernelAssumption
  <2>2. y = [k2 EXCEPT !.st[t] = "WAITING", !.req = TRUE, !.mx[m].list = Append(@, t)]
    BY <1>3 DEF EnterMutex
  <2>3. k' = OsSchedUnlock(y)
    BY <1>3 DEF CoEnterMutexSection
  <2>4. KType(y) /\ y.lock = k.lock
    BY <1>1, EnterKept DEF Kept
  <2> HIDE DEF o, y
  <2>5. /\ KType(k1) /\ k1.rdy = k.rdy /\ k1.st = k.st /\ k1.run = k.run /\ k1.ev = k.ev
        /\ k1.srq = k.srq /\ k1.prio = k.prio /\ k1.req = k.req /\ k1.lock = k.lock
        /\ k1.mx = k.mx
    BY <1>1 DEF KType, Fields
  <2>6. Sorted(k, k1)
    <3> HIDE DEF k1
    <3> QED BY <1>1, <2>5, SortedSame
  <2> DEFINE prio == [k.prio EXCEPT ![o] = k.prio[t]]
             b == [k.mx[m] EXCEPT !.hipri = t]
             mx == [k.mx EXCEPT ![m] = b]
  <2>7. raised = [k1 EXCEPT !.prio = prio, !.mx = mx]
    <3> HIDE DEF k1
    <3> QED BY <2>5
  <2> HIDE DEF k1, raised
  <2>8. /\ mx \in [Mutex -> MutexType] /\ prio \in [Task -> Nat]
        /\ \A u \in Task \ {o} : prio[u] = k.prio[u]
    <3>1. b \in MutexType
      BY <1>1 DEF MutexType
    <3>2. k.prio[t] \in Nat
      BY <1>1
    <3> HIDE DEF b, t
    <3> QED BY <1>1, <2>1, <3>1, <3>2
  <2> HIDE DEF prio, mx
  <2>9. KType(raised)
    BY <2>5, <2>7, <2>8 DEF KType, Fields
  <2>10. /\ raised.rdy = k.rdy /\ raised.st = k.st /\ raised.run = k.run /\ raised.ev = k.ev
         /\ raised.srq = k.srq /\ raised.req = k.req /\ raised.prio = prio
    BY <2>5, <2>7 DEF KType, Fields
  <2>11. Lined(raised)
    BY <1>1, <2>9, <2>10, LinedSame
  <2>12. Ranked(raised, {o})
    <3>1. Ranked(k, {o})
      BY <1>1, RankedMore
    <3> QED BY <1>1, <2>1, <2>8, <2>10, <3>1, Retouched
  <2>13. KType(k2) /\ Ordered(k2, {}) /\ k2.srq = << >>
    <3>1. CASE k.prio[o] <= k.prio[t]
      <4>1. k2 = k1
        BY <3>1
      <4> HIDE DEF k2
      <4> QED BY <2>6, <4>1 DEF Sorted, Lined, Ranked
    <3>2. CASE ~(k.prio[o] <= k.prio[t]) /\ k.st[o] = "READY"
      <4> DEFINE z == InsertToTCBRdyList(RemoveFromTCBRdyList(raised, o), o)
      <4>1. k2 = z
        BY <3>2
      <4>2. raised.st[o] = "READY"
        BY <2>10, <3>2
      <4>3. Sorted(raised, z)
        BY <2>1, <2>11, <2>12, <4>2, Moved
      <4> HIDE DEF z, k2
      <4> QED BY <4>1, <4>3 DEF Sorted, Lined, Ranked
    <3>3. CASE ~(k.prio[o] <= k.prio[t]) /\ k.st[o] # "READY"
      <4>1. k2 = ReorderWaiting(raised, o)
        BY <3>3
      <4> HIDE DEF k2
      <4>2. k2 = raised
        BY <2>1, <2>11, <4>1, NoPlace
      <4>3. o \notin ToSet(raised.rdy) /\ o # raised.run
        BY <2>1, <2>10, <3>3, RankParts
      <4>4. Ranked(raised, {})
        BY <2>9, <2>12, <4>3, Aside
      <4> QED BY <2>11, <4>2, <4>4 DEF Lined, Ranked
    <3> QED BY <3>1, <3>2, <3>3
  <2> HIDE DEF k2
  <2>14. y.rdy = k2.rdy /\ y.prio = k2.prio /\ y.req /\ y.srq = k2.srq
    BY <2>2, <2>13 DEF KType, Fields
  <2>15. Ranked(y, {})
    BY <2>13, <2>14, Requested
  <2>16. k.srq = << >>
    BY RankParts
  <2> QED BY <1>1, <2>3, <2>4, <2>13, <2>14, <2>15, <2>16, EndsRanked
<1> QED BY <1>2, <1>3

\* The tick asks for a switch, and it makes the delays that end ready.
LEMMA RankTick ==
    ASSUME Sound, Ranks(k, call), Tick
    PROVE  Ranks(k', call')
<1> DEFINE slice == IF k.slice < 0 THEN k.slice ELSE k.slice - 1
           k1 == [k EXCEPT !.slice = slice, !.req = TRUE]
           head == k.dly[1]
           less == [k1 EXCEPT !.tick[head] = @ - 1]
           held == [k1 EXCEPT !.tick[head] = 0, !.timeReq = TRUE]
           zero == [k1 EXCEPT !.tick[head] = 0]
           k2 == IF k.tick[head] > 1 THEN less
                 ELSE IF k.lock > 0 THEN held ELSE TimeDispose(zero)
           y == IF k.dly = << >> THEN k1 ELSE k2
           Beats(x) == /\ KType(x) /\ x.rdy = k.rdy /\ x.prio = k.prio /\ x.run = k.run
                       /\ x.lock = k.lock /\ x.srq = k.srq /\ x.req
<1>1. KType(k) /\ k.lock \in Nat /\ k.run \in Task /\ Calls(k, call)
  BY SoundParts
<1>2. k' = OsSchedUnlock(y) /\ UNCHANGED call
  BY DEF Tick, SysTick
<1> HIDE DEF slice, head
<1>3. Beats(k1)
  BY <1>1 DEF KType, Fields
<1>4. Beats(less) /\ Beats(held) /\ Beats(zero)
  <2> HIDE DEF k1
  <2>1. Beats(less)
    BY <1>3 DEF KType, Fields
  <2>2. Beats(held)
    BY <1>3 DEF KType, Fields
  <2>3. Beats(zero)
    BY <1>3 DEF KType, Fields
  <2> QED BY <2>1, <2>2, <2>3
<1> HIDE DEF k1, less, held, zero
<1>5. CASE k.lock > 0
  <2>1. Beats(y)
    BY <1>3, <1>4, <1>5
  <2> HIDE DEF y
  <2>2. k' = y
    BY <1>2, <1>5, <2>1, UnlockSwitched
  <2>3. Ordered(k, Touched(k, call))
    BY DEF Ranks, Ranked
  <2>4. Touched(k', call') = Touched(k, call)
    BY <1>2, <2>1, <2>2 DEF Touched
  <2>5. Ranked(k', Touched(k', call'))
    BY <2>1, <2>2, <2>3, <2>4, Requested
  <2>6. k'.lock # 0
    BY <1>5, <2>1, <2>2
  <2> QED BY <2>5, <2>6 DEF Ranks
<1>6. CASE ~(k.lock > 0)
  <2>1. Ordered(k, {})
    <3>1. CASE call[k.run].op # "prio"
      BY <3>1, RankParts
    <3>2. CASE call[k.run].op = "prio"
      <4>1. Alone(k, call, k.run)
        BY <1>1, <1>6, <3>2, RunCall
      <4>2. call[k.run].task = k.run
        BY <3>2, <4>1, AloneCall
      <4>3. Ordered(k, {k.run})
        BY <3>2, <4>2 DEF Ranks, Ranked, Touched
      <4>4. \A i \in DOMAIN k.rdy : k.rdy[i] # k.run
        <5>1. k.run \notin ToSet(k.rdy) /\ k.rdy \in Seq(Task)
          BY RankParts DEF KType
        <5> QED BY <5>1 DEF ToSet
      <4> QED BY <4>3, <4>4 DEF Ordered
    <3> QED BY <3>1, <3>2
  <2>2. ASSUME NEW x, Beats(x) PROVE Ranked(x, {})
    BY <2>1, <2>2, Requested
  <2>3. KType(y) /\ Ranked(y, {}) /\ y.srq = k.srq /\ y.lock = k.lock
    <3>1. ASSUME NEW x, Beats(x)
          PROVE  KType(x) /\ Ranked(x, {}) /\ x.srq = k.srq /\ x.lock = k.lock
      BY <2>2, <3>1
    <3>2. LET x == TimeDispose(zero)
          IN KType(x) /\ Ranked(x, {}) /\ x.srq = k.srq /\ x.lock = k.lock
      <4> DEFINE x == TimeDispose(zero)
      <4>1. KType(zero) /\ Ranked(zero, {}) /\ zero.srq = k.srq /\ zero.lock = k.lock
        BY <1>4, <3>1
      <4>2. Ranked(x, {}) /\ Unraised(zero, x) /\ KType(x)
        BY <4>1, DisposeRanked, TimeDisposeKept DEF Kept
      <4> HIDE DEF x
      <4> QED BY <4>1, <4>2 DEF Unraised, x
    <3> HIDE DEF Beats
    <3> QED BY <1>3, <1>4, <1>6, <3>1, <3>2
  <2> HIDE DEF y
  <2> QED BY <1>1, <1>2, <2>3, EndsRanked
<1> QED BY <1>5, <1>6

(***************************************************************************)
(* Part 5.  The initial state, and the theorem.                            *)
(***************************************************************************)

\* The tasks that are created before CoStartOS have the priority that the
\* program asked for, and are ready in their order.
Booted(y, spare, i) == Booting(y, spare, i) /\ Ranked(y, {}) /\ y.prio = y.base

LEMMA BootedFirst ==
    ASSUME NEW spare \in Seq(Task), IsInjective(spare), Idle \notin ToSet(spare)
    PROVE  Booted(CoInitOS(spare), spare, 0)
<1> DEFINE x == CoInitOS(spare)
<1>1. KType(x) /\ x.rdy = << >> /\ x.prio = x.base
  BY InitType DEF CoInitOS
<1>2. Booting(x, spare, 0)
  BY BootFirst
<1> HIDE DEF x
<1>3. Ranked(x, {})
  <2>1. << >> \in Seq(Task) /\ Len(<< >>) = 0
    OBVIOUS
  <2>2. ToSet(<< >>) = {} /\ DOMAIN << >> = 1 .. 0
    BY <2>1, Elements
  <2> QED BY <1>1, <2>2 DEF Ranked, Ordered, Leads
<1> QED BY <1>1, <1>2, <1>3 DEF Booted, x

LEMMA BootedNext ==
    ASSUME NEW x, NEW spare, NEW i \in Nat, Booted(x, spare, i), i + 1 \in Task \ {Idle},
           i + 1 \notin ToSet(spare), NEW p, p[i + 1] \in 0 .. Lowest
    PROVE  Booted(BootOne(x, p, i + 1), spare, i + 1)
<1> DEFINE t == i + 1
           prio == [x.prio EXCEPT ![t] = p[t]]
           base == [x.base EXCEPT ![t] = p[t]]
           y == [x EXCEPT !.prio = prio, !.base = base]
           z == BootOne(x, p, t)
<1>1. Booting(z, spare, t)
  BY BootNext DEF Booted
<1>2. /\ KType(x) /\ x.prio \in [Task -> Nat] /\ x.run = Idle /\ Ranked(x, {}) /\ x.prio = x.base
      /\ ToSet(x.rdy) = {u \in Task : x.st[u] = "READY"}
      /\ \A u \in Task : x.st[u] = IF u = Idle THEN "RUNNING"
                                   ELSE IF u \in 1 .. i THEN "READY" ELSE "DORMANT"
  BY DEF Booted, Booting, Typed, KType, Placed
<1>3. t \in Task /\ t # Idle /\ t \notin 1 .. i /\ p[t] \in Nat
  BY KernelAssumption
<1> HIDE DEF t
<1>4. prio \in [Task -> Nat] /\ prio = base /\ \A u \in Task \ {t} : prio[u] = x.prio[u]
  BY <1>2, <1>3
<1>5. z = InsertToTCBRdyList(y, t)
  BY DEF BootOne
<1> HIDE DEF z, prio, base
<1>6. KType(y)
  BY <1>2, <1>4 DEF KType, Fields
<1>7. y.rdy = x.rdy /\ y.run = x.run /\ y.req = x.req /\ y.prio = prio /\ y.base = base
  BY <1>2 DEF KType, Fields
<1> HIDE DEF y
<1>8. Ranked(y, {})
  <2>1. Ranked(x, {t})
    BY <1>2, RankedMore
  <2>2. Ranked(y, {t})
    BY <1>2, <1>3, <1>4, <1>7, <2>1, Retouched
  <2>3. t \notin ToSet(y.rdy) /\ t # y.run
    BY <1>2, <1>3, <1>7
  <2> QED BY <1>6, <2>2, <2>3, Aside
<1>9. Ordered(y, {})
  BY <1>8 DEF Ranked
<1>10. Ranked(z, {}) /\ z.prio = y.prio /\ z.base = y.base
  BY <1>3, <1>5, <1>6, <1>8, <1>9, RankIn
<1> QED BY <1>1, <1>4, <1>7, <1>10 DEF Booted, z, t

LEMMA BootRanked ==
    ASSUME NEW p \in Seq(0 .. Lowest), DOMAIN p \subseteq Task \ {Idle}, NEW spare \in Spare(p), NEW c
    PROVE  LET x == Boot(p, spare)
           IN Ranks(x, c) /\ x.prio = x.base /\ \A m \in Mutex : x.mx[m].list = << >> /\ x.mx[m].own = InvalidId
<1> DEFINE n == Len(p)
           s == [i \in DOMAIN p |-> i]
           x == CoInitOS(spare)
           Loop(g, m) == g = [i \in 0 .. m |-> IF i = 0 THEN x ELSE BootOne(g[i - 1], p, s[i])]
           h == CHOOSE g : Loop(g, Len(s))
<1>1. n \in Nat /\ DOMAIN p = 1 .. n
  BY LenProperties
<1>2. Len(s) = n /\ \A i \in 1 .. n : s[i] = i
  BY <1>1
<1>3. Boot(p, spare) = OsSchedUnlock(h[Len(s)])
  BY DEF Boot, Each, BootOne
<1>4. /\ spare \in Seq(Task) /\ IsInjective(spare)
      /\ ToSet(spare) = Task \ ({Idle} \cup 1 .. n)
  BY <1>1, SpareAll
<1>5. Booted(x, spare, 0)
  BY <1>4, BootedFirst
<1> HIDE DEF n, s, x
<1>6. \E g : Loop(g, n)
  <2> DEFINE I == {m \in 0 .. n : \E g : Loop(g, m)}
  <2>1. 0 \in I
    <3>1. Loop([i \in 0 .. 0 |-> x], 0)
      OBVIOUS
    <3> HIDE DEF Loop
    <3> QED BY <1>1, <3>1
  <2>2. ASSUME NEW m \in 0 .. n - 1, m \in I PROVE m + 1 \in I
    <3>1. PICK g : Loop(g, m)
      BY <2>2
    <3> DEFINE gg == [i \in 0 .. m + 1 |-> IF i <= m THEN g[i] ELSE BootOne(g[m], p, s[m + 1])]
    <3>2. Loop(gg, m + 1)
      BY <1>1, <3>1
    <3> HIDE DEF Loop, gg
    <3> QED BY <1>1, <3>2
  <2> HIDE DEF I
  <2>3. n \in I
    BY <1>1, <2>1, <2>2, Rounds
  <2> QED BY <2>3 DEF I
<1>7. Loop(h, n)
  BY <1>2, <1>6
<1> HIDE DEF h
<1> DEFINE I == {i \in 0 .. n : Booted(h[i], spare, i)}
<1>8. 0 \in I
  <2>1. h[0] = x /\ 0 \in 0 .. n
    BY <1>1, <1>7
  <2> QED BY <1>5, <2>1
<1>9. ASSUME NEW i \in 0 .. n - 1, i \in I PROVE i + 1 \in I
  <2>1. h[i + 1] = BootOne(h[i], p, i + 1) /\ i \in Nat
    BY <1>1, <1>2, <1>7
  <2>2. i + 1 \in Task \ {Idle} /\ p[i + 1] \in 0 .. Lowest /\ i + 1 \notin ToSet(spare)
    <3>1. i + 1 \in 1 .. n
      BY <1>1
    <3> QED BY <1>1, <1>4, <3>1, ElementOfSeq DEF n
  <2>3. Booted(h[i], spare, i)
    BY <1>9
  <2>4. Booted(h[i + 1], spare, i + 1)
    BY <2>1, <2>2, <2>3, BootedNext
  <2> QED BY <1>1, <2>4
<1> HIDE DEF I
<1>10. n \in I
  BY <1>1, <1>8, <1>9, Rounds
<1> DEFINE y == h[n]
           z == OsSchedUnlock(y)
<1>11. Booted(y, spare, n)
  BY <1>10 DEF I
<1> HIDE DEF y
<1>12. /\ KType(y) /\ Ranked(y, {}) /\ y.srq = << >> /\ y.lock \in Nat /\ y.prio = y.base
       /\ \A m \in Mutex : y.mx[m].own = InvalidId /\ y.mx[m].list = << >>
  BY <1>11 DEF Booted, Booting, Typed
<1>13. Ranks(z, c) /\ Unraised(y, z)
  BY <1>12, UnlockRanked
<1>14. Boot(p, spare) = z
  BY <1>2, <1>3 DEF y
<1> HIDE DEF z
<1> QED BY <1>12, <1>13, <1>14 DEF Unraised

LEMMA InitRanks ==
    ASSUME Init
    PROVE  Ranks(k, call)
<1>1. PICK p \in prog.boot : \E spare \in Spare(p) : k = Boot(p, spare)
  BY DEF Init
<1>2. PICK spare \in Spare(p) : k = Boot(p, spare)
  BY <1>1
<1>3. p \in Seq(0 .. Lowest) /\ DOMAIN p \subseteq Task \ {Idle}
  BY TaskSchedAssumption DEF Init
<1> QED BY <1>2, <1>3, BootRanked

LEMMA NextRanks ==
    ASSUME Guarded, Sound, Ranks(k, call), [Next]_vars
    PROVE  Ranks(k', call')
<1> DEFINE After == Ranks(k', call')
<1> SUFFICES After
  OBVIOUS
<1>1. CASE UNCHANGED vars
  BY <1>1 DEF vars
<1>2. CASE Next
  <2>1. Program \/ Tick
    BY <1>2 DEF Next
  <2>2. ASSUME NEW p \in prog.prio, NEW w \in BOOLEAN, AssignTCB(p, w) PROVE After
    BY <2>2, RankAssign
  <2>3. ASSUME NEW t \in Task, DelTest(t) \/ SuspendTest(t) \/ AwakeTest(t) PROVE After
    BY <2>3, RankTests
  <2>4. ASSUME NEW t \in Task, NEW p \in prog.prio, SetPrioTest(t, p) PROVE After
    BY <2>4, RankSetPrioTest
  <2>5. ASSUME NEW n \in prog.delays, CoTickDelay(n) PROVE After
    BY <2>5, RankDelay
  <2>6. ASSUME NEW t \in Task, NEW n \in prog.delays \cup {0}, ResetDelayTest(t, n) PROVE After
    BY <2>6, RankTests
  <2>7. CASE CreateTask \/ DelLeave \/ CoDelTask
    BY <2>7, RankCreate, RankDelLeave, RankDelete
  <2>8. CASE CoSuspendTask \/ CoAwakeTask \/ CoSetPriority \/ CoResetTaskDelayTick
    BY <2>8, RankSuspend, RankAwake, RankSetPriority, RankReset
  <2>9. CASE CoCreateMutex \/ EnterReturn
    BY <2>9, RankCreateMutex, RankEnterReturn
  <2>10. ASSUME NEW m \in Mutex, CoEnterMutexSection(m) \/ CoLeaveMutexSection(m) PROVE After
    BY <2>10, RankEnter, RankLeave
  <2>11. CASE CoSchedLock \/ CoSchedUnlock
    BY <2>11, RankLock, RankUnlock
  <2>12. CASE Tick
    BY <2>12, RankTick
  <2> HIDE DEF After
  <2> QED BY <2>1, <2>2, <2>3, <2>4, <2>5, <2>6, <2>7, <2>8, <2>9, <2>10, <2>11, <2>12 DEF Program
<1> QED BY <1>1, <1>2

LEMMA RanksHighest ==
    ASSUME Sound, Ranks(k, call)
    PROVE  HighestRuns
<1> SUFFICES ASSUME InCall("prio") = {}
             PROVE  /\ \A i, j \in DOMAIN k.rdy : i < j => k.prio[k.rdy[i]] <= k.prio[k.rdy[j]]
                    /\ k.lock = 0 => \A t \in ToSet(k.rdy) : k.prio[k.run] <= k.prio[t]
  BY DEF HighestRuns
<1>1. Touched(k, call) = {}
  BY SoundParts DEF InCall, Touched
<1> QED BY <1>1 DEF Ranks, Ranked, Ordered, Leads

\* The ready list is in the order of priorities, and without a lock nobody in
\* it has a higher priority than the task that runs, whatever the mutexes and
\* CoSetPriority do to the priorities of tasks that run, are ready or wait.
THEOREM HighestSpec == Guarded /\ ShortDelays => (Spec => []HighestRuns)
<1> SUFFICES ASSUME Guarded, ShortDelays PROVE Spec => []HighestRuns
  OBVIOUS
<1> DEFINE R == Ranks(k, call)
<1>1. Init => Sound /\ R
  BY InitSound, InitRanks
<1>2. Sound /\ R /\ [Next]_vars => Sound' /\ R'
  <2>1. Sound /\ [Next]_vars => Sound'
    BY NextSound
  <2>2. Sound /\ R /\ [Next]_vars => Ranks(k', call')
    BY NextRanks
  <2> QED BY <2>1, <2>2
<1>3. Sound /\ R => HighestRuns
  BY RanksHighest
<1> HIDE DEF R
<1> QED BY <1>1, <1>2, <1>3, PTL DEF Spec

(***************************************************************************)
(* Part 6.  Priorities that are inherited: mutexes and CoSetPriority.      *)
(***************************************************************************)

\* The owner of m has a priority as high as every task that waits for m, but
\* for those in U, and the priority that it is to get back is between its own
\* and the one that its program asked for.
Heir(x, m, U) ==
  LET o == x.mx[m].own
  IN /\ Idle \notin ToSet(x.mx[m].list)
     /\ o # InvalidId => /\ o # Idle /\ x.prio[o] <= x.mx[m].orig /\ x.mx[m].orig <= x.base[o]
                         /\ \A t \in ToSet(x.mx[m].list) \ U : x.prio[o] <= x.prio[t]

Inherits(x, U) ==
  /\ x.base \in [Task -> Nat]
  /\ \A t \in Task : x.prio[t] <= x.base[t]
  /\ \A m \in Mutex : Heir(x, m, U)

\* A mutex with a list has an owner, and mutexID leads from both to the mutex.
Bound(x) ==
  \A m \in Mutex :
    LET o == x.mx[m].own
    IN /\ o # InvalidId => x.mid[o] = m /\ o \notin ToSet(x.mx[m].list)
       /\ o = InvalidId => x.mx[m].list = << >>
       /\ \A t \in ToSet(x.mx[m].list) : x.mid[t] = m

\* Nobody waits for an event.
Quiet(x) == KType(x) /\ x.ev = [t \in Task |-> InvalidId]

LEMMA QuietPlace ==
    ASSUME NEW x, Quiet(x), NEW t \in Task
    PROVE  ReorderWaiting(x, t) = x
  BY DEF Quiet, ReorderWaiting

LEMMA MutexFields ==
    ASSUME NEW x, KType(x), NEW m \in Mutex
    PROVE  /\ x.mx[m] \in MutexType /\ x.mx[m].own \in Task \cup {InvalidId} /\ x.mx[m].orig \in Nat
           /\ x.mx[m].list \in Seq(Task) /\ ToSet(x.mx[m].list) \subseteq Task
           /\ x.mx[m].hipri \in Task \cup {InvalidId}
<1>1. x.mx[m] \in MutexType
  BY DEF KType
<1>2. x.mx[m].list \in Seq(Task)
  BY <1>1 DEF MutexType
<1>3. ToSet(x.mx[m].list) \subseteq Task
  BY <1>2, Elements
<1> QED BY <1>1, <1>2, <1>3 DEF MutexType

\* What Heir says of m is about the tasks of m alone.
LEMMA HeirKept ==
    ASSUME NEW x, NEW y, NEW m, NEW U, NEW V, Heir(x, m, U), U \subseteq V,
           y.mx[m].own = x.mx[m].own, y.mx[m].orig = x.mx[m].orig,
           ToSet(y.mx[m].list) \subseteq ToSet(x.mx[m].list),
           x.mx[m].own # InvalidId => /\ y.prio[x.mx[m].own] = x.prio[x.mx[m].own]
                                      /\ y.base[x.mx[m].own] = x.base[x.mx[m].own],
           \A t \in ToSet(x.mx[m].list) \ V : y.prio[t] = x.prio[t]
    PROVE  Heir(y, m, V)
  BY DEF Heir

\* No priority is written, and no mutex but in its hipriTaskID.
Level(x, y) ==
  /\ KType(y) /\ y.ev = x.ev /\ y.st = x.st /\ y.mid = x.mid
  /\ y.prio = x.prio /\ y.base = x.base
  /\ \A m \in Mutex : /\ y.mx[m].own = x.mx[m].own /\ y.mx[m].orig = x.mx[m].orig
                      /\ y.mx[m].list = x.mx[m].list

\* The blocks of all mutexes but m are the same.
Beside(x, y, m) == \A n \in Mutex \ {m} : y.mx[n] = x.mx[n]

LEMMA LevelSelf ==
    ASSUME NEW x, KType(x)
    PROVE  Level(x, x)
  BY DEF Level

LEMMA LevelTrans ==
    ASSUME NEW x, NEW y, NEW z, Level(x, y), Level(y, z)
    PROVE  Level(x, z)
  BY DEF Level

LEMMA LevelInherits ==
    ASSUME NEW x, NEW y, NEW U, NEW V, Level(x, y), Inherits(x, U), U \subseteq V
    PROVE  Inherits(y, V)
<1>1. ASSUME NEW m \in Mutex PROVE Heir(y, m, V)
  BY HeirKept DEF Level, Inherits
<1> QED BY <1>1 DEF Level, Inherits

\* The priority that CoLeaveMutexSection and CoSetPriority choose is as high
\* as that of every task in the list.
LEMMA HighestLeast ==
    ASSUME NEW x, KType(x), NEW list \in Seq(Task), NEW p \in Nat, NEW id \in Task \cup {InvalidId}
    PROVE  LET h == Highest(x, list, p, id)
           IN /\ h.id \in Task \cup {InvalidId} /\ h.prio \in Nat /\ h.prio <= p
              /\ \A t \in ToSet(list) : h.prio <= x.prio[t]
              /\ h.prio # p => \E t \in ToSet(list) : h.prio = x.prio[t]
              /\ h.prio = p => h.id = id
<1> DEFINE best == {i \in DOMAIN list : /\ x.prio[list[i]] < p
                                        /\ \A j \in DOMAIN list : x.prio[list[i]] <= x.prio[list[j]]}
           first == CHOOSE i \in best : \A j \in best : i <= j
           h == Highest(x, list, p, id)
           P == {x.prio[list[i]] : i \in 1 .. Len(list)}
<1>1. /\ Len(list) \in Nat /\ DOMAIN list = 1 .. Len(list)
      /\ ToSet(list) = {list[i] : i \in 1 .. Len(list)}
  BY Elements
<1>2. \A i \in 1 .. Len(list) : list[i] \in Task /\ x.prio[list[i]] \in Nat
  BY <1>1, ElementOfSeq DEF KType
<1>3. h = IF best = {} THEN [id |-> id, prio |-> p]
          ELSE [id |-> list[first], prio |-> x.prio[list[first]]]
  BY DEF Highest
<1>4. best # {} => first \in best
  <2>1. best \in SUBSET Nat
    BY <1>1
  <2> HIDE DEF best
  <2>2. best # {} => \E i \in best : \A j \in best : i <= j
    BY <2>1, Least
  <2> QED BY <2>2
<1>5. h.id \in Task \cup {InvalidId} /\ h.prio \in Nat
  BY HighestType
<1> HIDE DEF first, h
<1>6. CASE best # {}
  <2>1. first \in 1 .. Len(list) /\ x.prio[list[first]] < p
    BY <1>1, <1>4, <1>6
  <2>2. \A j \in 1 .. Len(list) : x.prio[list[first]] <= x.prio[list[j]]
    BY <1>1, <1>4, <1>6
  <2>3. h.prio = x.prio[list[first]]
    BY <1>3, <1>6
  <2>4. \E t \in ToSet(list) : h.prio = x.prio[t]
    BY <1>1, <2>1, <2>3
  <2> HIDE DEF best
  <2> QED BY <1>1, <1>2, <1>5, <2>1, <2>2, <2>3, <2>4 DEF h
<1>7. CASE best = {}
  <2>1. h.prio = p /\ h.id = id
    BY <1>3, <1>7
  <2>2. ASSUME NEW i \in 1 .. Len(list), x.prio[list[i]] < p PROVE FALSE
    <3>1. P \in SUBSET Nat /\ P # {}
      BY <1>2
    <3>2. \E n \in P : \A q \in P : n <= q
      <4> HIDE DEF P
      <4> QED BY <3>1, Least
    <3>3. PICK j \in 1 .. Len(list) : \A q \in P : x.prio[list[j]] <= q
      BY <3>2
    <3>4. \A a \in 1 .. Len(list) : x.prio[list[j]] <= x.prio[list[a]]
      BY <3>3
    <3>5. x.prio[list[j]] < p
      <4>1. x.prio[list[j]] <= x.prio[list[i]] /\ x.prio[list[j]] \in Nat /\ x.prio[list[i]] \in Nat
        BY <1>2, <3>4
      <4> QED BY <2>2, <4>1
    <3>6. j \in best
      BY <1>1, <3>4, <3>5
    <3> QED BY <1>7, <3>6
  <2>3. \A t \in ToSet(list) : h.prio <= x.prio[t]
    <3> HIDE DEF best
    <3>1. \A i \in 1 .. Len(list) : h.prio <= x.prio[list[i]]
      BY <1>2, <2>1, <2>2
    <3> QED BY <1>1, <3>1
  <2> HIDE DEF best
  <2> QED BY <1>5, <2>1, <2>3 DEF h
<1> QED BY <1>6, <1>7

\* The assignment of the priority, and of the one to give back.
Assigned(x, y, t, p) ==
  /\ KType(y) /\ y.ev = x.ev /\ y.st = x.st /\ y.mid = x.mid /\ y.base = x.base
  /\ Beside(x, y, x.mid[t])
  /\ \A u \in Task : y.prio[u] = IF u = t /\ ~KeepsRaised(x, t, p) THEN p ELSE x.prio[u]
  /\ \A m \in Mutex : /\ y.mx[m].own = x.mx[m].own /\ y.mx[m].list = x.mx[m].list
                      /\ y.mx[m].orig = IF Holds(x, t) /\ m = x.mid[t] THEN p ELSE x.mx[m].orig

LEMMA HeadAssigned ==
    ASSUME NEW x, KType(x), NEW t \in Task, NEW p \in Nat
    PROVE  Assigned(x, SetPriorityHead(x, t, p), t, p)
<1> DEFINE n == x.mid[t]
           b == [x.mx[n] EXCEPT !.orig = p]
           mx == IF Holds(x, t) THEN [x.mx EXCEPT ![n] = b] ELSE x.mx
           prio == IF KeepsRaised(x, t, p) THEN x.prio ELSE [x.prio EXCEPT ![t] = p]
           y == SetPriorityHead(x, t, p)
<1>1. Holds(x, t) => n \in Mutex
  BY DEF Holds, KType
<1>2. Holds(x, t) => /\ b \in MutexType /\ b.own = x.mx[n].own /\ b.list = x.mx[n].list
                     /\ b.orig = p
  BY <1>1 DEF KType, MutexType
<1>3. y = [x EXCEPT !.mx = mx, !.prio = prio]
  <2>1. CASE Holds(x, t)
    BY <2>1 DEF SetPriorityHead, KType, Fields
  <2>2. CASE ~Holds(x, t)
    <3>1. /\ ~KeepsRaised(x, t, p)
          /\ mx = x.mx /\ prio = [x.prio EXCEPT ![t] = p]
      BY <2>2 DEF KeepsRaised
    <3>2. y = [x EXCEPT !.prio[t] = p]
      BY <2>2, <3>1 DEF SetPriorityHead
    <3> HIDE DEF y, mx, prio
    <3> QED BY <3>1, <3>2 DEF KType, Fields
  <2> QED BY <2>1, <2>2
<1> HIDE DEF b, y, n
<1>4. /\ mx \in [Mutex -> MutexType]
      /\ \A m \in Mutex : mx[m] = IF Holds(x, t) /\ m = n THEN b ELSE x.mx[m]
  BY <1>1, <1>2 DEF KType
<1>5. /\ prio \in [Task -> Nat]
      /\ \A u \in Task : prio[u] = IF u = t /\ ~KeepsRaised(x, t, p) THEN p ELSE x.prio[u]
  BY DEF KType
<1> HIDE DEF mx, prio
<1>6. /\ KType(y) /\ y.ev = x.ev /\ y.st = x.st /\ y.mid = x.mid /\ y.base = x.base
      /\ y.mx = mx /\ y.prio = prio
  BY <1>3, <1>4, <1>5 DEF KType, Fields
<1>7. \A m \in Mutex : /\ mx[m].own = x.mx[m].own /\ mx[m].list = x.mx[m].list
                       /\ mx[m].orig = IF Holds(x, t) /\ m = x.mid[t] THEN p ELSE x.mx[m].orig
  BY <1>2, <1>4 DEF n
<1>8. Beside(x, y, x.mid[t])
  BY <1>4, <1>6 DEF Beside, n
<1> QED BY <1>5, <1>6, <1>7, <1>8 DEF Assigned, y

LEMMA HipriLevel ==
    ASSUME NEW x, KType(x), NEW m \in Mutex, NEW id \in Task \cup {InvalidId}
    PROVE  LET y == [x EXCEPT !.mx[m].hipri = id] IN Level(x, y) /\ Beside(x, y, m)
<1> DEFINE b == [x.mx[m] EXCEPT !.hipri = id]
           mx == [x.mx EXCEPT ![m] = b]
           y == [x EXCEPT !.mx[m].hipri = id]
<1>1. b \in MutexType /\ b.own = x.mx[m].own /\ b.list = x.mx[m].list /\ b.orig = x.mx[m].orig
  BY MutexFields DEF MutexType
<1>2. y = [x EXCEPT !.mx = mx]
  BY DEF KType, Fields
<1> HIDE DEF b, y
<1>3. mx \in [Mutex -> MutexType] /\ \A n \in Mutex : mx[n] = IF n = m THEN b ELSE x.mx[n]
  BY <1>1 DEF KType
<1> HIDE DEF mx
<1>4. /\ KType(y) /\ y.ev = x.ev /\ y.st = x.st /\ y.mid = x.mid /\ y.base = x.base
      /\ y.mx = mx /\ y.prio = x.prio
  BY <1>2, <1>3 DEF KType, Fields
<1> QED BY <1>1, <1>3, <1>4 DEF Level, Beside, y

\* A ready task changes its place.
LEMMA MovedLevel ==
    ASSUME NEW x, KType(x), NEW t \in Task, x.st[t] = "READY"
    PROVE  LET y == InsertToTCBRdyList(RemoveFromTCBRdyList(x, t), t) IN Level(x, y) /\ y.mx = x.mx
<1> DEFINE w == RemoveFromTCBRdyList(x, t)
           y == InsertToTCBRdyList(w, t)
<1>1. KType(w) /\ Unraised(x, w)
  BY RemoveUnraised, RemoveRdyKept DEF Kept
<1>2. w.ev = x.ev /\ w.st = x.st /\ w.mid = x.mid
  BY DEF RemoveFromTCBRdyList, KType, Fields
<1> HIDE DEF w
<1>3. KType(y) /\ Unraised(w, y)
  BY <1>1, InsertUnraised, InsertRdyKept DEF Kept
<1>4. y.ev = w.ev /\ y.mid = w.mid /\ y.st = [w.st EXCEPT ![t] = "READY"]
  BY <1>1 DEF InsertToTCBRdyList, KType, Fields
<1> HIDE DEF y
<1>5. y.st = x.st
  BY <1>2, <1>4 DEF KType
<1>6. y.mx = x.mx /\ y.prio = x.prio /\ y.base = x.base
  BY <1>1, <1>3 DEF Unraised
<1> QED BY <1>2, <1>3, <1>4, <1>5, <1>6 DEF Level, y, w

LEMMA TailLevel ==
    ASSUME NEW x, Quiet(x), NEW t \in Task, x.st[t] # "DORMANT"
    PROVE  LET c == SetPriorityTail(x, t, x.st[t])
               m == x.mid[t]
               h == Highest(x, x.mx[m].list, x.mx[m].orig, x.mx[m].own)
               on == x.st[t] = "WAITING" /\ m # InvalidId /\ h.prio # x.mx[m].orig
           IN /\ Level(x, c.k) /\ Beside(x, c.k, m)
              /\ ~on => c.task = InvalidId
              /\ on => c = [k |-> c.k, task |-> x.mx[m].own, prio |-> h.prio]
<1> DEFINE c == SetPriorityTail(x, t, x.st[t])
           m == x.mid[t]
           h == Highest(x, x.mx[m].list, x.mx[m].orig, x.mx[m].own)
           on == x.st[t] = "WAITING" /\ m # InvalidId /\ h.prio # x.mx[m].orig
           k0 == [x EXCEPT !.mx[m].hipri = h.id]
           k1 == ReorderWaiting(k0, t)
           Goal(d) == /\ Level(x, d.k) /\ Beside(x, d.k, m)
                      /\ ~on => d.task = InvalidId
                      /\ on => d = [k |-> d.k, task |-> x.mx[m].own, prio |-> h.prio]
<1> SUFFICES Goal(c)
  OBVIOUS
<1>1. KType(x) /\ x.st[t] \in Alive
  BY DEF Quiet, KType, Alive
<1>2. ASSUME NEW y, Level(x, y), Beside(x, y, m), ~on, c = Done(y) PROVE Goal(c)
  BY <1>2 DEF Done
<1>3. CASE x.st[t] = "READY"
  <2>1. c = Done(InsertToTCBRdyList(RemoveFromTCBRdyList(x, t), t)) /\ ~on
    BY <1>3 DEF SetPriorityTail
  <2> DEFINE y == InsertToTCBRdyList(RemoveFromTCBRdyList(x, t), t)
  <2>2. Level(x, y) /\ Beside(x, y, m)
    BY <1>1, <1>3, MovedLevel DEF Beside
  <2> HIDE DEF c, on, Goal, y, m
  <2> QED BY <1>2, <2>1, <2>2 DEF y
<1>4. CASE x.st[t] = "RUNNING"
  <2> DEFINE req == x.req \/ x.prio[t] > RdyPrio(x)
             y == [x EXCEPT !.req = req]
  <2>1. c = Done(y) /\ ~on
    BY <1>4 DEF SetPriorityTail
  <2> HIDE DEF req
  <2>2. Level(x, y) /\ Beside(x, y, m)
    BY <1>1 DEF Level, Beside, KType, Fields
  <2> HIDE DEF c, on, Goal, y
  <2> QED BY <1>2, <2>1, <2>2
<1>5. CASE x.st[t] = "WAITING" /\ m = InvalidId
  <2>1. c = Done(x) /\ ~on
    BY <1>5, QuietPlace DEF SetPriorityTail
  <2>2. Beside(x, x, m)
    BY DEF Beside
  <2> HIDE DEF c, on, Goal
  <2> QED BY <1>1, <1>2, <2>1, <2>2, LevelSelf
<1>6. CASE x.st[t] = "WAITING" /\ m # InvalidId
  <2>1. m \in Mutex
    BY <1>1, <1>6 DEF KType
  <2>2. h.id \in Task \cup {InvalidId}
    BY <1>1, <2>1, MutexFields, HighestType
  <2>3. Level(x, k0) /\ Beside(x, k0, m)
    BY <1>1, <2>1, <2>2, HipriLevel
  <2>4. c = IF h.prio = x.mx[m].orig THEN Done(k1) ELSE [k |-> k1, task |-> x.mx[m].own, prio |-> h.prio]
    BY <1>6 DEF SetPriorityTail
  <2> HIDE DEF c, k0, h
  <2>5. Quiet(k0)
    BY <2>3 DEF Quiet, Level
  <2>6. Level(x, k1) /\ Beside(x, k1, m)
    BY <2>3, <2>5, QuietPlace
  <2> HIDE DEF k1
  <2>7. CASE h.prio = x.mx[m].orig
    <3>1. c = Done(k1) /\ ~on
      BY <2>4, <2>7
    <3> HIDE DEF on, Goal
    <3> QED BY <1>2, <2>6, <3>1
  <2>8. CASE h.prio # x.mx[m].orig
    <3>1. c.k = k1 /\ c = [k |-> c.k, task |-> x.mx[m].own, prio |-> h.prio]
      BY <2>4, <2>8
    <3> QED BY <1>6, <2>6, <2>8, <3>1
  <2> QED BY <2>7, <2>8
<1> QED BY <1>1, <1>3, <1>4, <1>5, <1>6 DEF Alive

LEMMA OnceIs ==
    ASSUME NEW x, NEW t \in Task \ {Idle}, x.st[t] # "DORMANT", NEW p,
           NEW c, c = [k |-> x, task |-> t, prio |-> p]
    PROVE  /\ x.prio[t] = p => SetPriorityOnce(c) = Done(x)
           /\ x.prio[t] # p /\ KeepsRaised(x, t, p) => SetPriorityOnce(c) = Done(SetPriorityHead(x, t, p))
           /\ x.prio[t] # p /\ ~KeepsRaised(x, t, p) =>
                SetPriorityOnce(c) = SetPriorityTail(SetPriorityHead(x, t, p), t, x.st[t])
<1>1. t # InvalidId /\ t # Idle
  BY KernelAssumption
<1>2. c.k = x /\ c.task = t /\ c.prio = p
  OBVIOUS
<1> QED BY <1>1, <1>2 DEF SetPriorityOnce

\* A call that makes no other call is the last.
LEMMA FinishedOnce ==
    ASSUME NEW c, NEW d, d = SetPriorityOnce(c), d.task = InvalidId
    PROVE  Finished(c) = d.k
<1> DEFINE n == Cardinality(Task)
           s == [i \in 1 .. n |-> i]
           Loop(g, m) == g = [i \in 0 .. m |-> IF i = 0 THEN c ELSE SetPriorityOnce(g[i - 1])]
           h == CHOOSE g : Loop(g, Len(s))
           g0 == [i \in 0 .. n |-> IF i = 0 THEN c ELSE d]
<1>1. n \in Nat \ {0}
  <2>1. n \in Nat
    BY KernelAssumption, FS_CardinalityType
  <2>2. n # 0
    BY KernelAssumption, FS_EmptySet
  <2> QED BY <2>1, <2>2
<1>2. Len(s) = n
  BY <1>1
<1>3. Finished(c) = h[Len(s)].k
  BY DEF Finished, Each
<1> HIDE DEF n, s
<1>4. SetPriorityOnce(d) = d
  BY DEF SetPriorityOnce
<1>5. Loop(g0, n)
  <2>1. ASSUME NEW i \in 0 .. n
        PROVE  g0[i] = IF i = 0 THEN c ELSE SetPriorityOnce(g0[i - 1])
    <3>1. CASE i = 0
      BY <1>1, <3>1
    <3>2. CASE i = 1
      BY <1>1, <3>2
    <3>3. CASE i \notin {0, 1}
      <4>1. i - 1 \in 0 .. n /\ i - 1 # 0
        BY <1>1, <3>3
      <4> QED BY <1>1, <1>4, <3>3, <4>1
    <3> QED BY <3>1, <3>2, <3>3
  <2> HIDE DEF g0
  <2>2. g0 = [i \in 0 .. n |-> g0[i]]
    BY DEF g0
  <2> QED BY <2>1, <2>2
<1>6. Loop(h, n)
  <2> HIDE DEF Loop, g0
  <2> QED BY <1>2, <1>5
<1> HIDE DEF h, g0
<1> DEFINE I == {i \in 0 .. n : h[i] = IF i = 0 THEN c ELSE d}
<1>7. 0 \in I
  BY <1>1, <1>6
<1>8. ASSUME NEW i \in 0 .. n - 1, i \in I PROVE i + 1 \in I
  <2>1. h[i + 1] = SetPriorityOnce(h[i]) /\ i + 1 # 0 /\ i + 1 \in 0 .. n
    BY <1>1, <1>6
  <2>2. h[i] = c \/ h[i] = d
    BY <1>8
  <2>3. h[i + 1] = d
    BY <1>4, <2>1, <2>2
  <2> QED BY <2>1, <2>3
<1> HIDE DEF I
<1>9. n \in I
  BY <1>1, <1>7, <1>8, Rounds
<1>10. h[n] = d
  BY <1>1, <1>9 DEF I
<1> QED BY <1>2, <1>3, <1>10

\* CoSetPriority for the owner of a mutex, to the highest priority of those
\* that wait for it.  The chain ends there: an owner waits for no mutex.
LEMMA OwnerRaised ==
    ASSUME NEW x, Quiet(x), Bound(x), NEW m \in Mutex, NEW o \in Task \ {Idle}, x.mx[m].own = o,
           x.st[o] # "DORMANT", NEW p \in Nat, p <= x.mx[m].orig,
           \A u \in ToSet(x.mx[m].list) : p <= x.prio[u],
           NEW U, Inherits(x, U), \A n \in Mutex \ {m} : Heir(x, n, {})
    PROVE  Inherits(Finished([k |-> x, task |-> o, prio |-> p]), {})
<1> DEFINE c == [k |-> x, task |-> o, prio |-> p]
           d == SetPriorityOnce(c)
           y == SetPriorityHead(x, o, p)
           list == x.mx[m].list
<1>1. KType(x) /\ x.prio \in [Task -> Nat] /\ x.base \in [Task -> Nat]
  BY DEF Quiet, KType, Inherits
<1>2. /\ x.mx[m].orig \in Nat /\ x.prio[o] \in Nat /\ x.base[o] \in Nat
      /\ ToSet(list) \subseteq Task /\ list \in Seq(Task) /\ o # InvalidId
  BY <1>1, MutexFields, KernelAssumption
<1>3. /\ Idle \notin ToSet(list) /\ x.prio[o] <= x.mx[m].orig /\ x.mx[m].orig <= x.base[o]
  BY <1>2 DEF Inherits, Heir
<1>4. x.mid[o] = m /\ o \notin ToSet(list) /\ Holds(x, o)
  BY <1>2, KernelAssumption DEF Bound, Holds
<1>5. Assigned(x, y, o, p)
  BY <1>1, HeadAssigned
<1>6. /\ x.prio[o] = p => d = Done(x)
      /\ x.prio[o] # p /\ KeepsRaised(x, o, p) => d = Done(y)
      /\ x.prio[o] # p /\ ~KeepsRaised(x, o, p) => d = SetPriorityTail(y, o, x.st[o])
  BY OnceIs
<1>7. d.task = InvalidId => Finished(c) = d.k
  BY FinishedOnce
<1> HIDE DEF c, d, y
<1>8. CASE x.prio[o] = p
  <2>1. d.task = InvalidId /\ d.k = x
    BY <1>6, <1>8 DEF Done
  <2>2. Heir(x, m, {})
    BY <1>2, <1>3, <1>8 DEF Heir, Inherits
  <2>3. Inherits(x, {})
    BY <2>2 DEF Inherits
  <2> QED BY <1>7, <2>1, <2>3 DEF c
<1>9. y.mx[m].orig = p /\ y.mx[m].own = o /\ y.mx[m].list = list
  BY <1>4, <1>5 DEF Assigned
<1>10. ASSUME NEW n \in Mutex \ {m}
       PROVE  /\ y.mx[n].own = x.mx[n].own /\ y.mx[n].orig = x.mx[n].orig
              /\ y.mx[n].list = x.mx[n].list
              /\ o \notin ToSet(x.mx[n].list) /\ x.mx[n].own # o
  BY <1>2, <1>4, <1>5 DEF Assigned, Bound
<1>11. ASSUME NEW n \in Mutex \ {m} PROVE Heir(y, n, {})
  <2>1. x.mx[n].own \in Task \cup {InvalidId} /\ ToSet(x.mx[n].list) \subseteq Task
    BY <1>1, MutexFields
  <2>2. \A u \in Task : u # o => y.prio[u] = x.prio[u] /\ y.base[u] = x.base[u]
    BY <1>5 DEF Assigned
  <2>3. /\ x.mx[n].own # InvalidId => /\ y.prio[x.mx[n].own] = x.prio[x.mx[n].own]
                                      /\ y.base[x.mx[n].own] = x.base[x.mx[n].own]
        /\ \A u \in ToSet(x.mx[n].list) \ {} : y.prio[u] = x.prio[u]
    BY <1>10, <2>1, <2>2
  <2>4. Heir(x, n, {})
    OBVIOUS
  <2> QED BY <1>10, <2>3, <2>4, HeirKept
<1>12. /\ \A u \in ToSet(list) : y.prio[u] = x.prio[u]
       /\ y.base = x.base
  BY <1>2, <1>4, <1>5 DEF Assigned
<1>13. x.prio[o] # p => /\ y.prio[o] \in Nat /\ y.prio[o] <= p /\ y.prio[o] <= x.prio[o]
  BY <1>2, <1>4, <1>5 DEF Assigned, KeepsRaised
<1>14. CASE x.prio[o] # p
  <2>1. y.prio[o] \in Nat /\ y.prio[o] <= p /\ y.prio[o] <= x.prio[o]
    BY <1>13, <1>14
  <2>2. Heir(y, m, {})
    <3>1. \A u \in ToSet(list) : y.prio[o] <= y.prio[u]
      <4> TAKE u \in ToSet(list)
      <4>1. p <= x.prio[u] /\ x.prio[u] \in Nat
        BY <1>1, <1>2
      <4> QED BY <1>12, <2>1, <4>1
    <3>2. p <= y.base[o]
      BY <1>2, <1>3, <1>12
    <3> QED BY <1>3, <1>9, <2>1, <3>1, <3>2 DEF Heir
  <2>3. Inherits(y, {})
    <3>1. \A u \in Task : y.prio[u] <= y.base[u]
      <4> TAKE u \in Task
      <4>1. x.prio[u] <= x.base[u] /\ y.base[u] = x.base[u]
        BY <1>12 DEF Inherits
      <4>2. CASE u = o
        BY <1>1, <2>1, <4>1, <4>2
      <4>3. CASE u # o
        BY <1>5, <4>1, <4>3 DEF Assigned
      <4> QED BY <4>2, <4>3
    <3> QED BY <1>1, <1>11, <1>12, <2>2, <3>1 DEF Inherits
  <2>4. CASE KeepsRaised(x, o, p)
    <3>1. d.task = InvalidId /\ d.k = y
      BY <1>6, <1>14, <2>4 DEF Done
    <3> QED BY <1>7, <2>3, <3>1 DEF c
  <2>5. CASE ~KeepsRaised(x, o, p)
    <3> DEFINE h == Highest(y, y.mx[m].list, y.mx[m].orig, y.mx[m].own)
    <3>1. Quiet(y) /\ y.st = x.st /\ y.mid[o] = m
      BY <1>4, <1>5 DEF Assigned, Quiet
    <3>2. h.prio = p
      <4>1. /\ h.prio <= p /\ h.prio \in Nat
            /\ h.prio # p => \E u \in ToSet(list) : h.prio = y.prio[u]
        BY <1>2, <1>9, <3>1, HighestLeast DEF Quiet
      <4> HIDE DEF h
      <4>2. ASSUME h.prio # p PROVE FALSE
        <5>1. PICK u \in ToSet(list) : h.prio = y.prio[u]
          BY <4>1, <4>2
        <5>2. p <= x.prio[u]
          OBVIOUS
        <5>3. h.prio = x.prio[u]
          BY <1>12, <5>1
        <5> QED BY <4>1, <4>2, <5>2, <5>3
      <4> QED BY <4>2
    <3>3. d = SetPriorityTail(y, o, y.st[o])
      BY <1>6, <1>14, <2>5, <3>1
    <3>4. Level(y, d.k) /\ d.task = InvalidId
      BY <1>9, <3>1, <3>2, <3>3, TailLevel
    <3>5. Inherits(d.k, {})
      BY <2>3, <3>4, LevelInherits
    <3> QED BY <1>7, <3>4, <3>5 DEF c
  <2> QED BY <2>4, <2>5
<1> QED BY <1>8, <1>14

\* CoSetPriority for a task whose mutex has no owner, as in
\* CoLeaveMutexSection and RemoveMutexList: the priority is written and no
\* other call is made.
Given(x, z, o, p) ==
  /\ KType(z) /\ z.mid = x.mid /\ z.base = x.base /\ Beside(x, z, x.mid[o])
  /\ \A u \in Task : z.prio[u] = IF u = o THEN p ELSE x.prio[u]
  /\ \A n \in Mutex : /\ z.mx[n].own = x.mx[n].own /\ z.mx[n].orig = x.mx[n].orig
                      /\ z.mx[n].list = x.mx[n].list

LEMMA PriorityGiven ==
    ASSUME NEW x, Quiet(x), NEW o \in Task \ {Idle}, x.st[o] # "DORMANT", NEW p \in Nat,
           x.mid[o] # InvalidId => x.mx[x.mid[o]].own = InvalidId
    PROVE  Given(x, SetPriority(x, o, p), o, p)
<1> DEFINE c == [k |-> x, task |-> o, prio |-> p]
           d == SetPriorityOnce(c)
           e == SetPriorityOnce(d)
           y == SetPriorityHead(x, o, p)
<1>1. KType(x)
  BY DEF Quiet
<1>2. ~Holds(x, o) /\ ~KeepsRaised(x, o, p)
  BY KernelAssumption DEF Holds, KeepsRaised
<1>3. Assigned(x, y, o, p)
  BY <1>1, HeadAssigned
<1>4. /\ x.prio[o] = p => d = Done(x)
      /\ x.prio[o] # p => d = SetPriorityTail(y, o, x.st[o])
  BY <1>2, OnceIs
<1>5. d.task = InvalidId => Finished(c) = d.k
  BY FinishedOnce
<1>6. SetPriority(x, o, p) = Finished(c)
  BY DEF SetPriority
<1> HIDE DEF c, d, y
<1>7. CASE x.prio[o] = p
  <2>1. d.task = InvalidId /\ d.k = x
    BY <1>4, <1>7 DEF Done
  <2>2. Given(x, x, o, p)
    BY <1>1, <1>7 DEF Given, Beside
  <2> QED BY <1>5, <1>6, <2>1, <2>2
<1>8. CASE x.prio[o] # p
  <2>1. Quiet(y) /\ y.st = x.st /\ y.mid = x.mid
    BY <1>3 DEF Assigned, Quiet
  <2>2. y.mid[o] # InvalidId => y.mx[y.mid[o]].own = InvalidId
    <3>1. x.mid[o] # InvalidId => x.mid[o] \in Mutex
      BY <1>1 DEF KType
    <3> QED BY <1>3, <2>1, <3>1 DEF Assigned
  <2>3. d = SetPriorityTail(y, o, y.st[o])
    BY <1>4, <1>8, <2>1
  <2>4. Level(y, d.k) /\ Beside(y, d.k, y.mid[o]) /\ d.task = InvalidId
    <3> DEFINE g == SetPriorityTail(y, o, y.st[o])
               m == y.mid[o]
               h == Highest(y, y.mx[m].list, y.mx[m].orig, y.mx[m].own)
               on == y.st[o] = "WAITING" /\ m # InvalidId /\ h.prio # y.mx[m].orig
    <3>1. y.st[o] # "DORMANT"
      BY <2>1
    <3>2. /\ Level(y, g.k) /\ Beside(y, g.k, m)
          /\ ~on => g.task = InvalidId
          /\ on => g = [k |-> g.k, task |-> y.mx[m].own, prio |-> h.prio]
      BY <2>1, <3>1, TailLevel
    <3>3. d = g
      BY <2>3
    <3>4. m # InvalidId => y.mx[m].own = InvalidId
      BY <2>2
    <3> HIDE DEF g, h
    <3>5. on => g.task = InvalidId
      BY <3>2, <3>4
    <3> HIDE DEF on
    <3> QED BY <3>2, <3>3, <3>5
  <2>5. Given(x, d.k, o, p)
    <3>1. Beside(x, d.k, x.mid[o])
      BY <1>3, <2>1, <2>4 DEF Beside, Assigned
    <3> QED BY <1>2, <1>3, <2>4, <3>1 DEF Assigned, Level, Given
  <2> QED BY <1>5, <1>6, <2>4, <2>5
<1> QED BY <1>7, <1>8

(***************************************************************************)
(* Part 7.  The steps of the tasks and the tick, for priorities that are   *)
(* inherited.                                                              *)
(***************************************************************************)

\* The inductive invariant: the owners have inherited the priorities of all
\* that wait, but for the task whose priority CoSetPriority has just written.
Raises(x, c) == Inherits(x, Touched(x, c))

LEMMA SameInherits ==
    ASSUME NEW x, NEW y, NEW U, NEW V, Inherits(x, U), U \subseteq V,
           y.prio = x.prio, y.base = x.base, y.mx = x.mx
    PROVE  Inherits(y, V)
<1>1. ASSUME NEW m \in Mutex PROVE Heir(y, m, V)
  BY HeirKept DEF Inherits
<1> QED BY <1>1 DEF Inherits

\* A task that waits for no mutex does not matter.
LEMMA ApartInherits ==
    ASSUME NEW x, NEW t, Inherits(x, {t}), \A m \in Mutex : t \notin ToSet(x.mx[m].list)
    PROVE  Inherits(x, {})
<1>1. ASSUME NEW m \in Mutex PROVE Heir(x, m, {})
  <2>1. ToSet(x.mx[m].list) \ {} = ToSet(x.mx[m].list) \ {t}
    OBVIOUS
  <2>2. Heir(x, m, {t})
    BY DEF Inherits
  <2> QED BY <2>1, <2>2 DEF Heir
<1> QED BY <1>1 DEF Inherits

LEMMA RaisesParts ==
    ASSUME Sound
    PROVE  /\ Quiet(k) /\ KType(k) /\ Bound(k) /\ k.srq = << >> /\ k.run \in Task /\ k.lock \in Nat
           /\ \A m \in Mutex : k.mx[m].own # InvalidId => k.st[k.mx[m].own] # "DORMANT"
           /\ \A m \in Mutex : \A t \in ToSet(k.mx[m].list) : k.st[t] = "WAITING"
<1>1. /\ KType(k) /\ Typed(k) /\ Placed(k, {}) /\ States(k, call) /\ Owned(k, call)
      /\ k.run \in Task /\ k.lock \in Nat
  BY SoundParts
<1>2. Quiet(k) /\ k.srq = << >>
  BY <1>1 DEF Typed, Quiet
<1>3. Bound(k)
  BY <1>1 DEF Owned, Placed, Bound
<1>4. \A m \in Mutex : k.mx[m].own # InvalidId => k.st[k.mx[m].own] # "DORMANT"
  <2> SUFFICES ASSUME NEW m \in Mutex, k.mx[m].own # InvalidId PROVE k.st[k.mx[m].own] # "DORMANT"
    OBVIOUS
  <2>1. k.mx[m].own \in Task /\ k.mid[k.mx[m].own] = m /\ m # InvalidId
    BY <1>1, <1>3, MutexFields, KernelAssumption DEF Bound
  <2> QED BY <1>1, <2>1 DEF States
<1>5. \A m \in Mutex : \A t \in ToSet(k.mx[m].list) : k.st[t] = "WAITING"
  BY <1>1 DEF Placed
<1> QED BY <1>1, <1>2, <1>3, <1>4, <1>5

\* Whoever is inside CoSetPriority without a lock changes its own priority,
\* and waits for nothing.
LEMMA CalmRun ==
    ASSUME Sound, Raises(k, call), call[k.run].op # "prio" \/ k.lock = 0
    PROVE  Inherits(k, {})
<1>1. CASE call[k.run].op # "prio"
  BY <1>1 DEF Raises, Touched
<1>2. CASE call[k.run].op = "prio" /\ k.lock = 0
  <2>1. KType(k) /\ Calls(k, call)
    BY SoundParts
  <2>2. Alone(k, call, k.run)
    BY <1>2, <2>1, RunCall
  <2>3. call[k.run].task = k.run
    BY <1>2, <2>2, AloneCall
  <2>4. Inherits(k, {k.run})
    BY <1>2, <2>3 DEF Raises, Touched
  <2> QED BY <2>4, RunFree, ApartInherits
<1> QED BY <1>1, <1>2

\* A step that ends in OsSchedUnlock.
LEMMA EndsRaises ==
    ASSUME Sound, NEW y, KType(y), y.srq = k.srq, Inherits(y, {}), k' = OsSchedUnlock(y)
    PROVE  Raises(k', call')
<1>1. y.srq = << >>
  BY RaisesParts
<1>2. Unraised(y, k')
  BY <1>1, UnlockUnraised
<1>3. {} \subseteq Touched(k', call')
  OBVIOUS
<1> QED BY <1>2, <1>3, SameInherits DEF Unraised, Raises

LEMMA PlainRaises ==
    ASSUME Sound, Raises(k, call), call[k.run].op # "prio", NEW y, KType(y), y.srq = k.srq,
           y.prio = k.prio, y.base = k.base, y.mx = k.mx, k' = OsSchedUnlock(y)
    PROVE  Raises(k', call')
<1>1. Inherits(k, {})
  BY CalmRun
<1>2. Inherits(y, {})
  BY <1>1, SameInherits
<1> QED BY <1>2, EndsRaises

\* A step that writes no priority, no mutex and no free TCB.
Plain(x, y) == y.prio = x.prio /\ y.base = x.base /\ y.mx = x.mx /\ y.free = x.free

LEMMA PlainEnd ==
    ASSUME Sound, NEW y, KType(y), y.srq = k.srq, Plain(k, y), k' = OsSchedUnlock(y)
    PROVE  Plain(k, k')
<1>1. y.srq = << >>
  BY RaisesParts
<1>2. Unraised(y, k')
  BY <1>1, UnlockUnraised
<1> QED BY <1>2 DEF Unraised, Plain

LEMMA PlainTests ==
    ASSUME Sound, NEW t \in Task,
           \/ DelTest(t) \/ SuspendTest(t) \/ AwakeTest(t)
           \/ \E n \in prog.delays \cup {0} : ResetDelayTest(t, n)
    PROVE  Plain(k, k')
  BY DEF DelTest, SuspendTest, AwakeTest, ResetDelayTest, Plain

LEMMA PlainEnterReturn ==
    ASSUME Sound, EnterReturn
    PROVE  Plain(k, k')
<1>1. KType(k)
  BY SoundParts
<1>2. Plain(k, k')
  BY <1>1 DEF Plain, EnterReturn, KType, Fields
<1> QED BY <1>2

LEMMA PlainLock ==
    ASSUME Sound, CoSchedLock
    PROVE  Plain(k, k')
<1>1. KType(k)
  BY SoundParts
<1>2. Plain(k, k')
  BY <1>1 DEF Plain, CoSchedLock, KType, Fields
<1> QED BY <1>2

LEMMA PlainUnlock ==
    ASSUME Sound, CoSchedUnlock
    PROVE  Plain(k, k')
<1> DEFINE n == k.lock - 1
           y == [k EXCEPT !.lock = n]
<1>1. KType(k) /\ n \in Nat /\ k' = OsSchedUnlock(y)
  BY SoundParts DEF CoSchedUnlock
<1> HIDE DEF n
<1>2. Plain(k, y) /\ y.srq = k.srq
  BY <1>1 DEF Plain, KType, Fields
<1>3. KType(y)
  BY <1>1 DEF KType, Fields
<1> HIDE DEF y
<1> QED BY <1>1, <1>2, <1>3, PlainEnd

LEMMA PlainSuspend ==
    ASSUME Sound, CoSuspendTask
    PROVE  Plain(k, k')
<1> DEFINE t == call[k.run].task
           st == [k.st EXCEPT ![k.run] = "WAITING"]
           y == [k EXCEPT !.req = TRUE, !.st = st]
<1>1. KType(k) /\ Calls(k, call) /\ k.run \in Task /\ call[k.run].op = "suspend"
  BY SoundParts DEF CoSuspendTask, Pending
<1>2. t = k.run
  <2>1. Alone(k, call, k.run)
    BY <1>1, RunCall, OtherCall
  <2> QED BY <1>1, <2>1, AloneCall
<1>3. k' = OsSchedUnlock(y)
  <2>1. k' = OsSchedUnlock([[k EXCEPT !.req = TRUE] EXCEPT !.st[k.run] = "WAITING"])
    BY <1>2 DEF CoSuspendTask
  <2>2. [[k EXCEPT !.req = TRUE] EXCEPT !.st[k.run] = "WAITING"] = y
    BY <1>1 DEF KType, Fields
  <2> QED BY <2>1, <2>2
<1>4. st \in [Task -> Alive \cup {"DORMANT"}]
  BY <1>1 DEF KType, Alive
<1> HIDE DEF st
<1>5. Plain(k, y) /\ y.srq = k.srq
  BY <1>1 DEF Plain, KType, Fields
<1>6. KType(y)
  BY <1>1, <1>4 DEF KType, Fields
<1> HIDE DEF y
<1> QED BY <1>1, <1>3, <1>5, <1>6, PlainEnd

LEMMA PlainAwake ==
    ASSUME Sound, CoAwakeTask
    PROVE  Plain(k, k')
<1> DEFINE t == call[k.run].task
           y == InsertToTCBRdyList(k, t)
<1>1. KType(k) /\ Calls(k, call) /\ k.run \in Task /\ call[k.run].op = "awake"
  BY SoundParts DEF CoAwakeTask, Pending
<1>2. t \in Task
  BY <1>1, RunCall, OtherCall, AloneCall
<1>3. KType(y) /\ Unraised(k, y)
  BY <1>1, <1>2, InsertRdyKept, InsertUnraised DEF Kept
<1>4. k' = OsSchedUnlock(y)
  BY DEF CoAwakeTask
<1> HIDE DEF y
<1> QED BY <1>1, <1>3, <1>4, PlainEnd DEF Plain, Unraised

LEMMA DelayPlain ==
    ASSUME NEW x, KType(x), NEW t \in Task, NEW n
    PROVE  LET y == InsertDelayList(x, t, n)
           IN KType(y) /\ Plain(x, y) /\ y.srq = x.srq
<1> DEFINE y == InsertDelayList(x, t, n)
<1>1. KType(y)
  BY InsertDelayKept DEF Kept
<1>2. Plain(x, y) /\ y.srq = x.srq
  BY DEF InsertDelayList, Plain, KType, Fields
<1> QED BY <1>1, <1>2

LEMMA PlainDelay ==
    ASSUME Sound, NEW n \in prog.delays, CoTickDelay(n)
    PROVE  Plain(k, k')
<1> DEFINE y == InsertDelayList(k, k.run, n)
<1>1. KType(k) /\ k.run \in Task /\ k' = OsSchedUnlock(y)
  BY SoundParts DEF CoTickDelay
<1>2. KType(y) /\ Plain(k, y) /\ y.srq = k.srq
  BY <1>1, DelayPlain
<1> HIDE DEF y
<1> QED BY <1>1, <1>2, PlainEnd

LEMMA PlainReset ==
    ASSUME Sound, CoResetTaskDelayTick
    PROVE  Plain(k, k')
<1> DEFINE t == call[k.run].task
           n == call[k.run].ticks
           k1 == RemoveDelayList(k, t)
           y == IF n = 0 THEN InsertToTCBRdyList(k1, t) ELSE InsertDelayList(k1, t, n)
<1>1. KType(k) /\ Calls(k, call) /\ k.run \in Task /\ call[k.run].op = "reset"
  BY SoundParts DEF CoResetTaskDelayTick, Pending
<1>2. t \in Task
  BY <1>1, RunCall, OtherCall, AloneCall
<1>3. k' = OsSchedUnlock(y)
  BY DEF CoResetTaskDelayTick
<1>4. KType(k1) /\ Plain(k, k1) /\ k1.srq = k.srq
  BY <1>1, <1>2, DelayOutRanked DEF Plain
<1> HIDE DEF k1, t, n
<1>5. KType(y) /\ Plain(k1, y) /\ y.srq = k1.srq
  <2>1. CASE n = 0
    <3>1. y = InsertToTCBRdyList(k1, t)
      BY <2>1
    <3> HIDE DEF y
    <3> QED BY <1>2, <1>4, <3>1, InsertRdyKept, InsertUnraised DEF Kept, Unraised, Plain
  <2>2. CASE n # 0
    <3>1. y = InsertDelayList(k1, t, n)
      BY <2>2
    <3> HIDE DEF y
    <3> QED BY <1>2, <1>4, <3>1, DelayPlain
  <2> QED BY <2>1, <2>2
<1> HIDE DEF y
<1>6. Plain(k, y)
  BY <1>4, <1>5 DEF Plain
<1> QED BY <1>1, <1>3, <1>4, <1>5, <1>6, PlainEnd

\* The tick, which ends no delay while the scheduler is locked.
LEMMA PlainTick ==
    ASSUME Sound, Tick
    PROVE  Plain(k, k') /\ UNCHANGED call /\ (k.lock > 0 => k'.run = k.run)
<1> DEFINE slice == IF k.slice < 0 THEN k.slice ELSE k.slice - 1
           k1 == [k EXCEPT !.slice = slice, !.req = TRUE]
           head == k.dly[1]
           less == [k1 EXCEPT !.tick[head] = @ - 1]
           held == [k1 EXCEPT !.tick[head] = 0, !.timeReq = TRUE]
           zero == [k1 EXCEPT !.tick[head] = 0]
           k2 == IF k.tick[head] > 1 THEN less
                 ELSE IF k.lock > 0 THEN held ELSE TimeDispose(zero)
           y == IF k.dly = << >> THEN k1 ELSE k2
           Ends(x) == KType(x) /\ Plain(k, x) /\ x.srq = k.srq /\ x.lock = k.lock
           Beats(x) == Ends(x) /\ x.run = k.run
<1>1. KType(k) /\ k.lock \in Nat /\ k.run \in Task
  BY SoundParts
<1>2. k' = OsSchedUnlock(y) /\ UNCHANGED call
  BY DEF Tick, SysTick
<1> HIDE DEF slice, head
<1>3. Beats(k1)
  BY <1>1 DEF KType, Fields, Plain
<1>4. Beats(less) /\ Beats(held) /\ Beats(zero)
  <2> HIDE DEF k1
  <2>1. Beats(less)
    BY <1>3 DEF KType, Fields, Plain
  <2>2. Beats(held)
    BY <1>3 DEF KType, Fields, Plain
  <2>3. Beats(zero)
    BY <1>3 DEF KType, Fields, Plain
  <2> QED BY <2>1, <2>2, <2>3
<1> HIDE DEF k1, less, held, zero
<1>5. Ends(y) /\ (k.lock > 0 => Beats(y))
  <2>1. ASSUME NEW x, Beats(x) PROVE Ends(x)
    BY <2>1
  <2>2. Ends(TimeDispose(zero))
    <3> DEFINE x == TimeDispose(zero)
    <3>1. Unraised(zero, x) /\ KType(x)
      BY <1>4, DisposeRanked, TimeDisposeKept DEF Kept
    <3> HIDE DEF x
    <3>2. Ends(x)
      BY <1>4, <3>1 DEF Unraised, Plain
    <3> QED BY <3>2 DEF x
  <2> HIDE DEF Beats, Ends
  <2> QED BY <1>3, <1>4, <2>1, <2>2
<1> HIDE DEF y
<1>6. Plain(k, k')
  BY <1>2, <1>5, PlainEnd
<1>7. ASSUME k.lock > 0 PROVE k'.run = k.run
  BY <1>2, <1>5, <1>7, UnlockSwitched
<1> QED BY <1>2, <1>6, <1>7

\* The steps of tasks that are plain.
Plainly ==
  \/ \E t \in Task : DelTest(t) \/ SuspendTest(t) \/ AwakeTest(t)
  \/ \E t \in Task, n \in prog.delays \cup {0} : ResetDelayTest(t, n)
  \/ \E n \in prog.delays : CoTickDelay(n)
  \/ CoSuspendTask \/ CoAwakeTask \/ CoResetTaskDelayTick
  \/ EnterReturn \/ CoSchedLock \/ CoSchedUnlock

LEMMA NextKinds ==
    ASSUME Next
    PROVE  \/ \E p \in prog.prio, w \in BOOLEAN : AssignTCB(p, w)
           \/ \E t \in Task, p \in prog.prio : SetPrioTest(t, p)
           \/ CreateTask \/ DelLeave \/ CoDelTask \/ CoSetPriority \/ CoCreateMutex
           \/ \E m \in Mutex : CoEnterMutexSection(m) \/ CoLeaveMutexSection(m)
           \/ Plainly \/ Tick
  BY DEF Next, Program, Plainly

LEMMA PlainSteps ==
    ASSUME Sound, Plainly
    PROVE  Plain(k, k')
<1> DEFINE Goal == Plain(k, k')
<1> SUFFICES Goal
  OBVIOUS
<1>1. ASSUME NEW t \in Task, DelTest(t) \/ SuspendTest(t) \/ AwakeTest(t) PROVE Goal
  BY <1>1, PlainTests
<1>2. ASSUME NEW t \in Task, NEW n \in prog.delays \cup {0}, ResetDelayTest(t, n) PROVE Goal
  BY <1>2, PlainTests
<1>3. ASSUME NEW n \in prog.delays, CoTickDelay(n) PROVE Goal
  BY <1>3, PlainDelay
<1>4. CASE CoSuspendTask \/ CoAwakeTask \/ CoResetTaskDelayTick
  BY <1>4, PlainSuspend, PlainAwake, PlainReset
<1>5. CASE EnterReturn \/ CoSchedLock \/ CoSchedUnlock
  BY <1>5, PlainEnterReturn, PlainLock, PlainUnlock
<1> HIDE DEF Goal
<1> QED BY <1>1, <1>2, <1>3, <1>4, <1>5 DEF Plainly

LEMMA RaisePlainly ==
    ASSUME Sound, Raises(k, call), Plainly
    PROVE  Raises(k', call')
<1>1. call[k.run].op # "prio"
  <2> DEFINE Quietly == call[k.run].op # "prio"
  <2> SUFFICES Quietly
    OBVIOUS
  <2>1. ASSUME NEW t \in Task, DelTest(t) \/ SuspendTest(t) \/ AwakeTest(t) PROVE Quietly
    BY <2>1 DEF Caller, Pending, NoCall, DelTest, SuspendTest, AwakeTest
  <2>2. ASSUME NEW t \in Task, NEW n \in prog.delays \cup {0}, ResetDelayTest(t, n) PROVE Quietly
    BY <2>2 DEF Caller, Pending, NoCall, ResetDelayTest
  <2>3. ASSUME NEW n \in prog.delays, CoTickDelay(n) PROVE Quietly
    BY <2>3 DEF Caller, Pending, NoCall, CoTickDelay
  <2>4. CASE CoSuspendTask \/ CoAwakeTask \/ CoResetTaskDelayTick \/ EnterReturn
    BY <2>4 DEF Caller, Pending, NoCall, CoSuspendTask, CoAwakeTask, CoResetTaskDelayTick, EnterReturn
  <2>5. CASE CoSchedLock \/ CoSchedUnlock
    BY <2>5 DEF Caller, Pending, NoCall, CoSchedLock, CoSchedUnlock
  <2> HIDE DEF Quietly
  <2> QED BY <2>1, <2>2, <2>3, <2>4, <2>5 DEF Plainly
<1>2. Plain(k, k')
  BY PlainSteps
<1>3. Inherits(k, {})
  BY <1>1, CalmRun
<1>4. {} \subseteq Touched(k', call')
  OBVIOUS
<1> QED BY <1>2, <1>3, <1>4, SameInherits DEF Plain, Raises

LEMMA RaiseTick ==
    ASSUME Sound, Raises(k, call), Tick
    PROVE  Raises(k', call')
<1>1. Plain(k, k') /\ UNCHANGED call /\ (k.lock > 0 => k'.run = k.run)
  BY PlainTick
<1>2. CASE k.lock > 0
  <2>1. Touched(k', call') = Touched(k, call)
    BY <1>1, <1>2 DEF Touched
  <2> QED BY <1>1, <2>1, SameInherits DEF Plain, Raises
<1>3. CASE ~(k.lock > 0)
  <2>1. k.lock = 0
    BY <1>3, RaisesParts
  <2>2. Inherits(k, {}) /\ {} \subseteq Touched(k', call')
    BY <2>1, CalmRun
  <2> QED BY <1>1, <2>2, SameInherits DEF Plain, Raises
<1> QED BY <1>2, <1>3

LEMMA RaiseAssign ==
    ASSUME Sound, Raises(k, call), NEW p, NEW w, AssignTCB(p, w)
    PROVE  Raises(k', call')
<1>1. KType(k) /\ call[k.run].op # "prio"
  BY SoundParts DEF AssignTCB, Caller, NoCall
<1>2. CASE k.free = << >>
  <2>1. k' = OsSchedUnlock(k)
    BY <1>2 DEF AssignTCB
  <2> QED BY <1>1, <2>1, PlainRaises
<1>3. CASE k.free # << >>
  <2> DEFINE rest == Tail(k.free)
             y == [k EXCEPT !.free = rest]
  <2>1. rest \in Seq(Task) /\ k' = OsSchedUnlock(y)
    BY <1>1, <1>3 DEF AssignTCB, KType
  <2> HIDE DEF rest
  <2>2. y.prio = k.prio /\ y.base = k.base /\ y.mx = k.mx /\ y.srq = k.srq
    BY <1>1 DEF KType, Fields
  <2>3. KType(y)
    BY <1>1, <2>1 DEF KType, Fields
  <2> HIDE DEF y
  <2> QED BY <1>1, <2>1, <2>2, <2>3, PlainRaises
<1> QED BY <1>2, <1>3

\* A step that writes the priorities of some tasks and the blocks of some
\* mutexes, where those tasks are in no other mutex.
Writes(x, y, M, S) ==
  /\ y.base \in [Task -> Nat]
  /\ \A u \in Task \ S : y.prio[u] = x.prio[u] /\ y.base[u] = x.base[u]
  /\ \A u \in Task \cap S : x.mid[u] \in M \cup {InvalidId} /\ y.prio[u] <= y.base[u]
  /\ \A n \in Mutex \ M : /\ y.mx[n].own = x.mx[n].own /\ y.mx[n].orig = x.mx[n].orig
                           /\ y.mx[n].list = x.mx[n].list

LEMMA Elsewhere ==
    ASSUME NEW x, KType(x), Bound(x), NEW y, Inherits(x, {}), NEW V,
           NEW M \in SUBSET Mutex, NEW S, Writes(x, y, M, S), \A m \in M : Heir(y, m, V)
    PROVE  Inherits(y, V)
<1>1. ASSUME NEW n \in Mutex \ M PROVE Heir(y, n, V)
  <2>1. x.mx[n].own \in Task \cup {InvalidId} /\ ToSet(x.mx[n].list) \subseteq Task /\ n # InvalidId
    BY MutexFields, KernelAssumption
  <2>2. /\ x.mx[n].own # InvalidId => x.mx[n].own \notin S
        /\ \A u \in ToSet(x.mx[n].list) : u \notin S
    BY <2>1 DEF Bound, Writes
  <2>3. /\ x.mx[n].own # InvalidId => /\ y.prio[x.mx[n].own] = x.prio[x.mx[n].own]
                                      /\ y.base[x.mx[n].own] = x.base[x.mx[n].own]
        /\ \A u \in ToSet(x.mx[n].list) \ V : y.prio[u] = x.prio[u]
    BY <2>1, <2>2 DEF Writes
  <2>4. Heir(x, n, {}) /\ {} \subseteq V
    BY DEF Inherits
  <2>5. y.mx[n].own = x.mx[n].own /\ y.mx[n].orig = x.mx[n].orig /\ ToSet(y.mx[n].list) \subseteq ToSet(x.mx[n].list)
    BY DEF Writes
  <2> QED BY <2>3, <2>4, <2>5, HeirKept
<1>2. \A u \in Task : y.prio[u] <= y.base[u]
  <2> TAKE u \in Task
  <2>1. CASE u \in S
    BY <2>1 DEF Writes
  <2>2. CASE u \notin S
    <3>1. x.prio[u] <= x.base[u]
      BY DEF Inherits
    <3> QED BY <2>2, <3>1 DEF Writes
  <2> QED BY <2>1, <2>2
<1>3. \A n \in Mutex : Heir(y, n, V)
  BY <1>1
<1> QED BY <1>2, <1>3 DEF Inherits, Writes

\* The block of m is filled in, the others and the priorities are the same.
Fills(x, y, m) ==
  /\ y.prio = x.prio /\ y.base = x.base /\ y.free = x.free /\ Beside(x, y, m)
  /\ x.mx[m].own = InvalidId /\ y.mx[m].own = InvalidId /\ y.mx[m].list = << >>

LEMMA CreateMutexStep ==
    ASSUME Sound, CoCreateMutex
    PROVE  \E m \in Mutex : Fills(k, k', m)
<1> DEFINE m == k.mnum + 1
           n == m
           mx == [k.mx EXCEPT ![m] = NewMutex]
           y == [k EXCEPT !.mnum = n, !.mx = mx]
<1>1. KType(k) /\ Typed(k) /\ k.srq = << >>
  BY SoundParts, RaisesParts
<1>2. m \in Mutex /\ k.mx[m].own = InvalidId
  <2>1. k.mnum \in Nat /\ m \in Mutex
    BY <1>1, KernelAssumption, FS_CardinalityType DEF CoCreateMutex, Typed
  <2>2. m > k.mnum
    BY <2>1
  <2>3. Owned(k, call)
    BY SoundParts
  <2> HIDE DEF m
  <2> QED BY <2>1, <2>2, <2>3 DEF Owned
<1>3. NewMutex \in MutexType
  BY DEF NewMutex, MutexType
<1>4. mx \in [Mutex -> MutexType] /\ \A u \in Mutex : mx[u] = IF u = m THEN NewMutex ELSE k.mx[u]
  BY <1>1, <1>2, <1>3 DEF KType
<1>5. k' = OsSchedUnlock(y)
  BY DEF CoCreateMutex
<1> HIDE DEF mx, n, m
<1>6. y.prio = k.prio /\ y.base = k.base /\ y.mx = mx /\ y.srq = k.srq /\ y.free = k.free
  BY <1>1 DEF KType, Fields
<1>7. KType(y)
  BY <1>1, <1>4 DEF KType, Fields
<1> HIDE DEF y
<1>8. Unraised(y, k')
  BY <1>1, <1>5, <1>6, <1>7, UnlockUnraised
<1>9. k'.prio = k.prio /\ k'.base = k.base /\ k'.mx = mx /\ k'.free = k.free
  BY <1>6, <1>8 DEF Unraised
<1>10. Fills(k, k', m)
  BY <1>2, <1>4, <1>9 DEF Fills, Beside, NewMutex
<1> QED BY <1>2, <1>10

LEMMA RaiseCreateMutex ==
    ASSUME Sound, Raises(k, call), CoCreateMutex
    PROVE  Raises(k', call')
<1>1. KType(k) /\ Bound(k) /\ call[k.run].op # "prio"
  BY SoundParts, RaisesParts DEF CoCreateMutex, Caller, NoCall
<1>2. Inherits(k, {})
  BY <1>1, CalmRun
<1>3. PICK m \in Mutex : Fills(k, k', m)
  BY CreateMutexStep
<1>4. Heir(k', m, {})
  <2>1. k'.mx[m].own = InvalidId /\ k'.mx[m].list = << >>
    BY <1>3 DEF Fills
  <2>2. << >> \in Seq(Task)
    OBVIOUS
  <2>3. ToSet(<< >>) = {}
    BY <2>2, Elements
  <2> QED BY <2>1, <2>3 DEF Heir
<1>5. Writes(k, k', {m}, {})
  BY <1>2, <1>3 DEF Fills, Beside, Writes, Inherits
<1>6. {m} \in SUBSET Mutex /\ \A u \in {m} : Heir(k', u, {})
  BY <1>4
<1>7. Inherits(k', {})
  BY <1>1, <1>2, <1>5, <1>6, Elsewhere
<1>8. {} \subseteq Touched(k', call')
  OBVIOUS
<1> QED BY <1>7, <1>8, SameInherits DEF Raises

LEMMA RaiseCreate ==
    ASSUME Sound, Raises(k, call), CreateTask
    PROVE  Raises(k', call')
<1> DEFINE t == call[k.run].task
           p == call[k.run].prio
           prio == [k.prio EXCEPT ![t] = p]
           tick == [k.tick EXCEPT ![t] = Invalid]
           ev == [k.ev EXCEPT ![t] = InvalidId]
           pmail == [k.pmail EXCEPT ![t] = 0]
           stale == k.stale \ {t}
           mid == [k.mid EXCEPT ![t] = InvalidId]
           pset == k.pset \ {t}
           base == [k.base EXCEPT ![t] = p]
           x == [k EXCEPT !.prio[t] = p, !.tick[t] = Invalid, !.ev[t] = InvalidId,
                          !.pmail[t] = 0, !.stale = @ \ {t}, !.mid[t] = InvalidId,
                          !.pset = @ \ {t}, !.base[t] = p]
<1>1. /\ KType(k) /\ Calls(k, call) /\ k.run \in Task /\ call[k.run].op = "create" /\ Bound(k)
      /\ States(k, call)
  BY SoundParts, RaisesParts DEF CreateTask, Pending
<1>2. t \in Task /\ p \in 0 .. Lowest /\ k.st[t] = "DORMANT"
  <2>1. ~Alone(k, call, k.run)
    BY <1>1, AloneCall
  <2>2. PICK u \in Task \ {Idle, k.run} : k.lock > 0 /\ Other(k, call, k.run, u)
    BY <1>1, <2>1, RunCall
  <2> QED BY <1>1, <2>2, OtherCall
<1>3. /\ k' = IF call[k.run].waiting THEN [x EXCEPT !.st[t] = "WAITING"]
              ELSE OsSchedUnlock(InsertToTCBRdyList(x, t))
      /\ k.prio \in [Task -> Nat] /\ k.ev \in [Task -> Event \cup {InvalidId}]
      /\ k.mid \in [Task -> Mutex \cup {InvalidId}] /\ k.st \in [Task -> Alive \cup {"DORMANT"}]
  BY <1>1 DEF CreateTask, KType
<1>4. Inherits(k, {}) /\ k.base \in [Task -> Nat]
  <2>1. call[k.run].op # "prio"
    BY <1>1
  <2> QED BY <2>1, CalmRun DEF Inherits
<1> HIDE DEF t, p
<1>5. p \in Nat /\ k.mid[t] = InvalidId
  BY <1>1, <1>2, KernelAssumption DEF States
<1>6. x = [k EXCEPT !.prio = prio, !.tick = tick, !.ev = ev, !.pmail = pmail, !.stale = stale,
                    !.mid = mid, !.pset = pset, !.base = base]
  OBVIOUS
<1>7. /\ prio \in [Task -> Nat] /\ ev \in [Task -> Event \cup {InvalidId}]
      /\ mid \in [Task -> Mutex \cup {InvalidId}] /\ base \in [Task -> Nat]
      /\ \A u \in Task \ {t} : prio[u] = k.prio[u] /\ base[u] = k.base[u]
      /\ prio[t] <= base[t]
  BY <1>2, <1>3, <1>4, <1>5
<1> HIDE DEF x, prio, tick, ev, pmail, stale, mid, pset, base
<1>8. x.srq = k.srq /\ x.mx = k.mx /\ x.prio = prio /\ x.base = base
  BY <1>1, <1>6 DEF KType, Fields
<1>9. KType(x)
  BY <1>1, <1>6, <1>7 DEF KType, Fields
<1>10. Inherits(x, {})
  <2>1. \A u \in Task \ {t} : x.prio[u] = k.prio[u] /\ x.base[u] = k.base[u]
    BY <1>7, <1>8
  <2>2. \A u \in Task \cap {t} : k.mid[u] \in {} \cup {InvalidId} /\ x.prio[u] <= x.base[u]
    BY <1>5, <1>7, <1>8
  <2>3. \A n \in Mutex \ {} : /\ x.mx[n].own = k.mx[n].own /\ x.mx[n].orig = k.mx[n].orig
                              /\ x.mx[n].list = k.mx[n].list /\ Heir(k, n, {})
    BY <1>4, <1>8 DEF Inherits
  <2>4. {} \in SUBSET Mutex /\ (\A m \in {} : Heir(x, m, {})) /\ x.base \in [Task -> Nat]
    BY <1>7, <1>8
  <2>5. Writes(k, x, {}, {t})
    BY <2>1, <2>2, <2>3, <2>4 DEF Writes
  <2> QED BY <1>1, <1>4, <2>4, <2>5, Elsewhere
<1>11. CASE call[k.run].waiting
  <2>1. k' = [x EXCEPT !.st[t] = "WAITING"]
    BY <1>3, <1>11
  <2>2. k'.prio = x.prio /\ k'.base = x.base /\ k'.mx = x.mx
    BY <1>9, <2>1 DEF KType, Fields
  <2>3. {} \subseteq Touched(k', call')
    OBVIOUS
  <2> QED BY <1>10, <2>2, <2>3, SameInherits DEF Raises
<1>12. CASE ~call[k.run].waiting
  <2> DEFINE y == InsertToTCBRdyList(x, t)
  <2>1. k' = OsSchedUnlock(y)
    BY <1>3, <1>12
  <2>2. KType(y) /\ Unraised(x, y)
    BY <1>2, <1>9, InsertRdyKept, InsertUnraised DEF Kept
  <2> HIDE DEF y
  <2>3. Inherits(y, {})
    BY <1>10, <2>2, SameInherits DEF Unraised
  <2> QED BY <1>8, <2>1, <2>2, <2>3, EndsRaises DEF Unraised
<1> QED BY <1>11, <1>12

\* The assignment of CoSetPriority, with the priority that the program asks
\* for: the task may wait for a mutex whose owner has to follow.
LEMMA RaiseSetPrioTest ==
    ASSUME Sound, Raises(k, call), NEW t \in Task, NEW p \in prog.prio, SetPrioTest(t, p)
    PROVE  Raises(k', call')
<1> DEFINE x == SetPriorityHead(k, t, p)
           base == [x.base EXCEPT ![t] = p]
           m == k.mid[t]
           M == IF m = InvalidId THEN {} ELSE {m}
           V == IF KeepsRaised(k, t, p) \/ m = InvalidId THEN {} ELSE {t}
<1>1. /\ KType(k) /\ Bound(k) /\ call[k.run].op # "prio" /\ p \in Nat
      /\ k.prio \in [Task -> Nat] /\ k.mid \in [Task -> Mutex \cup {InvalidId}]
  <2>1. call[k.run].op # "prio"
    BY DEF SetPrioTest, Caller, NoCall
  <2>2. p \in 0 .. Lowest
    BY SoundParts
  <2>3. p \in Nat
    BY <2>2, KernelAssumption
  <2>4. KType(k) /\ Bound(k)
    BY RaisesParts
  <2> QED BY <2>1, <2>3, <2>4 DEF KType
<1>2. Inherits(k, {}) /\ k.base \in [Task -> Nat]
  BY <1>1, CalmRun DEF Inherits
<1>3. k' = [x EXCEPT !.base = base] /\ k.prio[t] # p /\ t # Idle
  BY DEF SetPrioTest
<1>4. Assigned(k, x, t, p)
  BY <1>1, HeadAssigned
<1>5. base \in [Task -> Nat] /\ base[t] = p /\ \A u \in Task \ {t} : base[u] = k.base[u]
  BY <1>1, <1>2, <1>4 DEF Assigned
<1> HIDE DEF x, base
<1>6. k'.prio = x.prio /\ k'.mx = x.mx /\ k'.base = base /\ k'.run = k.run
  <2>1. x.run = k.run
    BY <1>1 DEF x, SetPriorityHead, KType, Fields
  <2> QED BY <1>3, <1>4, <2>1 DEF Assigned, KType, Fields
<1>7. k'.prio[t] <= p /\ k'.prio[t] \in Nat /\ (Holds(k, t) => k'.prio[t] <= k.prio[t])
  BY <1>1, <1>3, <1>4, <1>6 DEF Assigned, KeepsRaised
<1>8. \A u \in Task \ {t} : k'.prio[u] = k.prio[u] /\ k'.base[u] = k.base[u]
  BY <1>4, <1>5, <1>6 DEF Assigned
<1>9. \A n \in Mutex : /\ k'.mx[n].own = k.mx[n].own /\ k'.mx[n].list = k.mx[n].list
                       /\ k'.mx[n].orig = IF Holds(k, t) /\ n = m THEN p ELSE k.mx[n].orig
  BY <1>4, <1>6 DEF Assigned
<1>10. ASSUME m # InvalidId PROVE Heir(k', m, V)
  <2>1. /\ m \in Mutex /\ Heir(k, m, {}) /\ ToSet(k.mx[m].list) \subseteq Task
        /\ k.mx[m].own \in Task \cup {InvalidId}
    BY <1>1, <1>2, <1>10, MutexFields DEF Inherits
  <2>2. CASE k.mx[m].own = t
    <3>1. Holds(k, t) /\ t \notin ToSet(k.mx[m].list) /\ t # InvalidId
      <4>1. t # InvalidId /\ k.mx[m].own # InvalidId
        BY <2>2, KernelAssumption
      <4>2. t \notin ToSet(k.mx[m].list)
        BY <1>1, <2>1, <2>2, <4>1 DEF Bound
      <4> QED BY <1>10, <2>2, <4>1, <4>2 DEF Holds
    <3>2. k'.mx[m].orig = p /\ k'.mx[m].own = t /\ k'.mx[m].list = k.mx[m].list
      BY <1>9, <2>1, <2>2, <3>1
    <3>3. \A u \in ToSet(k.mx[m].list) : k'.prio[t] <= k'.prio[u]
      <4> TAKE u \in ToSet(k.mx[m].list)
      <4>1. k.prio[t] <= k.prio[u]
        BY <2>1, <2>2, <3>1 DEF Heir
      <4>2. k'.prio[u] = k.prio[u] /\ k.prio[u] \in Nat /\ k.prio[t] \in Nat
        BY <1>1, <1>8, <2>1, <3>1
      <4> QED BY <1>7, <3>1, <4>1, <4>2
    <3>4. Idle \notin ToSet(k.mx[m].list)
      BY <2>1 DEF Heir
    <3>5. p <= k'.base[t]
      BY <1>1, <1>5, <1>6
    <3> QED BY <1>3, <1>7, <3>2, <3>3, <3>4, <3>5 DEF Heir
  <2>3. CASE k.mx[m].own # t
    <3>1. ~Holds(k, t) /\ ~KeepsRaised(k, t, p)
      BY <2>3 DEF Holds, KeepsRaised
    <3>2. V = {t}
      BY <1>10, <3>1
    <3> HIDE DEF V
    <3>3. k'.mx[m].own = k.mx[m].own /\ k'.mx[m].list = k.mx[m].list /\ k'.mx[m].orig = k.mx[m].orig
      BY <1>9, <2>1, <3>1
    <3>4. /\ k.mx[m].own # InvalidId => /\ k'.prio[k.mx[m].own] = k.prio[k.mx[m].own]
                                        /\ k'.base[k.mx[m].own] = k.base[k.mx[m].own]
          /\ \A u \in ToSet(k.mx[m].list) \ {t} : k'.prio[u] = k.prio[u]
      BY <1>8, <2>1, <2>3
    <3> HIDE DEF m
    <3> QED BY <2>1, <3>2, <3>3, <3>4, HeirKept
  <2> QED BY <2>2, <2>3
<1>11. Inherits(k', V)
  <2>1. k'.base \in [Task -> Nat] /\ k'.prio[t] <= k'.base[t]
    BY <1>5, <1>6, <1>7
  <2>2. M \in SUBSET Mutex /\ m \in M \cup {InvalidId} /\ \A n \in M : Heir(k', n, V)
    BY <1>1, <1>10
  <2>3. \A u \in Task \cap {t} : k.mid[u] \in M \cup {InvalidId} /\ k'.prio[u] <= k'.base[u]
    BY <2>1, <2>2
  <2>4. \A n \in Mutex \ M : /\ k'.mx[n].own = k.mx[n].own /\ k'.mx[n].orig = k.mx[n].orig
                             /\ k'.mx[n].list = k.mx[n].list /\ Heir(k, n, {})
    <3> TAKE n \in Mutex \ M
    <3>1. ~(Holds(k, t) /\ n = m)
      BY DEF Holds
    <3> QED BY <1>2, <1>9, <3>1 DEF Inherits
  <2> HIDE DEF M, V, m
  <2>5. Writes(k, k', M, {t})
    BY <1>8, <2>1, <2>3, <2>4 DEF Writes
  <2> QED BY <1>1, <1>2, <2>2, <2>5, Elsewhere
<1>12. V \subseteq Touched(k', call')
  <2>1. CASE KeepsRaised(k, t, p) \/ m = InvalidId
    BY <2>1
  <2>2. CASE ~KeepsRaised(k, t, p) /\ m # InvalidId
    <3>1. Begin([op |-> "prio", task |-> t, seen |-> k.st[t]])
      BY <2>2 DEF SetPrioTest
    <3>2. call'[k'.run].op = "prio" /\ call'[k'.run].task = t
      BY <1>6, <3>1, Called
    <3> QED BY <3>2 DEF Touched
  <2> QED BY <2>1, <2>2
<1> HIDE DEF V
<1> QED BY <1>11, <1>12, SameInherits DEF Raises

LEMMA LevelBound ==
    ASSUME NEW x, NEW y, Level(x, y), Quiet(x), Bound(x)
    PROVE  Quiet(y) /\ Bound(y)
  BY DEF Level, Quiet, Bound

\* The rest of CoSetPriority: the owner of the mutex that the task waits for
\* gets the highest priority of those that wait, if that is not the one that
\* it is to get back.
LEMMA RaiseSetPriority ==
    ASSUME Sound, Raises(k, call), CoSetPriority
    PROVE  Raises(k', call')
<1> DEFINE t == call[k.run].task
           seen == call[k.run].seen
           m == k.mid[t]
           h == Highest(k, k.mx[m].list, k.mx[m].orig, k.mx[m].own)
           on == k.st[t] = "WAITING" /\ m # InvalidId /\ h.prio # k.mx[m].orig
           c == SetPriorityTail(k, t, k.st[t])
           y == Finished(c)
<1>1. /\ KType(k) /\ Quiet(k) /\ Bound(k) /\ Calls(k, call) /\ k.run \in Task
      /\ call[k.run].op = "prio" /\ k.st[k.run] = "RUNNING"
      /\ k.st \in [Task -> Alive \cup {"DORMANT"}] /\ k.mid \in [Task -> Mutex \cup {InvalidId}]
      /\ k.prio \in [Task -> Nat] /\ Typed(k) /\ Placed(k, {}) /\ k.srq = << >>
  BY SoundParts, RaisesParts DEF CoSetPriority, Pending, KType
<1>2. t \in Task /\ seen = k.st[t] /\ k.st[t] # "DORMANT"
  BY <1>1, RunCall, OtherCall, AloneCall
<1>3. k' = IF y = k THEN k ELSE OsSchedUnlock(y)
  BY <1>2 DEF CoSetPriority
<1>4. Inherits(k, {t})
  BY <1>1 DEF Raises, Touched
<1> HIDE DEF t, seen
<1>5. k.st[t] \in Alive
  BY <1>1, <1>2
<1>6. KType(y) /\ y.srq = k.srq
  <2>1. CallIn(k, c)
    BY <1>1, <1>2, <1>5, TailShuffled
  <2> HIDE DEF c
  <2>2. Shuffled(k, y)
    BY <2>1, FinishedShuffled
  <2> QED BY <2>2 DEF Shuffled, Typed, Frame
<1>7. /\ Level(k, c.k)
      /\ ~on => c.task = InvalidId
      /\ on => c = [k |-> c.k, task |-> k.mx[m].own, prio |-> h.prio]
  BY <1>1, <1>2, TailLevel
<1> HIDE DEF c, on
<1>8. \A n \in Mutex \ {m} : Heir(k, n, {})
  <2> TAKE n \in Mutex \ {m}
  <2>1. t \notin ToSet(k.mx[n].list)
    BY <1>1 DEF m, Bound
  <2>2. Heir(k, n, {t}) /\ ToSet(k.mx[n].list) \ {} = ToSet(k.mx[n].list) \ {t}
    BY <1>4, <2>1 DEF Inherits
  <2> QED BY <2>2 DEF Heir
<1>9. ASSUME m \in Mutex
      PROVE  /\ h.prio \in Nat /\ h.prio <= k.mx[m].orig
             /\ \A u \in ToSet(k.mx[m].list) : h.prio <= k.prio[u]
             /\ h.prio # k.mx[m].orig => k.mx[m].own # InvalidId
             /\ k.mx[m].orig \in Nat /\ ToSet(k.mx[m].list) \subseteq Task
             /\ k.mx[m].own \in Task \cup {InvalidId}
  <2>1. /\ k.mx[m].list \in Seq(Task) /\ k.mx[m].orig \in Nat /\ k.mx[m].own \in Task \cup {InvalidId}
        /\ ToSet(k.mx[m].list) \subseteq Task
    BY <1>1, <1>9, MutexFields
  <2> HIDE DEF m
  <2>2. /\ h.prio \in Nat /\ h.prio <= k.mx[m].orig
        /\ \A u \in ToSet(k.mx[m].list) : h.prio <= k.prio[u]
        /\ h.prio # k.mx[m].orig => \E u \in ToSet(k.mx[m].list) : h.prio = k.prio[u]
    BY <1>1, <2>1, HighestLeast
  <2>3. k.mx[m].own = InvalidId => ToSet(k.mx[m].list) = {}
    BY <1>1, <1>9, <2>1, Elements DEF Bound
  <2> QED BY <2>1, <2>2, <2>3
<1>10. Inherits(y, {})
  <2>1. CASE ~on
    <3>1. y = c.k
      <4>1. SetPriorityOnce(c) = c
        BY <1>7, <2>1 DEF SetPriorityOnce
      <4> QED BY <1>7, <2>1, <4>1, FinishedOnce
    <3>2. ASSUME k.st[t] # "WAITING" \/ m = InvalidId PROVE Inherits(k, {})
      <4>1. \A n \in Mutex : t \notin ToSet(k.mx[n].list)
        <5>1. InvalidId \notin Mutex
          BY KernelAssumption
        <5>2. \A n \in Mutex : t \in ToSet(k.mx[n].list) => k.mid[t] = n /\ k.st[t] = "WAITING"
          BY <1>1, RaisesParts DEF Bound
        <5> QED BY <3>2, <5>1, <5>2
      <4> QED BY <1>4, <4>1, ApartInherits
    <3>3. ASSUME m # InvalidId, h.prio = k.mx[m].orig PROVE Inherits(k, {})
      <4>1. m \in Mutex
        BY <1>1, <1>2, <3>3
      <4>2. Heir(k, m, {t}) /\ k.prio \in [Task -> Nat]
        BY <1>1, <1>4, <4>1 DEF Inherits
      <4> HIDE DEF m, h
      <4>3. \A u \in ToSet(k.mx[m].list) : k.mx[m].orig <= k.prio[u]
        BY <1>9, <3>3, <4>1
      <4>4. k.mx[m].own # InvalidId => \A u \in ToSet(k.mx[m].list) : k.prio[k.mx[m].own] <= k.prio[u]
        <5> SUFFICES ASSUME k.mx[m].own # InvalidId, NEW u \in ToSet(k.mx[m].list)
                     PROVE  k.prio[k.mx[m].own] <= k.prio[u]
          OBVIOUS
        <5>1. /\ k.prio[k.mx[m].own] \in Nat /\ k.prio[u] \in Nat /\ k.mx[m].orig \in Nat
              /\ k.prio[k.mx[m].own] <= k.mx[m].orig /\ k.mx[m].orig <= k.prio[u]
          BY <1>9, <4>1, <4>2, <4>3 DEF Heir
        <5> QED BY <5>1
      <4>5. Heir(k, m, {})
        BY <4>2, <4>4 DEF Heir
      <4> QED BY <1>4, <1>8, <4>5 DEF Inherits
    <3>4. Inherits(k, {})
      BY <2>1, <3>2, <3>3 DEF on
    <3> HIDE DEF y
    <3> QED BY <1>7, <3>1, <3>4, LevelInherits
  <2>2. CASE on
    <3> DEFINE o == k.mx[m].own
               x == c.k
    <3>1. m \in Mutex /\ h.prio # k.mx[m].orig
      BY <1>1, <1>2, <2>2 DEF on
    <3> HIDE DEF m, h
    <3>2. o # InvalidId /\ o \in Task
      BY <1>9, <3>1
    <3>3. o # Idle /\ k.st[o] # "DORMANT"
      BY <1>4, <3>1, <3>2, RaisesParts DEF Inherits, Heir
    <3>4. Level(k, x) /\ c = [k |-> x, task |-> o, prio |-> h.prio]
      BY <1>7, <2>2
    <3> HIDE DEF x, o
    <3>5. Quiet(x) /\ Bound(x) /\ Inherits(x, {t})
      BY <1>1, <1>4, <3>4, LevelBound, LevelInherits
    <3>6. x.mx[m].own = o /\ x.mx[m].orig = k.mx[m].orig /\ x.mx[m].list = k.mx[m].list
          /\ x.st[o] # "DORMANT" /\ x.prio = k.prio
      BY <3>1, <3>3, <3>4 DEF Level, o
    <3>7. h.prio \in Nat /\ h.prio <= x.mx[m].orig /\ \A u \in ToSet(x.mx[m].list) : h.prio <= x.prio[u]
      BY <1>9, <3>1, <3>6
    <3>8. \A n \in Mutex \ {m} : Heir(x, n, {})
      <4> TAKE n \in Mutex \ {m}
      <4>1. Heir(k, n, {}) /\ {} \subseteq {}
        BY <1>8
      <4> QED BY <3>4, <4>1, HeirKept DEF Level
    <3>9. Inherits(Finished([k |-> x, task |-> o, prio |-> h.prio]), {})
      BY <3>1, <3>2, <3>3, <3>5, <3>6, <3>7, <3>8, OwnerRaised
    <3> QED BY <3>4, <3>9
  <2> QED BY <2>1, <2>2
<1> HIDE DEF y
<1>11. CASE y = k
  <2>1. k' = k
    BY <1>3, <1>11
  <2>2. {} \subseteq Touched(k', call')
    OBVIOUS
  <2> QED BY <1>10, <1>11, <2>1, <2>2, SameInherits DEF Raises
<1>12. CASE y # k
  BY <1>3, <1>6, <1>10, <1>12, EndsRaises
<1> QED BY <1>11, <1>12

\* The first task that waits, and the others.
LEMMA FirstOf ==
    ASSUME NEW list \in Seq(Task), list # << >>
    PROVE  /\ Head(list) \in Task /\ Head(list) \in ToSet(list)
           /\ Tail(list) \in Seq(Task) /\ ToSet(Tail(list)) \subseteq ToSet(list)
           /\ IsInjective(list) => Head(list) \notin ToSet(Tail(list))
<1> DEFINE s == Tail(list)
<1>1. Len(list) \in Nat /\ Len(list) # 0 /\ ToSet(list) = {list[i] : i \in 1 .. Len(list)}
      /\ DOMAIN list = 1 .. Len(list)
  BY Elements
<1>2. /\ Head(list) = list[1] /\ s \in Seq(Task) /\ Len(s) = Len(list) - 1
      /\ \A i \in 1 .. Len(list) - 1 : s[i] = list[i + 1]
  OBVIOUS
<1> HIDE DEF s
<1>3. ToSet(s) = {s[i] : i \in 1 .. Len(s)}
  BY <1>2, Elements
<1>4. Head(list) \in Task /\ Head(list) \in ToSet(list)
  BY <1>1, <1>2
<1>5. ToSet(s) \subseteq ToSet(list)
  BY <1>1, <1>2, <1>3
<1>6. ASSUME IsInjective(list) PROVE Head(list) \notin ToSet(s)
  <2>1. \A i \in 1 .. Len(list) : list[i] = list[1] => i = 1
    BY <1>1, <1>6 DEF IsInjective
  <2>2. \A i \in 1 .. Len(s) : s[i] # list[1]
    BY <1>1, <1>2, <2>1
  <2> QED BY <1>2, <1>3, <2>2
<1> QED BY <1>2, <1>4, <1>5, <1>6 DEF s

\* Where CoLeaveMutexSection takes the priority of the new owner from.
Successor(x, m) ==
  LET o == x.mx[m].own
      list == x.mx[m].list
  IN IF x.mx[m].hipri = o THEN Highest(x, list, x.prio[Head(list)], o)
                          ELSE [id |-> x.mx[m].hipri, prio |-> x.prio[o]]

\* The mutex m is free, or t owns it, the first of those that waited.
Freed(x, z, m) == z.prio = x.prio /\ z.mx[m].own = InvalidId /\ z.mx[m].list = x.mx[m].list
Passed(x, z, m, t, h) ==
  LET o == x.mx[m].own
  IN /\ z.mx[m].own = t /\ z.mx[m].orig = x.prio[t]
     /\ z.mx[m].hipri = h.id /\ z.mx[m].list = Tail(x.mx[m].list)
     /\ z.prio[t] = h.prio /\ z.prio[o] = x.mx[m].orig
     /\ \A u \in Task \ {t, o} : z.prio[u] = x.prio[u]
Leaves(x, z, m) ==
  /\ z.base = x.base /\ Beside(x, z, m)
  /\ IF x.mx[m].list = << >> THEN Freed(x, z, m)
     ELSE Passed(x, z, m, Head(x.mx[m].list), Successor(x, m))

\* The owner of m and the tasks that wait for it.
LEMMA MutexTasks ==
    ASSUME NEW x, Quiet(x), Bound(x), Inherits(x, {}), NEW m \in Mutex, x.mx[m].own # InvalidId
    PROVE  LET o == x.mx[m].own
               W == ToSet(x.mx[m].list)
           IN /\ o \in Task \ {Idle} /\ x.mid[o] = m /\ o \notin W
              /\ x.prio[o] \in Nat /\ x.base[o] \in Nat /\ x.mx[m].orig \in Nat
              /\ x.prio[o] <= x.mx[m].orig /\ x.mx[m].orig <= x.base[o]
              /\ W \subseteq Task \ {Idle, o}
              /\ \A u \in W : /\ x.mid[u] = m /\ x.prio[u] \in Nat /\ x.base[u] \in Nat
                              /\ x.prio[o] <= x.prio[u] /\ x.prio[u] <= x.base[u]
<1> DEFINE o == x.mx[m].own
           W == ToSet(x.mx[m].list)
<1>1. KType(x) /\ x.prio \in [Task -> Nat] /\ x.base \in [Task -> Nat]
  BY DEF Quiet, KType, Inherits
<1>2. o \in Task /\ x.mx[m].orig \in Nat /\ W \subseteq Task
  BY <1>1, MutexFields
<1>3. Heir(x, m, {}) /\ \A u \in Task : x.prio[u] <= x.base[u]
  BY DEF Inherits
<1>4. /\ o # Idle /\ x.prio[o] <= x.mx[m].orig /\ x.mx[m].orig <= x.base[o]
      /\ \A u \in W : x.prio[o] <= x.prio[u] /\ u # Idle
  BY <1>3 DEF Heir
<1>5. x.mid[o] = m /\ o \notin W /\ \A u \in W : x.mid[u] = m
  BY DEF Bound
<1>6. x.prio[o] \in Nat /\ x.base[o] \in Nat /\ \A u \in W : x.prio[u] \in Nat /\ x.base[u] \in Nat
  BY <1>1, <1>2
<1> QED BY <1>2, <1>3, <1>4, <1>5, <1>6

LEMMA SuccessorIs ==
    ASSUME NEW x, Quiet(x), Bound(x), Inherits(x, {}), NEW m \in Mutex, x.mx[m].own # InvalidId,
           x.mx[m].list # << >>
    PROVE  LET h == Successor(x, m)
               t == Head(x.mx[m].list)
           IN /\ h.id \in Task \cup {InvalidId} /\ h.prio \in Nat /\ h.prio <= x.prio[t]
              /\ \A u \in ToSet(x.mx[m].list) : h.prio <= x.prio[u]
              /\ x.mx[m].hipri = x.mx[m].own =>
                   /\ h.prio # x.prio[t] => \E u \in ToSet(x.mx[m].list) : h.prio = x.prio[u]
                   /\ h.prio = x.prio[t] => h.id = x.mx[m].own
              /\ x.mx[m].hipri # x.mx[m].own =>
                   h.id = x.mx[m].hipri /\ h.prio = x.prio[x.mx[m].own]
<1> DEFINE o == x.mx[m].own
           list == x.mx[m].list
           t == Head(list)
           h == Successor(x, m)
<1>1. KType(x) /\ o \in Task /\ list \in Seq(Task) /\ x.mx[m].hipri \in Task \cup {InvalidId}
  BY MutexFields DEF Quiet
<1>2. t \in ToSet(list)
  BY <1>1, FirstOf
<1>3. x.prio[o] \in Nat /\ x.prio[t] \in Nat /\ \A u \in ToSet(list) : x.prio[o] <= x.prio[u]
  BY <1>2, MutexTasks
<1>4. CASE x.mx[m].hipri = o
  <2>1. h = Highest(x, list, x.prio[t], o)
    BY <1>4 DEF Successor
  <2> HIDE DEF h, o, list, t
  <2>2. /\ h.id \in Task \cup {InvalidId} /\ h.prio \in Nat /\ h.prio <= x.prio[t]
        /\ \A u \in ToSet(list) : h.prio <= x.prio[u]
        /\ h.prio # x.prio[t] => \E u \in ToSet(list) : h.prio = x.prio[u]
        /\ h.prio = x.prio[t] => h.id = o
    BY <1>1, <1>3, <2>1, HighestLeast
  <2> QED BY <1>4, <2>2 DEF h, o, list, t
<1>5. CASE x.mx[m].hipri # o
  <2>1. h = [id |-> x.mx[m].hipri, prio |-> x.prio[o]]
    BY <1>5 DEF Successor
  <2> HIDE DEF h
  <2>2. /\ h.id = x.mx[m].hipri /\ h.prio = x.prio[o]
    BY <2>1
  <2> QED BY <1>1, <1>2, <1>3, <1>5, <2>2 DEF h
<1> QED BY <1>4, <1>5

\* CoLeaveMutexSection: the owner gets the priority back that it is owed, and
\* the next owner the one of the task that the block names.
LEMMA LeaveShape ==
    ASSUME NEW x, Quiet(x), Bound(x), Inherits(x, {}), NEW m \in Mutex, x.mx[m].own # InvalidId,
           x.st[x.mx[m].own] # "DORMANT"
    PROVE  Leaves(x, LeaveMutex(x, m), m)
<1> DEFINE o == x.mx[m].own
           list == x.mx[m].list
           orig == x.mx[m].orig
           t == Head(list)
           z == LeaveMutex(x, m)
           mid == [x.mid EXCEPT ![o] = InvalidId]
<1>1. /\ KType(x) /\ x.mx \in [Mutex -> MutexType] /\ x.mx[m] \in MutexType
      /\ x.prio \in [Task -> Nat]
  BY DEF Quiet, KType
<1>2. /\ o \in Task \ {Idle} /\ orig \in Nat /\ list \in Seq(Task)
      /\ o \notin ToSet(list)
  BY <1>1, MutexFields, MutexTasks
<1>3. mid \in [Task -> Mutex \cup {InvalidId}]
  BY <1>1 DEF KType
<1>6. ASSUME NEW b \in MutexType
      PROVE  LET y == [x EXCEPT !.mid[o] = InvalidId, !.mx[m] = b]
             IN /\ Quiet(y) /\ y.mid = mid /\ y.prio = x.prio /\ y.base = x.base /\ y.st = x.st
                /\ \A n \in Mutex : y.mx[n] = IF n = m THEN b ELSE x.mx[n]
  <2> DEFINE mx == [x.mx EXCEPT ![m] = b]
             y == [x EXCEPT !.mid = mid, !.mx = mx]
  <2>1. mx \in [Mutex -> MutexType] /\ \A n \in Mutex : mx[n] = IF n = m THEN b ELSE x.mx[n]
    BY <1>1, <1>6
  <2>2. [x EXCEPT !.mid[o] = InvalidId, !.mx[m] = b] = y
    OBVIOUS
  <2> HIDE DEF mx, mid
  <2>3. KType(y)
    BY <1>1, <1>3, <2>1 DEF KType, Fields
  <2>4. /\ y.prio = x.prio /\ y.base = x.base /\ y.mid = mid /\ y.mx = mx /\ y.ev = x.ev
        /\ y.st = x.st
    BY <1>1 DEF KType, Fields
  <2> HIDE DEF y
  <2>5. Quiet(y)
    BY <2>3, <2>4 DEF Quiet
  <2> QED BY <2>1, <2>2, <2>4, <2>5
<1>7. CASE list = << >>
  <2> DEFINE b == [x.mx[m] EXCEPT !.own = InvalidId]
             y == [x EXCEPT !.mid[o] = InvalidId, !.mx[m] = b]
  <2>1. z = y
    <3>1. z = [[x EXCEPT !.mid[o] = InvalidId] EXCEPT !.mx[m].own = InvalidId]
      BY <1>7 DEF LeaveMutex
    <3> QED BY <1>1, <3>1 DEF KType, Fields
  <2>2. b \in MutexType /\ b.own = InvalidId /\ b.list = list
    BY <1>1 DEF MutexType
  <2> HIDE DEF b, z
  <2>3. /\ y.prio = x.prio /\ y.base = x.base
        /\ \A n \in Mutex : y.mx[n] = IF n = m THEN b ELSE x.mx[n]
    BY <1>6, <2>2
  <2> HIDE DEF y
  <2>4. y.base = x.base /\ Beside(x, y, m) /\ Freed(x, y, m)
    BY <2>2, <2>3 DEF Beside, Freed
  <2>5. Leaves(x, y, m)
    BY <1>7, <2>4 DEF Leaves
  <2> QED BY <2>1, <2>5 DEF z
<1>8. CASE list # << >>
  <2> DEFINE h == Successor(x, m)
             b0 == [x.mx[m] EXCEPT !.own = InvalidId, !.hipri = h.id]
             k0 == [x EXCEPT !.mid[o] = InvalidId, !.mx[m] = b0]
             k2 == SetPriority(k0, o, orig)
             mstale == (k2.mstale \ {t}) \cup {list[i] : i \in DOMAIN list \cap {2}}
             b == [k2.mx[m] EXCEPT !.own = t, !.orig = k2.prio[t], !.list = Tail(list)]
             mx == [k2.mx EXCEPT ![m] = b]
             prio == [k2.prio EXCEPT ![t] = h.prio]
             k3 == [k2 EXCEPT !.mx[m] = b, !.prio[t] = h.prio, !.mstale = mstale]
  <2>1. t \in ToSet(list) /\ t \in Task /\ Tail(list) \in Seq(Task) /\ t # o
    BY <1>2, <1>8, FirstOf
  <2>2. h.id \in Task \cup {InvalidId} /\ h.prio \in Nat
    BY <1>8, SuccessorIs
  <2>3. z = InsertToTCBRdyList(k3, t)
    <3>1. k0 = [[x EXCEPT !.mid[o] = InvalidId] EXCEPT
                  !.mx[m] = [@ EXCEPT !.own = InvalidId, !.hipri = h.id]]
      BY SMTT(30), <1>1 DEF KType, Fields
    <3> QED BY <1>8, <3>1 DEF LeaveMutex, Successor
  <2>4. b0 \in MutexType /\ b0.own = InvalidId /\ b0.hipri = h.id
    BY <1>1, <2>2 DEF MutexType
  <2> HIDE DEF h, b0, t, z
  <2>5. /\ Quiet(k0) /\ k0.mid = mid /\ k0.prio = x.prio /\ k0.base = x.base /\ k0.st = x.st
        /\ \A n \in Mutex : k0.mx[n] = IF n = m THEN b0 ELSE x.mx[n]
    BY <1>6, <2>4
  <2> HIDE DEF k0, mid, orig
  <2>6. Given(k0, k2, o, orig) /\ k0.mid[o] = InvalidId
    <3>1. k0.mid[o] = InvalidId
      BY <1>1, <1>2, <1>3, <2>5 DEF mid, KType
    <3> HIDE DEF o
    <3>2. o \in Task \ {Idle} /\ k0.st[o] # "DORMANT"
      BY <1>2, <2>5 DEF o
    <3> QED BY <1>2, <2>5, <3>1, <3>2, PriorityGiven
  <2> HIDE DEF k2, o
  <2>7. /\ KType(k2) /\ k2.base = x.base
        /\ \A u \in Task : k2.prio[u] = IF u = o THEN orig ELSE x.prio[u]
    BY <2>5, <2>6 DEF Given
  <2>7a. k2.mx[m].hipri = h.id /\ \A n \in Mutex \ {m} : k2.mx[n] = x.mx[n]
    <3>1. \A n \in Mutex : k2.mx[n] = k0.mx[n]
      BY <2>6, KernelAssumption DEF Given, Beside
    <3> QED BY <2>4, <2>5, <3>1
  <2>8. k2.mx \in [Mutex -> MutexType] /\ k2.mx[m] \in MutexType /\ k2.prio \in [Task -> Nat]
    BY <2>7 DEF KType
  <2>9. b \in MutexType /\ b.own = t /\ b.orig = x.prio[t] /\ b.list = Tail(list) /\ b.hipri = h.id
    <3>1. k2.prio[t] \in Nat /\ k2.prio[t] = x.prio[t]
      BY <2>1, <2>7, <2>8
    <3> QED BY <2>1, <2>7a, <2>8, <3>1 DEF MutexType
  <2> HIDE DEF b
  <2>10. /\ mx \in [Mutex -> MutexType] /\ mx[m] = b /\ \A n \in Mutex \ {m} : mx[n] = x.mx[n]
         /\ prio \in [Task -> Nat]
         /\ prio[t] = h.prio /\ \A u \in Task \ {t} : prio[u] = k2.prio[u]
    BY <2>1, <2>2, <2>7a, <2>8, <2>9
  <2>11. k3 = [k2 EXCEPT !.mx = mx, !.prio = prio, !.mstale = mstale]
    OBVIOUS
  <2> HIDE DEF mx, prio, mstale, k3
  <2>12. KType(k3) /\ k3.prio = prio /\ k3.mx = mx /\ k3.base = x.base
    BY <2>7, <2>10, <2>11 DEF KType, Fields
  <2>13. /\ k3.prio[t] = h.prio /\ k3.prio[o] = orig
         /\ \A u \in Task \ {t, o} : k3.prio[u] = x.prio[u]
    BY <1>2, <2>1, <2>7, <2>10, <2>12
  <2>14. Beside(x, k3, m)
    BY <2>10, <2>12 DEF Beside
  <2>15. /\ k3.mx[m].own = t /\ k3.mx[m].orig = x.prio[t]
         /\ k3.mx[m].hipri = h.id /\ k3.mx[m].list = Tail(list)
    BY <2>9, <2>10, <2>12
  <2>16. Unraised(k3, z)
    BY <2>1, <2>3, <2>12, InsertUnraised
  <2>17. z.prio = k3.prio /\ z.base = x.base /\ z.mx = k3.mx
    BY <2>12, <2>16 DEF Unraised
  <2>18. z.base = x.base /\ Beside(x, z, m)
    BY <2>14, <2>17 DEF Beside
  <2>19. Passed(x, z, m, t, h)
    BY <2>13, <2>15, <2>17 DEF Passed, o, orig
  <2> QED BY <1>8, <2>18, <2>19 DEF Leaves, t, h, z
<1> QED BY <1>7, <1>8

LEMMA LeaveInherits ==
    ASSUME NEW x, Quiet(x), Bound(x), Inherits(x, {}), NEW m \in Mutex, x.mx[m].own # InvalidId,
           NEW z, Leaves(x, z, m)
    PROVE  Inherits(z, {})
<1> DEFINE o == x.mx[m].own
           list == x.mx[m].list
           t == Head(list)
           h == Successor(x, m)
<1>1. /\ KType(x) /\ list \in Seq(Task) /\ x.base \in [Task -> Nat] /\ z.base = x.base
      /\ {m} \in SUBSET Mutex
  BY MutexFields DEF Quiet, Inherits, Leaves
<1>2. /\ o \in Task \ {Idle} /\ x.mid[o] = m /\ o \notin ToSet(list)
      /\ x.prio[o] \in Nat /\ x.base[o] \in Nat /\ x.mx[m].orig \in Nat
      /\ x.prio[o] <= x.mx[m].orig /\ x.mx[m].orig <= x.base[o]
      /\ ToSet(list) \subseteq Task \ {Idle, o}
      /\ \A u \in ToSet(list) : /\ x.mid[u] = m /\ x.prio[u] \in Nat /\ x.base[u] \in Nat
                                /\ x.prio[o] <= x.prio[u] /\ x.prio[u] <= x.base[u]
  BY MutexTasks
<1>3. \A n \in Mutex \ {m} : /\ z.mx[n].own = x.mx[n].own /\ z.mx[n].orig = x.mx[n].orig
                             /\ z.mx[n].list = x.mx[n].list
  BY DEF Leaves, Beside
<1>4. CASE list = << >>
  <2>1. z.prio = x.prio /\ z.mx[m].own = InvalidId /\ z.mx[m].list = list
    BY <1>4 DEF Leaves, Freed
  <2>2. \A n \in {m} : Heir(z, n, {})
    BY <1>2, <2>1 DEF Heir
  <2>3. Writes(x, z, {m}, {})
    BY <1>1, <1>3, <2>1 DEF Writes
  <2> QED BY <1>1, <2>2, <2>3, Elsewhere
<1>5. CASE list # << >>
  <2>1. t \in ToSet(list) /\ ToSet(Tail(list)) \subseteq ToSet(list)
    BY <1>1, <1>5, FirstOf
  <2>2. /\ h.prio \in Nat /\ h.prio <= x.prio[t]
        /\ \A u \in ToSet(list) : h.prio <= x.prio[u]
    BY <1>5, SuccessorIs
  <2> HIDE DEF h, t
  <2>3. /\ z.mx[m].own = t /\ z.mx[m].orig = x.prio[t] /\ z.mx[m].list = Tail(list)
        /\ z.prio[t] = h.prio /\ z.prio[o] = x.mx[m].orig
        /\ \A u \in Task \ {t, o} : z.prio[u] = x.prio[u]
    BY <1>5 DEF Leaves, Passed, t, h
  <2>4. \A n \in {m} : Heir(z, n, {})
    <3>1. x.prio[t] <= z.base[t] /\ t # Idle
      BY <1>1, <1>2, <2>1
    <3>2. \A u \in ToSet(Tail(list)) : u # Idle /\ z.prio[t] <= z.prio[u]
      <4> TAKE u \in ToSet(Tail(list))
      <4>1. u \in ToSet(list) /\ u \in Task /\ u # o /\ u # Idle
        BY <1>2, <2>1
      <4>2. CASE u = t
        BY <2>2, <2>3, <4>1, <4>2
      <4>3. CASE u # t
        BY <2>2, <2>3, <4>1, <4>3
      <4> QED BY <4>2, <4>3
    <3> QED BY <2>2, <2>3, <3>1, <3>2 DEF Heir
  <2>5. Writes(x, z, {m}, {t, o})
    <3>1. \A u \in Task \ {t, o} : z.prio[u] = x.prio[u] /\ z.base[u] = x.base[u]
      BY <1>1, <2>3
    <3>2. z.prio[o] <= z.base[o] /\ x.mid[o] = m
      BY <1>1, <1>2, <2>3
    <3>3. z.prio[t] <= z.base[t] /\ x.mid[t] = m
      <4>1. x.prio[t] \in Nat /\ x.base[t] \in Nat /\ x.prio[t] <= x.base[t] /\ x.mid[t] = m
        BY <1>2, <2>1
      <4> QED BY <1>1, <2>2, <2>3, <4>1
    <3> QED BY <1>1, <1>3, <3>1, <3>2, <3>3 DEF Writes
  <2> QED BY <1>1, <2>4, <2>5, Elsewhere
<1> QED BY <1>4, <1>5

\* A step with which the owner of m leaves it.
LeftBy(m) == k.mx[m].own # InvalidId /\ Leaves(k, k', m) /\ k'.free = k.free

LEMMA LeftStep ==
    ASSUME Sound, Inherits(k, {}), NEW m \in Mutex, NEW t \in Task, k.mx[m].own = t,
           NEW y, Outside(LeaveMutex(k, m), t, y), y.base = LeaveMutex(k, m).base,
           k' = OsSchedUnlock(y)
    PROVE  LeftBy(m)
<1> DEFINE z == LeaveMutex(k, m)
<1>1. Quiet(k) /\ Bound(k) /\ k.mx[m].own # InvalidId /\ k.st[k.mx[m].own] # "DORMANT"
  BY RaisesParts, KernelAssumption
<1>2. Leaves(k, z, m)
  BY <1>1, LeaveShape
<1>3. z.srq = << >> /\ z.free = k.free
  <2>1. Whole(k, call, left)
    BY SoundParts
  <2>2. Typed(z) /\ z.free = k.free
    BY <1>1, <2>1, Left
  <2> QED BY <2>2 DEF Typed
<1> HIDE DEF z
<1>4. /\ KType(y) /\ y.prio = z.prio /\ y.base = z.base /\ y.mx = z.mx /\ y.srq = << >>
      /\ y.free = k.free
  BY <1>3 DEF Outside, z
<1>5. Unraised(y, k')
  BY <1>4, UnlockUnraised
<1>6. k'.prio = z.prio /\ k'.base = z.base /\ k'.mx = z.mx /\ k'.free = k.free
  BY <1>4, <1>5 DEF Unraised
<1>7. Leaves(k, k', m)
  BY <1>2, <1>6 DEF Leaves, Beside, Freed, Passed
<1> QED BY <1>1, <1>6, <1>7 DEF LeftBy

LEMMA OutsideBase ==
    ASSUME NEW z, Typed(z), NEW t \in Task
    PROVE  [z EXCEPT !.inside[t] = {}].base = z.base
  BY DEF Typed, KType, Fields

LEMMA DelLeaveStep ==
    ASSUME Sound, Inherits(k, {}), DelLeave
    PROVE  \E m \in Mutex : LeftBy(m)
<1> DEFINE t == call[k.run].task
           m == call[k.run].mutex
           y == [LeaveMutex(k, m) EXCEPT !.inside[t] = {}]
<1>1. call[k.run].op = "delleave" /\ k' = OsSchedUnlock(y)
  BY DEF DelLeave, Pending
<1>2. t \in Task /\ m \in Mutex /\ k.mx[m].own = t
  <2>1. CASE Alone(k, call, k.run)
    <3>1. ~Doomed(k, call, k.run)
      BY <1>1 DEF Doomed
    <3> QED BY <1>1, <2>1, <3>1, SoundParts, AloneCall
  <2>2. ASSUME NEW u \in Task \ {Idle, k.run}, Other(k, call, k.run, u)
        PROVE  t \in Task /\ m \in Mutex /\ k.mx[m].own = t
    BY <1>1, <2>2, OtherCall
  <2>3. call[k.run].op # "none"
    BY <1>1
  <2> QED BY <2>1, <2>2, <2>3, SoundParts, RunCall
<1>3. Outside(LeaveMutex(k, m), t, y) /\ y.base = LeaveMutex(k, m).base
  <2>1. Typed(LeaveMutex(k, m))
    <3>1. Whole(k, call, left) /\ k.mx[m].own # InvalidId
      BY <1>2, SoundParts, KernelAssumption
    <3> QED BY <1>2, <3>1, Left
  <2> QED BY <1>2, <2>1, OutsideIs, OutsideBase DEF y
<1> HIDE DEF t, m, y
<1> QED BY <1>1, <1>2, <1>3, LeftStep

LEMMA LeaveStep ==
    ASSUME Sound, Inherits(k, {}), NEW m \in Mutex, CoLeaveMutexSection(m)
    PROVE  LeftBy(m)
<1> DEFINE y == [LeaveMutex(k, m) EXCEPT !.inside[k.run] = {}]
<1>1. call[k.run] = NoCall /\ m \in k.inside[k.run]
  BY DEF CoLeaveMutexSection, Caller
<1>2. k.run \in Task /\ k.mx[m].own = k.run
  BY <1>1, SoundParts DEF Owned
<1>3. Whole(k, call, left) /\ k.mx[m].own # InvalidId
  BY <1>2, SoundParts, KernelAssumption
<1>4. LeaveMutex(k, m).inside = k.inside /\ Typed(LeaveMutex(k, m))
  BY <1>3, Left
<1>5. k.inside[k.run] \ {m} = {}
  <2>1. \A n \in k.inside[k.run] : n \in Mutex /\ k.mx[n].own = k.run
    BY <1>2, SoundParts DEF Typed, Owned
  <2>2. \A n \in k.inside[k.run] : n = k.mid[k.run]
    BY <1>2, <2>1, SoundParts, KernelAssumption DEF Owned
  <2> QED BY <1>1, <2>2
<1>6. k' = OsSchedUnlock(y)
  BY <1>4, <1>5 DEF CoLeaveMutexSection
<1>7. Outside(LeaveMutex(k, m), k.run, y) /\ y.base = LeaveMutex(k, m).base
  BY <1>2, <1>4, OutsideIs, OutsideBase DEF y
<1> HIDE DEF y
<1> QED BY <1>2, <1>6, <1>7, LeftStep

\* t no longer waits for its mutex.  If the block named t, the owner has the
\* highest priority of those that still wait, or the one it is owed.
Unwaits(x, z, t) ==
  LET m == x.mid[t]
      o == x.mx[m].own
      W == ToSet(x.mx[m].list) \ {t}
  IN /\ z.base = x.base /\ Beside(x, z, m)
     /\ z.mx[m].own = o /\ z.mx[m].orig = x.mx[m].orig /\ ToSet(z.mx[m].list) = W
     /\ \A u \in Task \ {o} : z.prio[u] = x.prio[u]
     /\ x.mx[m].hipri # t => z.prio[o] = x.prio[o] /\ z.mx[m].hipri = x.mx[m].hipri
     /\ x.mx[m].hipri = t =>
          /\ z.prio[o] \in Nat /\ z.prio[o] <= x.mx[m].orig
          /\ \A u \in W : z.prio[o] <= x.prio[u]
          /\ z.prio[o] # x.mx[m].orig => \E u \in W : z.prio[o] = x.prio[u]

LEMMA RaiseLeft ==
    ASSUME Sound, Inherits(k, {}), NEW m \in Mutex, LeftBy(m)
    PROVE  Raises(k', call')
<1>1. Quiet(k) /\ Bound(k) /\ k.mx[m].own # InvalidId /\ Leaves(k, k', m)
  BY RaisesParts DEF LeftBy
<1>2. Inherits(k', {})
  BY <1>1, LeaveInherits
<1>3. {} \subseteq Touched(k', call')
  OBVIOUS
<1> QED BY <1>2, <1>3, SameInherits DEF Raises

LEMMA RaiseLeaves ==
    ASSUME Sound, Raises(k, call), DelLeave \/ \E m \in Mutex : CoLeaveMutexSection(m)
    PROVE  Raises(k', call')
<1>1. call[k.run].op # "prio"
  <2>1. CASE DelLeave
    BY <2>1 DEF DelLeave, Pending
  <2>2. ASSUME NEW m \in Mutex, CoLeaveMutexSection(m) PROVE call[k.run].op # "prio"
    BY <2>2 DEF CoLeaveMutexSection, Caller, NoCall
  <2> QED BY <2>1, <2>2
<1>2. Inherits(k, {})
  BY <1>1, CalmRun
<1>3. PICK m \in Mutex : LeftBy(m)
  BY <1>2, DelLeaveStep, LeaveStep
<1> QED BY <1>2, <1>3, RaiseLeft

\* A task stops waiting for a mutex: its owner gets the priority of those
\* that still wait.
LEMMA UnwaitShape ==
    ASSUME NEW x, Quiet(x), Bound(x), Inherits(x, {}), NEW t \in Task, x.mid[t] \in Mutex,
           t \in ToSet(x.mx[x.mid[t]].list), IsInjective(x.mx[x.mid[t]].list),
           x.st[x.mx[x.mid[t]].own] # "DORMANT"
    PROVE  Unwaits(x, RemoveMutexList(x, t), t)
<1> DEFINE m == x.mid[t]
           o == x.mx[m].own
           orig == x.mx[m].orig
           list == Unlinked(x.mx[m].list, t)
           z == RemoveMutexList(x, t)
           ko == [x.mx[m] EXCEPT !.list = list]
           mx1 == [x.mx EXCEPT ![m] = ko]
           mid == [x.mid EXCEPT ![t] = InvalidId]
           mstale == x.mstale \ {t}
           intact == x.intact /\ ~Misses(x, t)
           k1 == [x EXCEPT !.mx = mx1, !.mid = mid, !.mstale = mstale, !.intact = intact]
           h == Highest(k1, k1.mx[m].list, orig, o)
           b0 == [k1.mx[m] EXCEPT !.own = InvalidId, !.hipri = h.id]
           mx0 == [k1.mx EXCEPT ![m] = b0]
           k0 == [k1 EXCEPT !.mx[m] = b0]
           k2 == SetPriority(k0, o, h.prio)
           b == [k2.mx[m] EXCEPT !.own = o]
           mx == [k2.mx EXCEPT ![m] = b]
           k3 == [k2 EXCEPT !.mx[m] = b]
<1>1. /\ KType(x) /\ x.mid \in [Task -> Mutex \cup {InvalidId}] /\ x.ev = [u \in Task |-> InvalidId]
      /\ x.mx \in [Mutex -> MutexType] /\ m \in Mutex /\ x.mx[m] \in MutexType
      /\ x.prio \in [Task -> Nat] /\ x.base \in [Task -> Nat]
  BY DEF Quiet, KType, Inherits
<1>2. /\ o \in Task \cup {InvalidId} /\ orig \in Nat /\ x.mx[m].list \in Seq(Task)
      /\ ToSet(x.mx[m].list) \subseteq Task
  BY <1>1, MutexFields
<1>3. list \in Seq(Task) /\ ToSet(list) = ToSet(x.mx[m].list) \ {t}
  BY <1>2, UnlinkedOnce
<1>4. o \in Task /\ o # t /\ x.mid[o] = m
  <2>1. x.mx[m].list # << >>
    BY <1>2, Elements
  <2> QED BY <1>1, <1>2, <2>1 DEF Bound
<1>5. o # Idle
  BY <1>1, <1>4, KernelAssumption, MutexTasks
<1>6. z = IF x.mx[m].hipri = t THEN k3 ELSE k1
  <2>1. k1 = [x EXCEPT !.mx[m].list = list, !.mid[t] = InvalidId,
                       !.mstale = @ \ {t}, !.intact = @ /\ ~Misses(x, t)]
    OBVIOUS
  <2>2. k3 = [k2 EXCEPT !.mx[m].own = o]
    OBVIOUS
  <2> HIDE DEF b, k1
  <2> QED BY <2>1, <2>2 DEF RemoveMutexList
<1>7. ko \in MutexType /\ ko.own = o /\ ko.orig = orig /\ ko.list = list /\ ko.hipri = x.mx[m].hipri
  BY <1>1, <1>3 DEF MutexType
<1> HIDE DEF z, list, ko
<1>8. /\ mx1 \in [Mutex -> MutexType] /\ mid \in [Task -> Mutex \cup {InvalidId}]
      /\ mx1[m] = ko /\ \A n \in Mutex \ {m} : mx1[n] = x.mx[n]
  BY <1>1, <1>7
<1>9. mid[o] = m
  BY <1>1, <1>4
<1> HIDE DEF mx1, mid, mstale, intact, m
<1>10. KType(k1)
  BY <1>1, <1>8 DEF KType, Fields
<1>11. /\ k1.prio = x.prio /\ k1.base = x.base /\ k1.mx = mx1 /\ k1.mid = mid /\ k1.ev = x.ev
       /\ k1.st = x.st
  BY <1>1 DEF KType, Fields
<1> HIDE DEF k1
<1> DEFINE W == ToSet(x.mx[m].list) \ {t}
<1>12. CASE x.mx[m].hipri # t
  <2>1. /\ k1.mx[m].own = o /\ k1.mx[m].orig = orig /\ ToSet(k1.mx[m].list) = W
        /\ k1.mx[m].hipri = x.mx[m].hipri
    BY <1>3, <1>7, <1>8, <1>11
  <2>2. Beside(x, k1, m)
    BY <1>8, <1>11 DEF Beside
  <2>3. k1.base = x.base /\ k1.prio = x.prio
    BY <1>11
  <2>4. z = k1
    BY <1>6, <1>12
  <2> QED BY <1>12, <2>1, <2>2, <2>3, <2>4 DEF z, m, Unwaits
<1>13. CASE x.mx[m].hipri = t
  <2>1. /\ h.id \in Task \cup {InvalidId} /\ h.prio \in Nat /\ h.prio <= orig
        /\ \A u \in ToSet(list) : h.prio <= x.prio[u]
        /\ h.prio # orig => \E u \in ToSet(list) : h.prio = x.prio[u]
    <3>1. k1.mx[m].list = list
      BY <1>7, <1>8, <1>11
    <3> DEFINE g == Highest(k1, list, orig, o)
    <3>2. /\ g.id \in Task \cup {InvalidId} /\ g.prio \in Nat /\ g.prio <= orig
          /\ \A u \in ToSet(list) : g.prio <= k1.prio[u]
          /\ g.prio # orig => \E u \in ToSet(list) : g.prio = k1.prio[u]
      <4> HIDE DEF orig, o
      <4> QED BY <1>2, <1>3, <1>10, HighestLeast
    <3>3. h = g
      BY <3>1
    <3> HIDE DEF h, g
    <3> QED BY <1>11, <3>2, <3>3
  <2> HIDE DEF h
  <2>2. /\ b0 \in MutexType /\ b0.own = InvalidId /\ b0.orig = orig /\ b0.list = list
    BY <1>7, <1>8, <1>11, <2>1 DEF MutexType
  <2> HIDE DEF b0
  <2>3. /\ mx0 \in [Mutex -> MutexType] /\ mx0[m] = b0 /\ \A n \in Mutex \ {m} : mx0[n] = x.mx[n]
    BY <1>1, <1>8, <1>11, <2>2
  <2>3a. k0 = [k1 EXCEPT !.mx = mx0]
    OBVIOUS
  <2> HIDE DEF mx0, k0
  <2>4. KType(k0)
    BY <1>10, <2>3, <2>3a DEF KType, Fields
  <2>5. /\ k0.prio = x.prio /\ k0.base = x.base /\ k0.mx = mx0 /\ k0.mid = mid /\ k0.ev = x.ev
        /\ k0.st = x.st
    BY <1>10, <1>11, <2>3a DEF KType, Fields
  <2>6. Given(k0, k2, o, h.prio)
    <3>1. Quiet(k0)
      BY <1>1, <2>4, <2>5 DEF Quiet
    <3>2. k0.mx[k0.mid[o]].own = InvalidId
      BY <1>9, <2>2, <2>3, <2>5
    <3>3. o \in Task \ {Idle} /\ k0.st[o] # "DORMANT"
      BY <1>4, <1>5, <2>5 DEF m
    <3> HIDE DEF o
    <3> QED BY <2>1, <3>1, <3>2, <3>3, PriorityGiven
  <2> HIDE DEF k2
  <2>7. /\ KType(k2) /\ k2.base = x.base
        /\ \A u \in Task : k2.prio[u] = IF u = o THEN h.prio ELSE x.prio[u]
        /\ \A n \in Mutex : /\ k2.mx[n].own = mx0[n].own /\ k2.mx[n].orig = mx0[n].orig
                            /\ k2.mx[n].list = mx0[n].list
    <3> HIDE DEF o
    <3> QED BY <2>5, <2>6 DEF Given
  <2>7a. \A n \in Mutex \ {m} : k2.mx[n] = mx0[n]
    <3>1. k0.mid[o] = m
      BY <1>9, <2>5
    <3> HIDE DEF o, k0, mx0
    <3> QED BY <2>5, <2>6, <3>1 DEF Given, Beside
  <2>8. k2.mx \in [Mutex -> MutexType] /\ k2.mx[m] \in MutexType
    BY <1>1, <2>7 DEF KType
  <2>9. /\ b \in MutexType /\ b.own = o /\ b.orig = orig /\ b.list = list
    <3>1. k2.mx[m].orig = orig /\ k2.mx[m].list = list
      BY <1>1, <2>2, <2>3, <2>7
    <3> QED BY <1>2, <2>8, <3>1 DEF MutexType
  <2> HIDE DEF b
  <2>10. mx[m] = b /\ \A n \in Mutex \ {m} : mx[n] = k2.mx[n]
    BY <1>1, <2>8
  <2>10a. k3 = [k2 EXCEPT !.mx = mx]
    OBVIOUS
  <2> HIDE DEF mx, k3
  <2>11. k3.prio = k2.prio /\ k3.base = x.base /\ k3.mx = mx
    BY <2>7, <2>10a DEF KType, Fields
  <2>12. k3.prio[o] = h.prio /\ \A u \in Task \ {o} : k3.prio[u] = x.prio[u]
    BY <1>4, <2>7, <2>11
  <2>13. k3.mx[m].own = o /\ k3.mx[m].orig = orig /\ k3.mx[m].list = list
    BY <2>9, <2>10, <2>11
  <2>14. Beside(x, k3, m)
    BY <2>3, <2>7a, <2>10, <2>11 DEF Beside
  <2>15. k3.base = x.base /\ z = k3
    BY <1>6, <1>13, <2>11
  <2> HIDE DEF o, orig
  <2>16. /\ k3.mx[m].own = o /\ k3.mx[m].orig = orig /\ ToSet(k3.mx[m].list) = W
         /\ \A u \in Task \ {o} : k3.prio[u] = x.prio[u]
    BY <1>3, <2>12, <2>13
  <2>17. /\ k3.prio[o] \in Nat /\ k3.prio[o] <= orig
         /\ \A u \in W : k3.prio[o] <= x.prio[u]
         /\ k3.prio[o] # orig => \E u \in W : k3.prio[o] = x.prio[u]
    BY <1>3, <2>1, <2>12
  <2> HIDE DEF k3
  <2> QED BY <1>13, <2>14, <2>15, <2>16, <2>17 DEF z, m, o, orig, Unwaits
<1> QED BY <1>12, <1>13

LEMMA UnwaitInherits ==
    ASSUME NEW x, Quiet(x), Bound(x), Inherits(x, {}), NEW t \in Task, x.mid[t] \in Mutex,
           t \in ToSet(x.mx[x.mid[t]].list), NEW z, Unwaits(x, z, t)
    PROVE  Inherits(z, {})
<1> DEFINE m == x.mid[t]
           o == x.mx[m].own
           orig == x.mx[m].orig
           W == ToSet(x.mx[m].list) \ {t}
<1>1. o # InvalidId
  <2>1. x.mx[m].list \in Seq(Task)
    BY MutexFields DEF Quiet
  <2>2. x.mx[m].list # << >>
    BY <2>1, Elements
  <2> QED BY <2>2 DEF Bound
<1>2. /\ o \in Task \ {Idle} /\ x.mid[o] = m /\ x.prio[o] \in Nat /\ x.base[o] \in Nat /\ orig \in Nat
      /\ x.prio[o] <= orig /\ orig <= x.base[o] /\ W \subseteq Task \ {Idle, o}
      /\ \A u \in W : x.prio[u] \in Nat /\ x.prio[o] <= x.prio[u]
  BY <1>1, MutexTasks
<1>3. /\ z.base = x.base /\ Beside(x, z, m)
      /\ z.mx[m].own = o /\ z.mx[m].orig = orig /\ ToSet(z.mx[m].list) = W
      /\ \A u \in Task \ {o} : z.prio[u] = x.prio[u]
      /\ z.prio[o] \in Nat /\ z.prio[o] <= orig /\ \A u \in W : z.prio[o] <= x.prio[u]
  <2>1. CASE x.mx[m].hipri = t
    BY <2>1 DEF Unwaits
  <2>2. CASE x.mx[m].hipri # t
    BY <1>2, <2>2 DEF Unwaits
  <2> QED BY <2>1, <2>2
<1> HIDE DEF o, orig, W
<1>4. Heir(z, m, {})
  <2>1. \A u \in W : u # Idle /\ z.prio[o] <= z.prio[u]
    BY <1>2, <1>3
  <2> QED BY <1>2, <1>3, <2>1 DEF Heir
<1>5. Writes(x, z, {m}, {o})
  <2>1. z.prio[o] <= z.base[o] /\ x.base \in [Task -> Nat]
    BY <1>2, <1>3 DEF Inherits
  <2>2. \A n \in Mutex \ {m} : /\ z.mx[n].own = x.mx[n].own /\ z.mx[n].orig = x.mx[n].orig
                               /\ z.mx[n].list = x.mx[n].list
    BY <1>3 DEF Beside
  <2> QED BY <1>2, <1>3, <2>1, <2>2 DEF Writes
<1>6. {m} \in SUBSET Mutex /\ \A n \in {m} : Heir(z, n, {})
  BY <1>4
<1>7. KType(x)
  BY DEF Quiet
<1> QED BY <1>5, <1>6, <1>7, Elsewhere

\* CoDelTask unlinks a task from its mutex, or changes no mutex.
Unlinks(x, y, t) ==
  \/ y.prio = x.prio /\ y.base = x.base /\ y.mx = x.mx
  \/ x.mid[t] \in Mutex /\ t \in ToSet(x.mx[x.mid[t]].list) /\ Unwaits(x, y, t)

LEMMA UnlinkKinds ==
    ASSUME Sound, Inherits(k, {}), NEW t \in Task, k.mid[t] # InvalidId => k.mx[k.mid[t]].own # t
    PROVE  Unlinks(k, Unlink(t), t)
<1> DEFINE m == k.mid[t]
           k1 == IF k.tick[t] # Invalid THEN RemoveDelayList(k, t) ELSE k
           k4 == IF k.mid[t] # InvalidId THEN RemoveMutexList(k1, t) ELSE k1
           y == Unlink(t)
<1>1. /\ Typed(k) /\ KType(k) /\ Placed(k, {}) /\ Owned(k, call) /\ Quiet(k) /\ Bound(k)
      /\ k.mid[t] \in Mutex \cup {InvalidId}
  BY SoundParts, RaisesParts DEF KType
<1>2. k.ev[t] = InvalidId /\ ~Pnode(k, t)
  <2>1. << >> \in Seq(Task)
    OBVIOUS
  <2>2. ToSet(<< >>) = {}
    BY <2>1, Elements
  <2>3. k.flg.list = << >>
    BY <1>1 DEF Typed
  <2> QED BY <1>1, <2>2, <2>3 DEF Typed, Pnode
<1>3. y = CASE k.st[t] = "READY" -> RemoveFromTCBRdyList(k, t)
            [] k.st[t] = "WAITING" -> k4
            [] OTHER -> k
  BY <1>2 DEF Unlink
<1> HIDE DEF y
<1>4. CASE k.st[t] = "READY"
  <2> DEFINE z == RemoveFromTCBRdyList(k, t)
  <2>1. Unraised(k, z)
    BY <1>1, RemoveUnraised
  <2> HIDE DEF z
  <2>2. y = z
    BY <1>3, <1>4 DEF z
  <2>3. Unlinks(k, z, t)
    BY <2>1 DEF Unraised, Unlinks
  <2> QED BY <2>2, <2>3 DEF y
<1>5. CASE k.st[t] = "WAITING"
  <2>1. CASE k.mid[t] = InvalidId
    <3>1. y = k1
      BY <1>3, <1>5, <2>1
    <3>2. k1.prio = k.prio /\ k1.base = k.base /\ k1.mx = k.mx
      <4> DEFINE z == RemoveDelayList(k, t)
      <4>1. z.prio = k.prio /\ z.base = k.base /\ z.mx = k.mx
        BY <1>1, DelayOutRanked
      <4> HIDE DEF z
      <4>2. k1 = k \/ k1 = z
        BY DEF z
      <4> HIDE DEF k1
      <4> QED BY <4>1, <4>2
    <3> HIDE DEF k1
    <3>3. Unlinks(k, k1, t)
      BY <3>2 DEF Unlinks
    <3> QED BY <3>1, <3>3 DEF y
  <2>2. CASE k.mid[t] # InvalidId
    <3>1. m \in Mutex /\ t \in ToSet(k.mx[m].list) /\ IsInjective(k.mx[m].list) /\ k.tick[t] = Invalid
      <4>1. m \in Mutex /\ t \in ToSet(k.mx[m].list)
        BY <1>1, <2>2 DEF Owned
      <4> QED BY <1>1, <4>1 DEF Placed
    <3>2. k.st[k.mx[m].own] # "DORMANT"
      <4>1. k.mx[m].list # << >>
        <5>1. k.mx[m].list \in Seq(Task)
          BY <1>1, <3>1, MutexFields
        <5> QED BY <3>1, <5>1, Elements
      <4>2. k.mx[m].own # InvalidId
        BY <1>1, <3>1, <4>1 DEF Bound
      <4> QED BY <3>1, <4>2, RaisesParts
    <3> DEFINE z == RemoveMutexList(k, t)
    <3>3. Unwaits(k, z, t)
      BY <1>1, <3>1, <3>2, UnwaitShape
    <3> HIDE DEF z
    <3>4. y = z
      BY <1>3, <1>5, <2>2, <3>1 DEF z
    <3>5. Unlinks(k, z, t)
      BY <3>1, <3>3 DEF Unlinks
    <3> QED BY <3>4, <3>5 DEF y
  <2> QED BY <2>1, <2>2
<1>6. CASE k.st[t] \notin {"READY", "WAITING"}
  <2>1. y = k
    BY <1>3, <1>6
  <2>2. Unlinks(k, k, t)
    BY DEF Unlinks
  <2> QED BY <2>1, <2>2 DEF y
<1> QED BY <1>4, <1>5, <1>6

LEMMA DeleteStep ==
    ASSUME Sound, Inherits(k, {}), CoDelTask
    PROVE  \E t \in Task : /\ Unlinks(k, k', t) /\ ToSet(k'.free) = ToSet(k.free) \cup {t}
<1> DEFINE t == call[k.run].task
           k1 == Unlink(t)
           st == [k1.st EXCEPT ![t] = "DORMANT"]
           free == <<t>> \o k1.free
           intact == k1.intact /\ t \notin Linked(k1)
           y == [k1 EXCEPT !.st = st, !.req = TRUE, !.free = free, !.intact = intact]
<1>1. call[k.run].op = "delete" /\ k' = OsSchedUnlock(y)
  BY DEF CoDelTask, Pending
<1>2. KType(k) /\ Owned(k, call) /\ Calls(k, call) /\ k.run \in Task /\ k.st[k.run] = "RUNNING"
      /\ k.srq = << >>
  BY SoundParts, RaisesParts
<1>3. /\ t \in Task /\ k.st[t] # "DORMANT"
      /\ t # k.run \/ k.mid[t] = InvalidId
      /\ k.mid[t] # InvalidId => k.mx[k.mid[t]].own # t /\ ~Misses(k, t)
  <2>1. CASE Alone(k, call, k.run)
    <3>1. t = k.run /\ t # Idle /\ k.lock = 0 /\ k.mid[t] = InvalidId
      BY <1>1, <2>1, AloneCall
    <3> QED BY <1>2, <3>1
  <2>2. ASSUME NEW u \in Task \ {Idle, k.run}, Other(k, call, k.run, u)
        PROVE  /\ t = u /\ k.st[u] # "DORMANT"
               /\ k.mid[u] # InvalidId => k.mx[k.mid[u]].own # u /\ ~Misses(k, u)
    BY <1>1, <2>2, OtherCall
  <2>3. CASE \E u \in Task \ {Idle, k.run} : Other(k, call, k.run, u)
    BY <2>2, <2>3
  <2>4. call[k.run].op # "none"
    BY SMTT(30), <1>1
  <2> QED BY <1>2, <2>1, <2>3, <2>4, RunCall
<1> HIDE DEF t
<1>4. Unlinks(k, k1, t)
  BY <1>3, UnlinkKinds
<1>5. KType(k1) /\ k1.srq = << >> /\ k1.free = k.free
  BY <1>3, Undone DEF Detached, Typed
<1> HIDE DEF k1
<1>6. /\ st \in [Task -> Alive \cup {"DORMANT"}] /\ free \in Seq(Task)
      /\ ToSet(free) = ToSet(k.free) \cup {t}
  BY <1>3, <1>5, Pushed DEF KType, Alive
<1> HIDE DEF st, free, intact
<1>7. /\ y.prio = k1.prio /\ y.base = k1.base /\ y.mx = k1.mx /\ y.srq = k1.srq
      /\ y.free = free
  BY <1>5 DEF KType, Fields
<1>8. KType(y)
  BY <1>5, <1>6 DEF KType, Fields
<1> HIDE DEF y
<1>9. Unraised(y, k')
  BY <1>1, <1>5, <1>7, <1>8, UnlockUnraised
<1>10. k'.prio = k1.prio /\ k'.base = k1.base /\ k'.mx = k1.mx /\ k'.free = free
  BY <1>7, <1>9 DEF Unraised
<1>11. Unlinks(k, k', t)
  BY <1>4, <1>10 DEF Unlinks, Unwaits, Beside
<1> QED BY <1>3, <1>6, <1>10, <1>11

LEMMA RaiseDelete ==
    ASSUME Sound, Raises(k, call), CoDelTask
    PROVE  Raises(k', call')
<1>1. Quiet(k) /\ Bound(k) /\ call[k.run].op # "prio"
  BY RaisesParts DEF CoDelTask, Pending
<1>2. Inherits(k, {})
  BY <1>1, CalmRun
<1>3. PICK t \in Task : Unlinks(k, k', t)
  BY <1>2, DeleteStep
<1>4. Inherits(k', {})
  <2>1. CASE k'.prio = k.prio /\ k'.base = k.base /\ k'.mx = k.mx
    BY <1>2, <2>1, SameInherits
  <2>2. CASE k.mid[t] \in Mutex /\ t \in ToSet(k.mx[k.mid[t]].list) /\ Unwaits(k, k', t)
    BY <1>1, <1>2, <2>2, UnwaitInherits
  <2> QED BY <1>3, <2>1, <2>2 DEF Unlinks
<1>5. {} \subseteq Touched(k', call')
  OBVIOUS
<1> QED BY <1>4, <1>5, SameInherits DEF Raises

\* t has the free mutex m, or waits for it, and its owner has inherited the
\* priority of t.
Enters(x, y, m, t) ==
  LET o == x.mx[m].own
  IN /\ y.base = x.base /\ y.free = x.free /\ Beside(x, y, m)
     /\ o = InvalidId =>
          /\ y.prio = x.prio
          /\ y.mx[m].own = t /\ y.mx[m].orig = x.prio[t] /\ y.mx[m].hipri = t
          /\ y.mx[m].list = << >>
     /\ o # InvalidId =>
          /\ y.mx[m].own = o /\ y.mx[m].orig = x.mx[m].orig
          /\ ToSet(y.mx[m].list) = ToSet(x.mx[m].list) \cup {t}
          /\ \A u \in Task \ {o} : y.prio[u] = x.prio[u]
          /\ x.prio[o] <= x.prio[t] => y.prio[o] = x.prio[o] /\ y.mx[m].hipri = x.mx[m].hipri
          /\ ~(x.prio[o] <= x.prio[t]) => y.prio[o] = x.prio[t] /\ y.mx[m].hipri = t

LEMMA EnterShape ==
    ASSUME Guarded, Sound, NEW m \in Mutex, CoEnterMutexSection(m)
    PROVE  Enters(k, k', m, k.run)
<1> DEFINE t == k.run
           o == k.mx[m].own
           orig == k.mx[m].orig
           list == k.mx[m].list
<1>1. /\ call[k.run] = NoCall /\ k.inside[k.run] = {}
      /\ Quiet(k) /\ KType(k) /\ Bound(k) /\ t \in Task /\ k.srq = << >>
      /\ k.prio \in [Task -> Nat] /\ k.mid \in [Task -> Mutex \cup {InvalidId}]
      /\ k.mx \in [Mutex -> MutexType] /\ k.mx[m] \in MutexType
  BY RaisesParts DEF CoEnterMutexSection, Caller, KType
<1>2. ASSUME NEW y, KType(y), y.srq = k.srq, k' = OsSchedUnlock(y)
      PROVE  Unraised(y, k')
  <2>1. y.srq = << >>
    BY <1>1, <1>2
  <2> QED BY <1>2, <2>1, UnlockUnraised
<1>3. /\ o \in Task \cup {InvalidId} /\ orig \in Nat /\ list \in Seq(Task) /\ ToSet(list) \subseteq Task
      /\ k.mx[m].hipri \in Task \cup {InvalidId}
  BY <1>1, MutexFields
<1>4. k.mid[t] = InvalidId
  BY <1>1, NoMutex
<1>5. CASE o = InvalidId
  <2> DEFINE b == [k.mx[m] EXCEPT !.own = t, !.orig = k.prio[t], !.hipri = t]
             mid == [k.mid EXCEPT ![t] = m]
             mx == [k.mx EXCEPT ![m] = b]
             inside == [k.inside EXCEPT ![t] = k.inside[t] \cup {m}]
             y == [k EXCEPT !.mid = mid, !.mx = mx, !.inside = inside]
  <2>1. k' = OsSchedUnlock(y)
    <3>1. EnterMutex(k, m) = [k EXCEPT !.mid = mid, !.mx = mx]
      <4>1. EnterMutex(k, m) = [[k EXCEPT !.mid[t] = m] EXCEPT !.mx[m] = [@ EXCEPT !.own = t, !.orig = k.prio[t], !.hipri = t]]
        BY <1>5 DEF EnterMutex
      <4> QED BY <1>1, <4>1 DEF KType, Fields
    <3>2. k' = OsSchedUnlock([EnterMutex(k, m) EXCEPT !.inside[t] = @ \cup {m}])
      BY <1>5 DEF CoEnterMutexSection
    <3> HIDE DEF mid, mx
    <3>3. [EnterMutex(k, m) EXCEPT !.inside[t] = @ \cup {m}] = y
      BY <1>1, <3>1 DEF KType, Fields
    <3> QED BY <3>2, <3>3
  <2>2. b \in MutexType /\ b.own = t /\ b.orig = k.prio[t] /\ b.hipri = t /\ b.list = << >>
    <3>1. list = << >>
      BY <1>1, <1>5 DEF Bound
    <3> QED BY <1>1, <3>1 DEF MutexType
  <2> HIDE DEF b
  <2>3. /\ mx \in [Mutex -> MutexType] /\ mid \in [Task -> Mutex \cup {InvalidId}]
        /\ mx[m] = b /\ \A n \in Mutex \ {m} : mx[n] = k.mx[n]
    BY <1>1, <2>2
  <2> HIDE DEF mx, mid, inside
  <2>4. y.prio = k.prio /\ y.base = k.base /\ y.mx = mx /\ y.srq = k.srq /\ y.free = k.free
    BY <1>1 DEF KType, Fields
  <2>4a. KType(y)
    BY <1>1, <2>3 DEF KType, Fields
  <2> HIDE DEF y
  <2>5. Unraised(y, k')
    BY <1>2, <2>1, <2>4, <2>4a
  <2>6. k'.prio = k.prio /\ k'.base = k.base /\ k'.mx = mx /\ k'.free = k.free
    BY <2>4, <2>5 DEF Unraised
  <2>7. Beside(k, k', m)
    BY <2>3, <2>6 DEF Beside
  <2> QED BY <1>5, <2>2, <2>3, <2>6, <2>7 DEF Enters
<1>6. CASE o # InvalidId
  <2> DEFINE k1 == [k EXCEPT !.mid[t] = m]
             raised == [k1 EXCEPT !.prio[o] = k.prio[t], !.mx[m].hipri = t]
             k2 == IF k.prio[o] <= k.prio[t] THEN k1
                   ELSE IF k.st[o] = "READY" THEN InsertToTCBRdyList(RemoveFromTCBRdyList(raised, o), o)
                   ELSE ReorderWaiting(raised, o)
             y == EnterMutex(k, m)
             prio == [k.prio EXCEPT ![o] = k.prio[t]]
             b == [k.mx[m] EXCEPT !.hipri = t]
             mx == [k.mx EXCEPT ![m] = b]
             mid == [k.mid EXCEPT ![t] = m]
             list2 == Append(list, t)
  <2>1. o \in Task
    BY <1>3, <1>6
  <2>2. y = [k2 EXCEPT !.st[t] = "WAITING", !.req = TRUE, !.mx[m].list = Append(@, t)]
    BY <1>6 DEF EnterMutex
  <2>3. k' = OsSchedUnlock(y)
    BY <1>6 DEF CoEnterMutexSection
  <2>4. KType(y)
    BY <1>1, EnterKept DEF Kept
  <2> HIDE DEF y
  <2>5. b \in MutexType /\ b.own = o /\ b.orig = orig /\ b.list = list /\ b.hipri = t
    BY <1>1 DEF MutexType
  <2> HIDE DEF b
  <2>6. /\ mx \in [Mutex -> MutexType] /\ mx[m] = b /\ \A n \in Mutex \ {m} : mx[n] = k.mx[n]
        /\ mid \in [Task -> Mutex \cup {InvalidId}]
    BY <1>1, <2>5
  <2>7. /\ prio \in [Task -> Nat] /\ prio[o] = k.prio[t]
        /\ \A u \in Task \ {o} : prio[u] = k.prio[u]
    BY <1>1, <2>1
  <2>8. k1 = [k EXCEPT !.mid = mid] /\ raised = [k1 EXCEPT !.prio = prio, !.mx = mx]
    <3>1. k1 = [k EXCEPT !.mid = mid]
      OBVIOUS
    <3>2. k1.prio = k.prio /\ k1.mx = k.mx
      BY <1>1 DEF KType, Fields
    <3> HIDE DEF k1
    <3> QED BY <3>1, <3>2 DEF b
  <2> HIDE DEF k1, raised, prio, mx, mid
  <2>9. /\ KType(k1) /\ k1.prio = k.prio /\ k1.base = k.base /\ k1.mx = k.mx /\ k1.srq = k.srq
        /\ k1.ev = k.ev /\ k1.free = k.free
    BY <1>1, <2>6, <2>8 DEF KType, Fields
  <2>10. KType(raised)
    BY <2>6, <2>7, <2>8, <2>9 DEF KType, Fields
  <2>11. /\ raised.prio = prio /\ raised.base = k.base /\ raised.mx = mx /\ raised.srq = k.srq
         /\ raised.ev = k.ev /\ raised.free = k.free
    BY <2>8, <2>9 DEF KType, Fields
  <2> HIDE DEF o
  <2>12. ~(k.prio[o] <= k.prio[t]) => k2.prio = prio /\ k2.base = k.base /\ k2.mx = mx /\ k2.srq = k.srq
                                      /\ k2.free = k.free /\ KType(k2)
    <3> SUFFICES ASSUME ~(k.prio[o] <= k.prio[t])
                 PROVE  /\ k2.prio = prio /\ k2.base = k.base /\ k2.mx = mx /\ k2.srq = k.srq
                        /\ k2.free = k.free /\ KType(k2)
      OBVIOUS
    <3>1. CASE k.st[o] = "READY"
      <4> DEFINE w == RemoveFromTCBRdyList(raised, o)
                 z == InsertToTCBRdyList(w, o)
      <4>1. k2 = z
        BY <3>1
      <4> HIDE DEF k2
      <4>2. Unraised(raised, w)
        BY <2>1, <2>10, RemoveUnraised
      <4>3. KType(w)
        BY <2>1, <2>10, RemoveRdyKept DEF Kept
      <4> HIDE DEF w
      <4>4. Unraised(w, z)
        BY <2>1, <4>3, InsertUnraised
      <4>5. KType(z)
        BY <2>1, <4>3, InsertRdyKept DEF Kept
      <4> HIDE DEF z
      <4> QED BY <2>11, <4>1, <4>2, <4>4, <4>5 DEF Unraised
    <3>2. CASE k.st[o] # "READY"
      <4>1. k2 = ReorderWaiting(raised, o)
        BY <3>2
      <4> HIDE DEF k2
      <4>2. Quiet(raised)
        BY <1>1, <2>10, <2>11 DEF Quiet
      <4>3. ReorderWaiting(raised, o) = raised
        BY <2>1, <4>2, QuietPlace
      <4> QED BY <2>10, <2>11, <4>1, <4>3
    <3> QED BY <3>1, <3>2
  <2>13. k.prio[o] <= k.prio[t] => k2 = k1
    OBVIOUS
  <2> HIDE DEF k2
  <2>14. /\ KType(k2) /\ k2.base = k.base /\ k2.srq = k.srq /\ k2.free = k.free
         /\ \A u \in Task \ {o} : k2.prio[u] = k.prio[u]
         /\ k2.mx[m].own = o /\ k2.mx[m].orig = orig /\ k2.mx[m].list = list
         /\ \A n \in Mutex \ {m} : k2.mx[n] = k.mx[n]
         /\ k.prio[o] <= k.prio[t] => k2.prio[o] = k.prio[o] /\ k2.mx[m].hipri = k.mx[m].hipri
         /\ ~(k.prio[o] <= k.prio[t]) => k2.prio[o] = k.prio[t] /\ k2.mx[m].hipri = t
    <3>1. CASE k.prio[o] <= k.prio[t]
      <4>1. k2 = k1
        BY <2>13, <3>1
      <4> QED BY <2>9, <3>1, <4>1 DEF o
    <3>2. CASE ~(k.prio[o] <= k.prio[t])
      <4>1. /\ k2.prio = prio /\ k2.base = k.base /\ k2.mx = mx /\ k2.srq = k.srq
            /\ k2.free = k.free /\ KType(k2)
        BY <2>12, <3>2
      <4> QED BY <2>5, <2>6, <2>7, <3>2, <4>1
    <3> QED BY <3>1, <3>2
  <2>15. k2.mx \in [Mutex -> MutexType] /\ k2.mx[m] \in MutexType
    BY <2>14 DEF KType
  <2> DEFINE b2 == [k2.mx[m] EXCEPT !.list = Append(@, t)]
             mx2 == [k2.mx EXCEPT ![m] = b2]
             st == [k2.st EXCEPT ![t] = "WAITING"]
  <2>16. b2.own = o /\ b2.orig = orig /\ b2.list = list2 /\ b2.hipri = k2.mx[m].hipri
    BY <2>14, <2>15 DEF MutexType
  <2>17. y = [k2 EXCEPT !.st = st, !.req = TRUE, !.mx = mx2]
    BY <2>2
  <2> HIDE DEF b2
  <2>18. mx2[m] = b2 /\ \A n \in Mutex \ {m} : mx2[n] = k2.mx[n]
    BY <2>15
  <2> HIDE DEF mx2, st
  <2>19. y.prio = k2.prio /\ y.base = k2.base /\ y.mx = mx2 /\ y.srq = k2.srq /\ y.free = k2.free
    BY <2>14, <2>17 DEF KType, Fields
  <2>20. ToSet(list2) = ToSet(list) \cup {t}
    <3> HIDE DEF list
    <3> QED BY <1>1, <1>3, Appended
  <2>21. Unraised(y, k')
    BY <1>2, <2>3, <2>4, <2>14, <2>19
  <2>22. k'.prio = k2.prio /\ k'.base = k.base /\ k'.mx = mx2 /\ k'.free = k.free
    BY <2>14, <2>19, <2>21 DEF Unraised
  <2> HIDE DEF list2, t, list, orig
  <2>23. Beside(k, k', m)
    BY <2>14, <2>18, <2>22 DEF Beside
  <2>24. /\ k'.mx[m].own = o /\ k'.mx[m].orig = orig /\ k'.mx[m].hipri = k2.mx[m].hipri
         /\ ToSet(k'.mx[m].list) = ToSet(list) \cup {t}
    BY <2>16, <2>18, <2>20, <2>22
  <2> QED BY <1>6, <2>14, <2>22, <2>23, <2>24 DEF Enters, o, t, list, orig
<1> QED BY <1>5, <1>6

\* The owner inherits the priority of the task that begins to wait.
LEMMA RaiseEnter ==
    ASSUME Guarded, Sound, Raises(k, call), NEW m \in Mutex, CoEnterMutexSection(m)
    PROVE  Raises(k', call')
<1> DEFINE t == k.run
           o == k.mx[m].own
           list == k.mx[m].list
<1>1. /\ call[k.run] = NoCall /\ k.inside[k.run] = {} /\ t # Idle
      /\ Quiet(k) /\ KType(k) /\ Bound(k) /\ t \in Task
      /\ k.prio \in [Task -> Nat]
  BY RaisesParts DEF CoEnterMutexSection, Caller, KType
<1>2. Inherits(k, {}) /\ k.base \in [Task -> Nat]
  <2>1. call[k.run].op # "prio"
    BY <1>1 DEF NoCall
  <2> QED BY <2>1, CalmRun DEF Inherits
<1>3. k.mid[t] = InvalidId /\ k.prio[t] <= k.base[t] /\ k.prio[t] \in Nat
  BY <1>1, <1>2, NoMutex DEF Inherits
<1>4. Enters(k, k', m, t)
  BY EnterShape
<1>5. /\ k'.base = k.base
      /\ \A n \in Mutex \ {m} : /\ k'.mx[n].own = k.mx[n].own /\ k'.mx[n].orig = k.mx[n].orig
                                /\ k'.mx[n].list = k.mx[n].list
  BY <1>4 DEF Enters, Beside
<1>6. CASE o = InvalidId
  <2>1. /\ k'.prio = k.prio /\ k'.mx[m].own = t /\ k'.mx[m].orig = k.prio[t]
        /\ k'.mx[m].list = << >>
    BY <1>4, <1>6 DEF Enters
  <2>2. ToSet(<< >>) = {}
    <3>1. << >> \in Seq(Task)
      OBVIOUS
    <3> QED BY <3>1, Elements
  <2>3. Heir(k', m, {})
    BY <1>1, <1>3, <1>5, <2>1, <2>2 DEF Heir
  <2>4. Writes(k, k', {m}, {})
    BY <1>2, <1>5, <2>1 DEF Writes
  <2>5. {m} \in SUBSET Mutex /\ \A n \in {m} : Heir(k', n, {})
    BY <2>3
  <2>6. Inherits(k', {})
    BY <1>1, <1>2, <2>4, <2>5, Elsewhere
  <2>7. {} \subseteq Touched(k', call')
    OBVIOUS
  <2> QED BY <2>6, <2>7, SameInherits DEF Raises
<1>7. CASE o # InvalidId
  <2>1. /\ o \in Task \ {Idle} /\ k.mid[o] = m /\ k.prio[o] \in Nat /\ k.base[o] \in Nat
        /\ k.mx[m].orig \in Nat /\ k.prio[o] <= k.mx[m].orig /\ k.mx[m].orig <= k.base[o]
        /\ ToSet(list) \subseteq Task \ {Idle, o}
        /\ \A u \in ToSet(list) : k.prio[u] \in Nat /\ k.prio[o] <= k.prio[u]
    BY <1>1, <1>2, <1>7, MutexTasks
  <2>2. /\ k'.mx[m].own = o /\ k'.mx[m].orig = k.mx[m].orig
        /\ ToSet(k'.mx[m].list) = ToSet(list) \cup {t}
        /\ \A u \in Task \ {o} : k'.prio[u] = k.prio[u]
        /\ k.prio[o] <= k.prio[t] => k'.prio[o] = k.prio[o]
        /\ ~(k.prio[o] <= k.prio[t]) => k'.prio[o] = k.prio[t]
    BY <1>4, <1>7 DEF Enters
  <2>3. o # t
    BY <1>3, <2>1, KernelAssumption
  <2>4. k'.prio[o] \in Nat /\ k'.prio[o] <= k.prio[o] /\ k'.prio[o] <= k.prio[t]
    BY <1>3, <2>1, <2>2
  <2> HIDE DEF t, o, list
  <2>5. Heir(k', m, {})
    <3>1. \A u \in ToSet(list) \cup {t} : u # Idle /\ k'.prio[o] <= k'.prio[u]
      <4> TAKE u \in ToSet(list) \cup {t}
      <4>1. CASE u = t
        BY <1>1, <2>2, <2>3, <2>4, <4>1
      <4>2. CASE u # t
        <5>1. u \in ToSet(list) /\ u \in Task /\ u # o /\ u # Idle /\ k.prio[o] <= k.prio[u] /\ k.prio[u] \in Nat
          BY <2>1, <4>2
        <5> QED BY <2>1, <2>2, <2>4, <5>1
      <4> QED BY <4>1, <4>2
    <3>2. k'.prio[o] <= k.mx[m].orig /\ k.mx[m].orig <= k'.base[o]
      BY <1>5, <2>1, <2>4
    <3> QED BY <2>1, <2>2, <3>1, <3>2 DEF Heir
  <2>6. Writes(k, k', {m}, {o})
    <3>1. k'.prio[o] <= k'.base[o]
      BY <1>5, <2>1, <2>4
    <3> QED BY <1>2, <1>5, <2>1, <2>2, <3>1 DEF Writes
  <2>7. {m} \in SUBSET Mutex /\ \A n \in {m} : Heir(k', n, {})
    BY <2>5
  <2>8. Inherits(k', {})
    BY <1>1, <1>2, <2>6, <2>7, Elsewhere
  <2>9. {} \subseteq Touched(k', call')
    OBVIOUS
  <2> QED BY <2>8, <2>9, SameInherits DEF Raises
<1> QED BY <1>6, <1>7

LEMMA InitRaises ==
    ASSUME Init, Sound
    PROVE  Raises(k, call)
<1>1. PICK p \in prog.boot : \E spare \in Spare(p) : k = Boot(p, spare)
  BY DEF Init
<1>2. PICK spare \in Spare(p) : k = Boot(p, spare)
  BY <1>1
<1>3. p \in Seq(0 .. Lowest) /\ DOMAIN p \subseteq Task \ {Idle}
  BY TaskSchedAssumption DEF Init
<1>4. /\ k.prio = k.base
      /\ \A m \in Mutex : k.mx[m].list = << >> /\ k.mx[m].own = InvalidId
  BY <1>2, <1>3, BootRanked
<1>5. k.prio \in [Task -> Nat]
  BY SoundParts DEF KType
<1>6. ToSet(<< >>) = {}
  <2>1. << >> \in Seq(Task)
    OBVIOUS
  <2> QED BY <2>1, Elements
<1>7. \A m \in Mutex : Heir(k, m, Touched(k, call))
  BY <1>4, <1>6 DEF Heir
<1> QED BY <1>4, <1>5, <1>7 DEF Raises, Inherits

LEMMA NextRaises ==
    ASSUME Guarded, Sound, Raises(k, call), [Next]_vars
    PROVE  Raises(k', call')
<1> DEFINE After == Raises(k', call')
<1> SUFFICES After
  OBVIOUS
<1>1. CASE UNCHANGED vars
  BY <1>1 DEF vars
<1>2. CASE Next
  <2>1. ASSUME NEW p \in prog.prio, NEW w \in BOOLEAN, AssignTCB(p, w) PROVE After
    BY <2>1, RaiseAssign
  <2>2. ASSUME NEW t \in Task, NEW p \in prog.prio, SetPrioTest(t, p) PROVE After
    BY <2>2, RaiseSetPrioTest
  <2>3. CASE CreateTask \/ DelLeave \/ CoDelTask
    BY <2>3, RaiseCreate, RaiseLeaves, RaiseDelete
  <2>4. CASE CoSetPriority \/ CoCreateMutex
    BY <2>4, RaiseSetPriority, RaiseCreateMutex
  <2>5. ASSUME NEW m \in Mutex, CoEnterMutexSection(m) \/ CoLeaveMutexSection(m) PROVE After
    BY <2>5, RaiseEnter, RaiseLeaves
  <2>6. CASE Plainly
    BY <2>6, RaisePlainly
  <2>7. CASE Tick
    BY <2>7, RaiseTick
  <2> HIDE DEF After
  <2> QED BY <1>2, <2>1, <2>2, <2>3, <2>4, <2>5, <2>6, <2>7, NextKinds
<1> QED BY <1>1, <1>2

LEMMA RaisesInherited ==
    ASSUME Sound, Raises(k, call)
    PROVE  Inherited
<1>1. \A t \in Task : k.prio[t] <= k.base[t]
  BY DEF Raises, Inherits
<1>2. ASSUME InCall("prio") = {}, NEW m \in Mutex, NEW t \in ToSet(k.mx[m].list)
      PROVE  k.prio[k.mx[m].own] <= k.prio[t]
  <2>1. Touched(k, call) = {}
    BY <1>2, SoundParts DEF InCall, Touched
  <2>2. k.mx[m].list # << >>
    <3>1. k.mx[m].list \in Seq(Task)
      BY RaisesParts, MutexFields
    <3> QED BY <1>2, <3>1, Elements
  <2>3. k.mx[m].own # InvalidId
    BY <2>2, RaisesParts DEF Bound
  <2>4. Heir(k, m, Touched(k, call))
    BY DEF Raises, Inherits
  <2> QED BY <1>2, <2>1, <2>3, <2>4 DEF Heir
<1> QED BY <1>1, <1>2 DEF Inherited

\* Whoever owns a mutex has inherited the priorities of all that wait for it,
\* after every sequence of CoEnterMutexSection, CoLeaveMutexSection,
\* CoSetPriority and CoDelTask, and no task keeps a lower priority than its
\* program asked for.
THEOREM InheritedSpec == Guarded /\ ShortDelays => (Spec => []Inherited)
<1> SUFFICES ASSUME Guarded, ShortDelays PROVE Spec => []Inherited
  OBVIOUS
<1> DEFINE R == Raises(k, call)
<1>1. Init => Sound /\ R
  BY InitSound, InitRaises
<1>2. Sound /\ R /\ [Next]_vars => Sound' /\ R'
  <2>1. Sound /\ [Next]_vars => Sound'
    BY NextSound
  <2>2. Sound /\ R /\ [Next]_vars => Raises(k', call')
    BY NextRaises
  <2> QED BY <2>1, <2>2
<1>3. Sound /\ R => Inherited
  BY RaisesInherited
<1> HIDE DEF R
<1> QED BY <1>1, <1>2, <1>3, PTL DEF Spec

(***************************************************************************)
(* Part 8.  Priorities that are returned, for two tasks that enter         *)
(* mutexes.                                                                *)
(***************************************************************************)

\* A mutex that only the tasks of E enter, where those of D never come back:
\* the owner is owed the priority its program asked for, and it has that one
\* or the one of the other task, as the block says.
Lends(x, m, E, D) ==
  LET o == x.mx[m].own
      W == ToSet(x.mx[m].list)
      hi == x.mx[m].hipri
  IN o # InvalidId =>
       /\ {o} \cup W \subseteq E
       /\ x.mx[m].orig = x.base[o]
       /\ \A u \in W : /\ hi # u => x.prio[o] = x.base[o]
                       /\ hi # o => x.prio[o] = x.base[u]
       /\ W = {} => /\ x.prio[o] = x.base[o]
                    /\ hi # o => \A u \in E \ {o} : u \in D \/ x.base[u] <= x.base[o]

Owner(x, t) == \E m \in Mutex : x.mx[m].own = t

Paired(x, E, D) ==
  /\ \A m \in Mutex : Lends(x, m, E, D)
  /\ \A t \in Task : ~Owner(x, t) => x.prio[t] = x.base[t]

\* Nobody is inside CreateTask or CoSetPriority.
Modest(c) == \A t \in Task : c[t].op \notin {"create", "prio"}

\* The inductive invariant: a task that is free is never created again.
Pairs(x, c, E) == Paired(x, E, ToSet(x.free)) /\ Modest(c)

Couple(E) == IsFiniteSet(E) /\ Cardinality(E) <= 2

LEMMA Two ==
    ASSUME NEW E, Couple(E), NEW a \in E, NEW b \in E, a # b
    PROVE  E = {a, b}
<1>1. Cardinality({a, b}) = 2 /\ {a, b} \in SUBSET E
  <2>1. Cardinality({a}) = 1 /\ IsFiniteSet({a})
    BY FS_Singleton
  <2>2. Cardinality({a} \cup {b}) = 2
    BY <2>1, FS_AddElement
  <2>3. {a} \cup {b} = {a, b}
    OBVIOUS
  <2> QED BY <2>2, <2>3
<1>2. Cardinality({a, b}) <= Cardinality(E) /\ (Cardinality(E) = Cardinality({a, b}) => E = {a, b})
  BY <1>1, FS_Subset DEF Couple
<1>3. Cardinality(E) \in Nat
  BY FS_CardinalityType DEF Couple
<1> QED BY <1>1, <1>2, <1>3 DEF Couple

LEMMA SamePaired ==
    ASSUME NEW x, NEW y, NEW E, NEW D, NEW F, Paired(x, E, D), D \subseteq F,
           y.prio = x.prio, y.base = x.base, y.mx = x.mx
    PROVE  Paired(y, E, F)
<1>1. ASSUME NEW m \in Mutex PROVE Lends(y, m, E, F)
  <2>1. Lends(x, m, E, D)
    BY DEF Paired
  <2> QED BY <2>1 DEF Lends
<1> QED BY <1>1 DEF Paired, Owner

\* A step that writes the priorities of tasks that are in m or in no mutex.
Trades(x, y, m, S) ==
  /\ y.base = x.base /\ Beside(x, y, m)
  /\ \A u \in Task \ S : y.prio[u] = x.prio[u]
  /\ \A u \in Task \cap S : x.mid[u] \in {m, InvalidId}
  /\ \A u \in Task : (u \in S \/ x.mx[m].own = u) /\ y.mx[m].own # u => y.prio[u] = y.base[u]

LEMMA ElsePaired ==
    ASSUME NEW x, KType(x), Bound(x), NEW y, NEW E, NEW D, NEW F, Paired(x, E, D), D \subseteq F,
           NEW m \in Mutex, NEW S, Trades(x, y, m, S), Lends(y, m, E, F)
    PROVE  Paired(y, E, F)
<1>1. ASSUME NEW n \in Mutex \ {m} PROVE Lends(y, n, E, F)
  <2> DEFINE o == x.mx[n].own
  <2>1. y.mx[n] = x.mx[n] /\ y.base = x.base
    BY DEF Trades, Beside
  <2>2. CASE o = InvalidId
    BY <2>1, <2>2 DEF Lends
  <2>3. CASE o # InvalidId
    <3>1. o \in Task /\ x.mid[o] = n
      BY <2>3, MutexFields DEF Bound
    <3>2. y.prio[o] = x.prio[o]
      BY <3>1, KernelAssumption DEF Trades
    <3>3. Lends(x, n, E, D)
      BY DEF Paired
    <3> QED BY <2>1, <3>2, <3>3 DEF Lends
  <2> QED BY <2>2, <2>3
<1>2. ASSUME NEW t \in Task, ~Owner(y, t) PROVE y.prio[t] = y.base[t]
  <2>1. y.mx[m].own # t /\ \A n \in Mutex \ {m} : x.mx[n].own # t
    BY <1>2 DEF Owner, Trades, Beside
  <2>2. CASE t \in S \/ x.mx[m].own = t
    BY <2>1, <2>2 DEF Trades
  <2>3. CASE t \notin S /\ x.mx[m].own # t
    <3>1. x.prio[t] = x.base[t]
      BY <2>1, <2>3 DEF Paired, Owner
    <3> QED BY <2>3, <3>1 DEF Trades
  <2> QED BY <2>2, <2>3
<1> QED BY <1>1, <1>2 DEF Paired

\* Who waits for a mutex owns none.
LEMMA PaidBack ==
    ASSUME NEW x, Bound(x), NEW E, NEW D, Paired(x, E, D), NEW t \in Task,
           \/ x.mid[t] = InvalidId
           \/ \E m \in Mutex : t \in ToSet(x.mx[m].list)
    PROVE  x.prio[t] = x.base[t]
<1>1. ASSUME NEW n \in Mutex, x.mx[n].own = t PROVE FALSE
  <2>1. t # InvalidId
    BY KernelAssumption
  <2>2. x.mid[t] = n /\ t \notin ToSet(x.mx[n].list)
    BY <1>1, <2>1 DEF Bound
  <2>3. x.mid[t] # InvalidId
    BY <2>2, KernelAssumption
  <2>4. PICK m \in Mutex : t \in ToSet(x.mx[m].list)
    BY <2>3
  <2>5. x.mid[t] = m
    BY <2>4 DEF Bound
  <2> QED BY <2>2, <2>4, <2>5
<1> QED BY <1>1 DEF Paired, Owner

\* The new owner has the priority that its program asked for, whichever of
\* the two tasks the block names.
LEMMA LeavePaired ==
    ASSUME NEW x, Quiet(x), Bound(x), Inherits(x, {}), NEW E, Couple(E), NEW D, Paired(x, E, D),
           NEW m \in Mutex, x.mx[m].own # InvalidId, IsInjective(x.mx[m].list),
           NEW z, Leaves(x, z, m)
    PROVE  Paired(z, E, D)
<1> DEFINE o == x.mx[m].own
           list == x.mx[m].list
           t == Head(list)
           h == Successor(x, m)
<1>1. KType(x) /\ list \in Seq(Task) /\ z.base = x.base /\ Beside(x, z, m)
  BY MutexFields DEF Quiet, Leaves
<1>2. /\ o \in Task /\ x.mid[o] = m /\ o \notin ToSet(list)
      /\ x.prio[o] \in Nat /\ x.base[o] \in Nat
      /\ \A u \in ToSet(list) : /\ u \in Task /\ x.mid[u] = m /\ x.prio[u] \in Nat /\ x.base[u] \in Nat
                                /\ x.prio[o] <= x.prio[u]
  BY MutexTasks
<1>3. Lends(x, m, E, D)
  BY DEF Paired
<1>4. CASE list = << >>
  <2>1. z.prio = x.prio /\ z.mx[m].own = InvalidId
    BY <1>4 DEF Leaves, Freed
  <2>2. ToSet(list) = {}
    BY <1>1, <1>4, Elements
  <2>3. x.prio[o] = x.base[o]
    BY <1>3, <2>2 DEF Lends
  <2>4. Lends(z, m, E, D)
    BY <2>1 DEF Lends
  <2>5. Trades(x, z, m, {})
    BY <1>1, <2>1, <2>3 DEF Trades
  <2> QED BY <1>1, <2>4, <2>5, ElsePaired
<1>5. CASE list # << >>
  <2>1. /\ t \in ToSet(list) /\ t \in Task /\ t # o
        /\ ToSet(Tail(list)) \subseteq ToSet(list) \ {t}
    BY <1>1, <1>2, <1>5, FirstOf
  <2>2. /\ x.mx[m].hipri = o =>
             /\ h.prio # x.prio[t] => \E u \in ToSet(list) : h.prio = x.prio[u]
             /\ h.prio = x.prio[t] => h.id = o
        /\ x.mx[m].hipri # o => h.id = x.mx[m].hipri /\ h.prio = x.prio[o]
    BY <1>5, SuccessorIs
  <2> HIDE DEF h, t
  <2>3. /\ z.mx[m].own = t /\ z.mx[m].orig = x.prio[t] /\ z.mx[m].list = Tail(list)
        /\ z.mx[m].hipri = h.id
        /\ z.prio[t] = h.prio /\ z.prio[o] = x.mx[m].orig
        /\ \A u \in Task \ {t, o} : z.prio[u] = x.prio[u]
    BY <1>5 DEF Leaves, Passed, t, h
  <2>4. E = {o, t} /\ ToSet(list) = {t} /\ ToSet(Tail(list)) = {}
    <3>1. o \in E /\ ToSet(list) \subseteq E
      BY <1>2, <1>3, KernelAssumption DEF Lends
    <3>2. E = {o, t}
      BY <2>1, <3>1, Two
    <3> QED BY <1>2, <2>1, <3>1, <3>2
  <2>5. x.prio[t] = x.base[t] /\ x.mx[m].orig = x.base[o]
    <3>1. x.prio[t] = x.base[t]
      BY <2>1, PaidBack
    <3> QED BY <1>3, <3>1 DEF Lends
  <2>6. /\ x.mx[m].hipri # t => x.prio[o] = x.base[o]
        /\ x.mx[m].hipri # o => x.prio[o] = x.base[t]
    BY <1>3, <2>4 DEF Lends
  <2>7. h.prio = x.base[t] /\ (h.id # t => x.base[o] <= x.base[t])
    <3>1. CASE x.mx[m].hipri = o
      <4>1. h.prio = x.prio[t] /\ h.id = o
        BY <2>2, <2>4, <3>1
      <4>2. x.prio[o] = x.base[o] /\ x.prio[o] <= x.prio[t]
        BY <1>2, <2>1, <2>6, <3>1
      <4> QED BY <2>5, <4>1, <4>2
    <3>2. CASE x.mx[m].hipri # o
      <4>1. h.id = x.mx[m].hipri /\ h.prio = x.base[t]
        BY <2>2, <2>6, <3>2
      <4>2. h.id # t => x.base[o] = x.base[t]
        BY <2>6, <3>2, <4>1
      <4> QED BY <1>2, <4>1, <4>2
    <3> QED BY <3>1, <3>2
  <2>8. Lends(z, m, E, D)
    <3>1. \A u \in E \ {t} : h.id # t => z.base[u] <= z.base[t]
      BY <1>1, <2>4, <2>7
    <3> QED BY <1>1, <2>3, <2>4, <2>5, <2>7, <3>1 DEF Lends
  <2>9. Trades(x, z, m, {t, o})
    <3>1. x.mid[t] = m /\ x.mid[o] = m
      BY <1>2, <2>1
    <3>2. z.prio[o] = z.base[o] /\ z.mx[m].own = t
      BY <1>1, <2>3, <2>5
    <3> QED BY <1>1, <2>3, <3>1, <3>2 DEF Trades
  <2> QED BY <1>1, <2>8, <2>9, ElsePaired
<1> QED BY <1>4, <1>5

\* The owner gets its own priority back, as only t waited.
LEMMA UnwaitPaired ==
    ASSUME NEW x, Quiet(x), Bound(x), Inherits(x, {}), NEW E, Couple(E), NEW D, Paired(x, E, D),
           NEW t \in Task, x.mid[t] \in Mutex, t \in ToSet(x.mx[x.mid[t]].list),
           NEW z, Unwaits(x, z, t)
    PROVE  Paired(z, E, D \cup {t})
<1> DEFINE m == x.mid[t]
           o == x.mx[m].own
           W == ToSet(x.mx[m].list) \ {t}
<1>1. KType(x) /\ o # InvalidId
  <2>1. x.mx[m].list \in Seq(Task)
    BY MutexFields DEF Quiet
  <2>2. x.mx[m].list # << >>
    BY <2>1, Elements
  <2> QED BY <2>2 DEF Bound, Quiet
<1>2. o \in Task /\ x.mid[o] = m /\ o \notin ToSet(x.mx[m].list)
  BY <1>1, MutexTasks
<1>3. Lends(x, m, E, D)
  BY DEF Paired
<1>4. E = {o, t} /\ W = {}
  <2>1. o \in E /\ ToSet(x.mx[m].list) \subseteq E
    BY <1>1, <1>3 DEF Lends
  <2>2. E = {o, t}
    BY <1>2, <2>1, Two
  <2> QED BY <1>2, <2>1, <2>2
<1>5. /\ z.base = x.base /\ Beside(x, z, m)
      /\ z.mx[m].own = o /\ z.mx[m].orig = x.mx[m].orig /\ ToSet(z.mx[m].list) = W
      /\ \A u \in Task \ {o} : z.prio[u] = x.prio[u]
  BY DEF Unwaits
<1>6. x.mx[m].orig = x.base[o]
  BY <1>1, <1>3 DEF Lends
<1>7. z.prio[o] = x.base[o]
  <2>1. CASE x.mx[m].hipri = t
    <3>1. z.prio[o] # x.mx[m].orig => \E u \in W : z.prio[o] = x.prio[u]
      BY <2>1 DEF Unwaits
    <3> QED BY <1>4, <1>6, <3>1
  <2>2. CASE x.mx[m].hipri # t
    <3>1. z.prio[o] = x.prio[o]
      BY <2>2 DEF Unwaits
    <3>2. x.prio[o] = x.base[o]
      BY <1>1, <1>3, <2>2 DEF Lends
    <3> QED BY <3>1, <3>2
  <2> QED BY <2>1, <2>2
<1> HIDE DEF o, W
<1>8. Lends(z, m, E, D \cup {t})
  BY <1>4, <1>5, <1>6, <1>7 DEF Lends
<1>9. Trades(x, z, m, {o})
  <2>1. \A u \in Task : (u \in {o} \/ x.mx[m].own = u) /\ z.mx[m].own # u => z.prio[u] = z.base[u]
    BY <1>5 DEF o
  <2> QED BY <1>2, <1>5, <2>1 DEF Trades
<1>10. D \subseteq D \cup {t}
  OBVIOUS
<1> QED BY <1>1, <1>8, <1>9, <1>10, ElsePaired

\* The block names the other task only when it is not the more urgent one, or
\* never comes back.
LEMMA EnterPaired ==
    ASSUME NEW x, Quiet(x), Bound(x), Inherits(x, {}), NEW E, Couple(E), NEW D, Paired(x, E, D),
           NEW m \in Mutex, NEW t \in E \ D, t \in Task, x.mid[t] = InvalidId,
           NEW y, Enters(x, y, m, t)
    PROVE  Paired(y, E, D)
<1> DEFINE o == x.mx[m].own
           W == ToSet(x.mx[m].list)
<1>1. KType(x) /\ y.base = x.base /\ Beside(x, y, m) /\ x.prio[t] \in Nat
  BY DEF Quiet, KType, Enters
<1>2. x.prio[t] = x.base[t]
  BY PaidBack
<1>3. CASE o = InvalidId
  <2>1. /\ y.prio = x.prio /\ y.mx[m].own = t /\ y.mx[m].orig = x.prio[t] /\ y.mx[m].hipri = t
        /\ y.mx[m].list = << >>
    BY <1>3 DEF Enters
  <2>2. ToSet(<< >>) = {}
    <3>1. << >> \in Seq(Task)
      OBVIOUS
    <3> QED BY <3>1, Elements
  <2>3. Lends(y, m, E, D)
    BY <1>1, <1>2, <2>1, <2>2 DEF Lends
  <2>4. Trades(x, y, m, {})
    BY <1>1, <1>3, <2>1, KernelAssumption DEF Trades
  <2> QED BY <1>1, <2>3, <2>4, ElsePaired
<1>4. CASE o # InvalidId
  <2>1. /\ o \in Task /\ x.mid[o] = m /\ o \notin W /\ x.prio[o] \in Nat /\ x.base[o] \in Nat
        /\ \A u \in W : x.mid[u] = m
    BY <1>4, MutexTasks
  <2>2. o # t /\ t \notin W
    BY <2>1, KernelAssumption
  <2>3. Lends(x, m, E, D)
    BY DEF Paired
  <2>4. E = {o, t} /\ W = {}
    <3>1. o \in E /\ W \subseteq E
      BY <1>4, <2>3 DEF Lends
    <3>2. E = {o, t}
      BY <2>2, <3>1, Two
    <3> QED BY <2>1, <2>2, <3>1, <3>2
  <2>5. /\ x.mx[m].orig = x.base[o] /\ x.prio[o] = x.base[o]
        /\ x.mx[m].hipri # o => x.base[t] <= x.base[o]
    BY <1>4, <2>2, <2>3, <2>4 DEF Lends
  <2>6. /\ y.mx[m].own = o /\ y.mx[m].orig = x.mx[m].orig
        /\ ToSet(y.mx[m].list) = W \cup {t}
        /\ \A u \in Task \ {o} : y.prio[u] = x.prio[u]
        /\ x.prio[o] <= x.prio[t] => y.prio[o] = x.prio[o] /\ y.mx[m].hipri = x.mx[m].hipri
        /\ ~(x.prio[o] <= x.prio[t]) => y.prio[o] = x.prio[t] /\ y.mx[m].hipri = t
    BY <1>4 DEF Enters
  <2>7. /\ y.mx[m].hipri # t => y.prio[o] = x.base[o]
        /\ y.mx[m].hipri # o => y.prio[o] = x.base[t]
    <3>1. CASE x.prio[o] <= x.prio[t]
      BY <1>1, <1>2, <2>1, <2>5, <2>6, <3>1
    <3>2. CASE ~(x.prio[o] <= x.prio[t])
      BY <1>2, <2>6, <3>2
    <3> QED BY <3>1, <3>2
  <2> HIDE DEF o, W
  <2>8. Lends(y, m, E, D)
    <3>1. ToSet(y.mx[m].list) = {t}
      BY <2>4, <2>6
    <3>2. {o} \cup {t} \subseteq E
      BY <2>4
    <3> QED BY <1>1, <2>5, <2>6, <2>7, <3>1, <3>2 DEF Lends
  <2>9. Trades(x, y, m, {o})
    <3>1. \A u \in Task : (u \in {o} \/ x.mx[m].own = u) /\ y.mx[m].own # u => y.prio[u] = y.base[u]
      BY <2>6 DEF o
    <3> QED BY <1>1, <2>1, <2>6, <3>1 DEF Trades
  <2> QED BY <1>1, <2>8, <2>9, ElsePaired
<1> QED BY <1>3, <1>4

LEMMA FillPaired ==
    ASSUME NEW x, KType(x), Bound(x), NEW E, NEW D, Paired(x, E, D),
           NEW m \in Mutex, NEW y, Fills(x, y, m)
    PROVE  Paired(y, E, D)
<1>1. Lends(y, m, E, D)
  BY DEF Fills, Lends
<1>2. Trades(x, y, m, {})
  <2>1. \A u \in Task : x.mx[m].own # u
    BY KernelAssumption DEF Fills
  <2> QED BY <2>1 DEF Fills, Trades
<1> QED BY <1>1, <1>2, ElsePaired

\* A call is written for the running task.
LEMMA ModestCall ==
    ASSUME NEW c, c = [t \in Task |-> c[t]], Modest(c), NEW r \in Task, NEW b,
           b.op \notin {"create", "prio"}, NEW d, d = [c EXCEPT ![r] = b]
    PROVE  Modest(d)
<1>1. \A t \in Task : d[t] = IF t = r THEN b ELSE c[t]
  OBVIOUS
<1> QED BY <1>1 DEF Modest

LEMMA ModestNext ==
    ASSUME Sound, Settled, Modest(call), Next
    PROVE  Modest(call')
<1> DEFINE Goal == Modest(call')
<1> SUFFICES Goal
  OBVIOUS
<1>1. k.run \in Task /\ call = [t \in Task |-> call[t]]
  BY SoundParts
<1>2. NoCall.op \notin {"create", "prio"}
  BY DEF NoCall
<1>3. ASSUME UNCHANGED call PROVE Goal
  BY <1>3
<1>4. ASSUME Finish PROVE Goal
  BY <1>1, <1>2, <1>4, ModestCall DEF Finish
<1>5. ASSUME NEW b, b.op \notin {"create", "prio"}, Begin(b) PROVE Goal
  BY <1>1, <1>5, ModestCall DEF Begin
<1>6. ~Caller("create") /\ ~Caller("prio") /\ ~Pending("create") /\ ~Pending("prio")
  BY <1>1 DEF Caller, Pending, Settled, Modest
<1> HIDE DEF Goal
<1>7. ASSUME NEW p, NEW w, AssignTCB(p, w) PROVE Goal
  BY <1>6, <1>7 DEF AssignTCB
<1>8. ASSUME NEW t, NEW p, SetPrioTest(t, p) PROVE Goal
  BY <1>6, <1>8 DEF SetPrioTest
<1>9. CASE CreateTask \/ CoSetPriority
  BY <1>6, <1>9 DEF CreateTask, CoSetPriority
<1>10. CASE DelLeave
  <2>1. \E t : Begin([op |-> "delete", task |-> t])
    BY <1>10 DEF DelLeave
  <2> QED BY <1>5, <2>1
<1>11. CASE CoDelTask
  <2> DEFINE t == call[k.run].task
             c == [call EXCEPT ![k.run] = NoCall]
  <2>1. call' = [c EXCEPT ![t] = NoCall]
    BY <1>11 DEF CoDelTask
  <2>2. c = [u \in Task |-> c[u]] /\ Modest(c)
    BY <1>1, <1>2, ModestCall
  <2>3. \A u \in Task : call'[u] = NoCall \/ call'[u] = c[u]
    <3> HIDE DEF c, t
    <3> QED BY <2>1, <2>2
  <2>4. Modest(call')
    <3> HIDE DEF c
    <3> QED BY <1>2, <2>2, <2>3 DEF Modest
  <2> QED BY <2>4 DEF Goal
<1>12. ASSUME NEW m \in Mutex, CoEnterMutexSection(m) \/ CoLeaveMutexSection(m) PROVE Goal
  <2>1. UNCHANGED call \/ Begin([op |-> "enter", mutex |-> m])
    BY <1>12 DEF CoEnterMutexSection, CoLeaveMutexSection
  <2> QED BY <1>3, <1>5, <2>1
<1>13. CASE Plainly
  <2>1. ASSUME NEW t \in Task, DelTest(t) PROVE Goal
    <3>1. \/ \E m : Begin([op |-> "delleave", task |-> t, mutex |-> m])
          \/ Begin([op |-> "delete", task |-> t])
      BY <2>1 DEF DelTest
    <3> QED BY <1>5, <3>1
  <2>2. ASSUME NEW t \in Task, SuspendTest(t) \/ AwakeTest(t) PROVE Goal
    <3>1. Begin([op |-> "suspend", task |-> t]) \/ Begin([op |-> "awake", task |-> t])
      BY <2>2 DEF SuspendTest, AwakeTest
    <3> QED BY <1>5, <3>1
  <2>3. ASSUME NEW t \in Task, NEW n \in prog.delays \cup {0}, ResetDelayTest(t, n) PROVE Goal
    <3>1. Begin([op |-> "reset", task |-> t, ticks |-> n])
      BY <2>3 DEF ResetDelayTest
    <3> QED BY <1>5, <3>1
  <2>4. ASSUME NEW n \in prog.delays, CoTickDelay(n) PROVE Goal
    BY <1>3, <2>4 DEF CoTickDelay
  <2>5. CASE CoSuspendTask \/ CoAwakeTask \/ CoResetTaskDelayTick \/ EnterReturn
    BY <1>4, <2>5 DEF CoSuspendTask, CoAwakeTask, CoResetTaskDelayTick, EnterReturn
  <2>6. CASE CoSchedLock \/ CoSchedUnlock
    BY <1>3, <2>6 DEF CoSchedLock, CoSchedUnlock
  <2> QED BY <1>13, <2>1, <2>2, <2>3, <2>4, <2>5, <2>6 DEF Plainly
<1>14. CASE Tick \/ CoCreateMutex
  BY <1>3, <1>14 DEF Tick, CoCreateMutex
<1> QED BY <1>7, <1>8, <1>9, <1>10, <1>11, <1>12, <1>13, <1>14, NextKinds

LEMMA PairedNext ==
    ASSUME Guarded, Sound, Raises(k, call), Settled, Pairs(k, call, Entering), Next
    PROVE  Paired(k', Entering, ToSet(k'.free))
<1> DEFINE E == Entering
           D == ToSet(k.free)
           Goal == Paired(k', E, ToSet(k'.free))
<1> SUFFICES Goal
  OBVIOUS
<1>1. /\ Quiet(k) /\ KType(k) /\ Bound(k) /\ Placed(k, {}) /\ k.run \in Task
      /\ Paired(k, E, D) /\ Modest(call)
  BY RaisesParts, SoundParts DEF Pairs
<1>2. Couple(E)
  <2>1. E \subseteq Task /\ IsFiniteSet(Task)
    BY KernelAssumption DEF Entering
  <2> QED BY <2>1, FS_Subset DEF Couple, Settled
<1>3. call[k.run].op \notin {"create", "prio"}
  BY <1>1 DEF Modest
<1>4. Inherits(k, {})
  BY <1>3, CalmRun
<1>5. ~Caller("create") /\ ~Caller("prio") /\ ~Pending("create") /\ ~Pending("prio")
  BY <1>1, <1>3 DEF Caller, Pending, Settled
<1>6. ASSUME NEW p, NEW w, AssignTCB(p, w) PROVE Goal
  BY <1>5, <1>6 DEF AssignTCB
<1>7. ASSUME NEW t, NEW p, SetPrioTest(t, p) PROVE Goal
  BY <1>5, <1>7 DEF SetPrioTest
<1>8. CASE CreateTask \/ CoSetPriority
  BY <1>5, <1>8 DEF CreateTask, CoSetPriority
<1>9. CASE CoCreateMutex
  <2>1. PICK m \in Mutex : Fills(k, k', m)
    BY <1>9, CreateMutexStep
  <2>2. Paired(k', E, D) /\ k'.free = k.free
    <3>1. Paired(k', E, D)
      <4> HIDE DEF E, D
      <4> QED BY <1>1, <2>1, FillPaired
    <3> QED BY <2>1, <3>1 DEF Fills
  <2> QED BY <2>2
<1>10. ASSUME DelLeave \/ \E m \in Mutex : CoLeaveMutexSection(m) PROVE Goal
  <2>1. PICK m \in Mutex : LeftBy(m)
    BY <1>4, <1>10, DelLeaveStep, LeaveStep
  <2>2. k.mx[m].own # InvalidId /\ IsInjective(k.mx[m].list) /\ Leaves(k, k', m) /\ k'.free = k.free
    BY <1>1, <2>1 DEF LeftBy, Placed
  <2>3. Paired(k', E, D)
    <3> HIDE DEF E, D
    <3> QED BY <1>1, <1>2, <1>4, <2>2, LeavePaired
  <2> QED BY <2>2, <2>3
<1>11. CASE CoDelTask
  <2>1. PICK t \in Task : Unlinks(k, k', t) /\ ToSet(k'.free) = D \cup {t}
    BY <1>4, <1>11, DeleteStep
  <2>2. D \subseteq D \cup {t}
    OBVIOUS
  <2>3. Paired(k', E, D \cup {t})
    <3> HIDE DEF E, D
    <3>1. CASE k'.prio = k.prio /\ k'.base = k.base /\ k'.mx = k.mx
      BY <1>1, <2>2, <3>1, SamePaired
    <3>2. CASE k.mid[t] \in Mutex /\ t \in ToSet(k.mx[k.mid[t]].list) /\ Unwaits(k, k', t)
      BY <1>1, <1>2, <1>4, <3>2, UnwaitPaired
    <3> QED BY <2>1, <3>1, <3>2 DEF Unlinks
  <2> QED BY <2>1, <2>3
<1>12. ASSUME NEW m \in Mutex, CoEnterMutexSection(m) PROVE Goal
  <2> DEFINE t == k.run
  <2>1. Enters(k, k', m, t) /\ k'.free = k.free
    BY <1>12, EnterShape DEF Enters
  <2>2. t \in E \ D /\ t \in Task /\ k.mid[t] = InvalidId
    <3>1. t \in E /\ call[t] = NoCall /\ k.inside[t] = {}
      BY <1>1, <1>12 DEF CoEnterMutexSection, Caller, Entering
    <3> QED BY <1>1, <3>1, RunFree, NoMutex
  <2>3. Paired(k', E, D)
    <3> HIDE DEF E, D, t
    <3> QED BY <1>1, <1>2, <1>4, <2>1, <2>2, EnterPaired
  <2> QED BY <2>1, <2>3
<1>13. CASE Plainly \/ Tick
  <2>1. Plain(k, k')
    BY <1>13, PlainSteps, PlainTick
  <2>2. D \subseteq D
    OBVIOUS
  <2>3. Paired(k', E, D)
    <3> HIDE DEF E, D
    <3> QED BY <1>1, <2>1, <2>2, SamePaired DEF Plain
  <2> QED BY <2>1, <2>3 DEF Plain
<1> HIDE DEF Goal
<1> QED BY <1>6, <1>7, <1>8, <1>9, <1>10, <1>11, <1>12, <1>13, NextKinds

LEMMA InitPairs ==
    ASSUME Init
    PROVE  Pairs(k, call, Entering)
<1>1. PICK p \in prog.boot : \E spare \in Spare(p) : k = Boot(p, spare)
  BY DEF Init
<1>2. PICK spare \in Spare(p) : k = Boot(p, spare)
  BY <1>1
<1>3. p \in Seq(0 .. Lowest) /\ DOMAIN p \subseteq Task \ {Idle}
  BY TaskSchedAssumption DEF Init
<1>4. k.prio = k.base /\ \A m \in Mutex : k.mx[m].own = InvalidId
  BY <1>2, <1>3, BootRanked
<1>5. Paired(k, Entering, ToSet(k.free))
  BY <1>4 DEF Paired, Lends
<1>6. Modest(call)
  BY DEF Init, Modest, NoCall
<1> QED BY <1>5, <1>6 DEF Pairs

\* With no more than two tasks that enter mutexes, and no call that creates a
\* task or changes a priority, a task that is in no mutex has the priority
\* that its program asked for, whatever CoEnterMutexSection,
\* CoLeaveMutexSection and CoDelTask did to it before.
THEOREM PairSpec == Guarded /\ ShortDelays => (Spec => []PairReturned)
<1> SUFFICES ASSUME Guarded, ShortDelays PROVE Spec => []PairReturned
  OBVIOUS
<1> DEFINE R == Raises(k, call)
           P == Settled => Pairs(k, call, Entering)
<1>1. Init => Sound /\ R /\ P
  BY InitSound, InitRaises, InitPairs
<1>2. Sound /\ R /\ P /\ [Next]_vars => Sound' /\ R' /\ P'
  <2> SUFFICES ASSUME Sound, R, P, [Next]_vars PROVE Sound' /\ R' /\ P'
    OBVIOUS
  <2>1. Sound'
    BY NextSound
  <2>2. Raises(k', call')
    BY NextRaises
  <2>3. Settled' => Pairs(k', call', Entering')
    <3>1. CASE UNCHANGED vars
      <4>1. UNCHANGED <<k, call, prog>>
        BY <3>1 DEF vars
      <4> QED BY <4>1 DEF Settled, Entering
    <3>2. CASE Next
      <4>1. Entering' = Entering /\ (Settled' <=> Settled)
        BY <3>2 DEF Next, Settled, Entering
      <4>2. ASSUME Settled PROVE Pairs(k', call', Entering)
        BY <3>2, <4>2, PairedNext, ModestNext DEF Pairs
      <4> QED BY <4>1, <4>2
    <3> QED BY <3>1, <3>2
  <2> QED BY <2>1, <2>2, <2>3
<1>3. Sound /\ P => PairReturned
  <2> SUFFICES ASSUME Sound, Settled, Pairs(k, call, Entering),
                      NEW t \in Task, k.mid[t] = InvalidId
               PROVE  k.prio[t] = k.base[t]
    BY DEF PairReturned, PriorityReturned
  <2>1. Bound(k) /\ Paired(k, Entering, ToSet(k.free))
    BY RaisesParts DEF Pairs
  <2> QED BY <2>1, PaidBack
<1> HIDE DEF R, P
<1> QED BY <1>1, <1>2, <1>3, PTL DEF Spec
=============================================================================
