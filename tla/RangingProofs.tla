--------------------------- MODULE RangingProofs ---------------------------
(***************************************************************************)
(* Proofs about Ranging, for any nodes and any number of packets.  A       *)
(* ranging is a source and a rangingid; its packets follow each other, so  *)
(* that one of them at most is in a radio.  What source and destination    *)
(* must agree on can therefore be told from that packet.                   *)
(***************************************************************************)
EXTENDS Ranging, TLAPS

(***************************************************************************)
(* Part 1.  The invariant.                                                 *)
(***************************************************************************)
FromSource == {"PS0", "PS2", "PS4"}
FromDestination == {"PD1", "PD3"}
Roles == {"NONE", "SOURCE", "DESTINATION"}
Modes == {"IDLE", "TX", "RX"}
Times(n) == [0 .. 2 -> 0 .. n]

Pkts(n) == [type : FromSource \cup FromDestination \cup {"TEXT"}, src : Node, dst : Node,
            id : 0 .. MaxId, num : 0 .. n, ts : Times(n)]
Radios(n) == [mode : Modes, buf : Pkts(n) \cup {None}, rx : Pkts(n) \cup {None}, asleep : BOOLEAN]
Procs(n) == [role : Roles, id : 0 .. MaxId, idx : 0 .. 3, ts : Times(n), last : 0 .. MaxId]
Apps == [pc : {"off", "try", "go", "wait", "rest", "send"}, meas : BOOLEAN, late : BOOLEAN,
         goal : Node \cup {NoNode}]

\* What a radio holds: a packet is sent in TX mode, and received in RX mode.
Sound(r) == /\ r.mode = "TX" <=> r.buf # None
            /\ r.rx # None => r.mode = "RX"

Shape ==
  /\ sent \in Nat /\ starts \in Nat /\ texts \in Nat
  /\ radio \in [Node -> Radios(sent)] /\ \A n \in Node : Sound(radio[n])
  /\ proc \in [Node -> Procs(sent)]
  /\ app \in [Node -> Apps]
  /\ \A n \in Node : /\ app[n].pc \in {"try", "go", "wait", "rest"} => app[n].goal \in Anchors[n]
                     /\ app[n].pc = "send" => app[n].goal \in Friends[n]

\* The places of packets: 0, being sent, and 1, received.
In(r, k) == IF k = 0 THEN r.buf ELSE r.rx

\* The ranging a packet belongs to.
Src(p) == IF p.type \in FromSource THEN p.src ELSE p.dst
Anc(p) == IF p.type \in FromSource THEN p.dst ELSE p.src
Same(p, q) == Src(p) = Src(q) /\ p.id = q.id

\* A node takes part in the ranging of packet p.
IsSrc(p, x) == x.role = "SOURCE" /\ x.id = p.id
IsDst(p, x) == x.role = "DESTINATION" /\ x.id = p.id

\* One packet of a ranging at most.
Single(R) ==
  \A n, m \in Node : \A j, k \in {0, 1} :
    In(R[n], j) # None /\ In(R[m], k) # None /\ Same(In(R[n], j), In(R[m], k)) => n = m /\ j = k

\* A packet is on the way between its two nodes.
Placed(R, P) ==
  \A n \in Node : \A k \in {0, 1} :
    LET p == In(R[n], k)
    IN p # None => /\ p.type \in FromSource \cup FromDestination /\ Src(p) \in Node
                   /\ Anc(p) \in Anchors[Src(p)] /\ p.id \in 1 .. P[Src(p)].last
                   /\ n = IF k = 0 THEN p.src ELSE p.dst

\* While a packet is being sent, the process of its sender waits for that.
Step(p) == CASE p.type = "PS0" -> 0 [] p.type = "PD1" -> 1 [] p.type = "PS2" -> 2 [] OTHER -> 3
Sending(R, P) ==
  \A n \in Node : LET p == R[n].buf
                  IN p # None => /\ P[n].role = IF p.type \in FromSource THEN "SOURCE" ELSE "DESTINATION"
                                 /\ P[n].id = p.id /\ P[n].idx = Step(p)

\* What is known of the times of the source x and the destination y when
\* packet p is at place k.
Agree(p, k, x, y) ==
  LET s == IsSrc(p, x)
      d == IsDst(p, y)
  IN /\ p.type = "PS0" /\ k = 1 => (s => x.ts[0] = p.num)
     /\ p.type = "PD1" => (s /\ d => x.ts[0] = y.ts[0])
     /\ p.type = "PD1" /\ k = 1 => (d => y.ts[1] = p.num)
     /\ p.type = "PS2" => (s /\ d => x.ts[0] = y.ts[0] /\ x.ts[1] = y.ts[1])
     /\ p.type = "PS2" /\ k = 1 => (s => x.ts[2] = p.num)
     /\ p.type = "PD3" => (s => x.ts = p.ts) /\ (d => y.ts = p.ts)
     /\ p.type = "PS4" => (d => y.ts = p.ts)
Agreed(R, P) ==
  \A n \in Node : \A k \in {0, 1} :
    In(R[n], k) # None => Agree(In(R[n], k), k, P[Src(In(R[n], k))], P[Anc(In(R[n], k))])

Token(R, P) == Single(R) /\ Placed(R, P) /\ Sending(R, P) /\ Agreed(R, P)

\* A node has not started more rangings than distanz was called.
Owed(a) == IF a.pc \in {"try", "go"} THEN 1 ELSE 0
Counted ==
  /\ starts <= MaxStarts
  /\ \A n \in Node : proc[n].last + Owed(app[n]) <= starts

PacketInv ==
  texts = 0 =>
    /\ Token(radio, proc)
    /\ \A n \in Node : app[n].pc # "send"
    /\ \A n \in Node : dist[n] # << >> => dist[n][1] = dist[n][2]

\* Every destination serves one source, and no rangingid is used twice.
Exclusive ==
  /\ \A n, m \in Node : n # m => Anchors[n] \cap Anchors[m] = {}
  /\ MaxStarts <= MaxId

Inv == Shape /\ Counted /\ PacketInv

(***************************************************************************)
(* Part 2.  Types, and the modes of the radio.                             *)
(***************************************************************************)
\* Larger numbers of packets.
LEMMA Grow ==
    ASSUME NEW j \in Nat, NEW k \in Nat, j <= k
    PROVE  /\ Times(j) \subseteq Times(k) /\ Pkts(j) \subseteq Pkts(k)
           /\ Radios(j) \subseteq Radios(k) /\ Procs(j) \subseteq Procs(k)
<1>1. 0 .. j \subseteq 0 .. k
  OBVIOUS
<1>2. Times(j) \subseteq Times(k)
  BY <1>1 DEF Times
<1>3. Pkts(j) \subseteq Pkts(k)
  BY <1>1, <1>2 DEF Pkts
<1>4. Radios(j) \subseteq Radios(k)
  BY <1>3 DEF Radios
<1>5. Procs(j) \subseteq Procs(k)
  BY <1>2 DEF Procs
<1> QED BY <1>2, <1>3, <1>4, <1>5

\* A packet is something.
LEMMA SomePacket == \A k : \A p \in Pkts(k) : p # None
BY DEF Pkts, None, FromSource, FromDestination

\* A step of node n that leaves the others alone.
NodeStep(n, r, x, a) ==
  /\ sent' \in {sent, sent + 1} /\ starts' \in {starts, starts + 1} /\ texts' \in {texts, texts + 1}
  /\ radio' = [radio EXCEPT ![n] = r] /\ r \in Radios(sent') /\ Sound(r)
  /\ proc' = [proc EXCEPT ![n] = x] /\ x \in Procs(sent')
  /\ app' = [app EXCEPT ![n] = a] /\ a \in Apps
  /\ a.pc \in {"try", "go", "wait", "rest"} => a.goal \in Anchors[n]
  /\ a.pc = "send" => a.goal \in Friends[n]

\* It keeps the types.
LEMMA NodeShape ==
    ASSUME Shape, NEW n \in Node, NEW r, NEW x, NEW a, NodeStep(n, r, x, a)
    PROVE  Shape'
<1>1. sent' \in Nat /\ starts' \in Nat /\ texts' \in Nat /\ sent \in Nat /\ sent <= sent'
  BY DEF Shape, NodeStep
<1>2. Radios(sent) \subseteq Radios(sent') /\ Procs(sent) \subseteq Procs(sent')
  BY <1>1, Grow
<1>3. radio' \in [Node -> Radios(sent')] /\ \A m \in Node : Sound(radio'[m])
  BY <1>2 DEF Shape, NodeStep
<1>4. proc' \in [Node -> Procs(sent')]
  BY <1>2 DEF Shape, NodeStep
<1>5. app' \in [Node -> Apps]
  BY DEF Shape, NodeStep
<1>6. \A m \in Node : /\ app'[m].pc \in {"try", "go", "wait", "rest"} => app'[m].goal \in Anchors[m]
                      /\ app'[m].pc = "send" => app'[m].goal \in Friends[m]
  BY DEF Shape, NodeStep
<1> QED BY <1>1, <1>3, <1>4, <1>5, <1>6 DEF Shape

\* A packet that is handled.
LEMMA Received ==
    ASSUME Shape, NEW n \in Node, NEW t, t # "none", Got(n, t)
    PROVE  /\ radio[n].rx \in Pkts(sent) /\ radio[n].rx # None /\ radio[n].rx.type = t
           /\ radio[n].buf = None /\ radio[n].mode = "RX" /\ radio[n] \in Radios(sent)
           /\ proc[n] \in Procs(sent) /\ app[n] \in Apps
<1>1. radio[n] \in Radios(sent) /\ Sound(radio[n]) /\ proc[n] \in Procs(sent) /\ app[n] \in Apps
  BY DEF Shape
<1>2. radio[n].rx # None /\ radio[n].rx.type = t
  BY DEF Got, None
<1> QED BY <1>1, <1>2 DEF Radios, Sound

\* ismeasuring is cleared.
LEMMA Stopped ==
    ASSUME Shape, NEW n \in Node, app' = Stop(n)
    PROVE  \E a \in Apps : app' = [app EXCEPT ![n] = a] /\ a.pc = app[n].pc /\ a.goal = app[n].goal
<1>1. app[n] \in Apps /\ app \in [Node -> Apps]
  BY DEF Shape
<1>2. [app[n] EXCEPT !.meas = FALSE] \in Apps
  BY <1>1 DEF Apps
<1>3. app' = [app EXCEPT ![n] = [app[n] EXCEPT !.meas = FALSE]]
  BY <1>1 DEF Stop
<1>4. [app[n] EXCEPT !.meas = FALSE].pc = app[n].pc /\ [app[n] EXCEPT !.meas = FALSE].goal = app[n].goal
  BY <1>1 DEF Apps
<1> QED BY <1>2, <1>3, <1>4

\* A packet is dropped, or given to the program.
LEMMA IgnoreStep ==
    ASSUME Shape, NEW n \in Node, NEW t, t # "none", Got(n, t), Ignore(n)
    PROVE  \E r : /\ NodeStep(n, r, proc[n], app[n]) /\ r.buf = radio[n].buf /\ r.rx = None
                  /\ UNCHANGED <<sent, starts, texts, dist>>
<1>1. radio[n] \in Radios(sent) /\ Sound(radio[n]) /\ radio[n].rx # None
      /\ proc[n] \in Procs(sent) /\ app[n] \in Apps
  BY Received DEF Shape
<1>2. PICK r : r = StartReceive(radio[n])
  OBVIOUS
<1>3. r \in Radios(sent) /\ Sound(r) /\ r.buf = radio[n].buf /\ r.rx = None
  BY <1>1, <1>2 DEF Radios, Modes, Sound, StartReceive
<1>4. /\ radio' = [radio EXCEPT ![n] = r] /\ proc' = [proc EXCEPT ![n] = proc[n]]
      /\ app' = [app EXCEPT ![n] = app[n]] /\ UNCHANGED <<sent, starts, texts, dist>>
  BY <1>2 DEF Ignore, Shape
<1>5. NodeStep(n, r, proc[n], app[n])
  BY <1>1, <1>3, <1>4 DEF NodeStep, Shape
<1> QED BY <1>3, <1>4, <1>5

\* A packet is answered.
LEMMA AnswerRadio ==
    ASSUME Shape, NEW n \in Node, NEW p \in Pkts(sent + 1), Answer(n, p)
    PROVE  \E r : /\ radio' = [radio EXCEPT ![n] = r] /\ r \in Radios(sent + 1) /\ Sound(r)
                  /\ r.buf = p /\ r.rx = None /\ sent' = sent + 1 /\ UNCHANGED <<starts, texts>>
<1>1. radio[n] \in Radios(sent + 1) /\ Sound(radio[n]) /\ radio \in [Node -> Radios(sent)]
  BY Grow DEF Shape
<1>2. PICK r : r = Transmit(radio[n], p)
  OBVIOUS
<1>3. r \in Radios(sent + 1) /\ Sound(r) /\ r.buf = p /\ r.rx = None
  BY <1>1, <1>2, SomePacket DEF Radios, Modes, Sound, Idle, Transmit
<1>4. radio' = [radio EXCEPT ![n] = r] /\ sent' = sent + 1 /\ UNCHANGED <<starts, texts>>
  BY <1>1, <1>2 DEF Answer
<1> QED BY <1>3, <1>4

\* The program of a node that only handles a packet goes on as before.
LEMMA SameApp ==
    ASSUME Shape, NEW n \in Node, UNCHANGED app
    PROVE  /\ app' = [app EXCEPT ![n] = app[n]] /\ app[n] \in Apps
           /\ app[n].pc \in {"try", "go", "wait", "rest"} => app[n].goal \in Anchors[n]
           /\ app[n].pc = "send" => app[n].goal \in Friends[n]
BY DEF Shape

\* A node becomes a destination.
LEMMA SourceTx1Step ==
    ASSUME Shape, NEW n \in Node, HandleSourceTx1(n)
    PROVE  \E r, x, p : /\ NodeStep(n, r, x, app[n]) /\ r.buf = p /\ r.rx = None /\ p \in Pkts(sent + 1)
                        /\ UNCHANGED <<texts, starts, dist>>
                        /\ p.type = "PD1" /\ p.src = n /\ p.dst = radio[n].rx.src /\ p.id = radio[n].rx.id
                        /\ x.role = "DESTINATION" /\ x.id = radio[n].rx.id /\ x.idx = 1
                        /\ x.ts[0] = radio[n].rx.num /\ x.last = proc[n].last
<1>1. PICK q : q = radio[n].rx
  OBVIOUS
<1>2. q \in Pkts(sent) /\ proc[n] \in Procs(sent) /\ app[n] \in Apps /\ sent \in Nat
  BY <1>1, Received DEF HandleSourceTx1, Shape
<1>3. q \in Pkts(sent + 1) /\ proc[n] \in Procs(sent + 1) /\ q.src \in Node /\ q.id \in 0 .. MaxId
      /\ q.num \in 0 .. sent + 1
  BY <1>2, Grow DEF Pkts
<1>4. PICK p : p = Packet("PD1", n, q.src, q.id)
  OBVIOUS
<1>5. /\ p \in Pkts(sent + 1) /\ p.type = "PD1" /\ p.src = n /\ p.dst = q.src /\ p.id = q.id
  <2>1. NoTimes \in Times(sent + 1) /\ sent + 1 \in 0 .. sent + 1
    BY <1>2 DEF NoTimes, Times
  <2> QED BY <1>3, <1>4, <2>1 DEF Packet, Pkts, FromDestination
<1>6. PICK t : t = [proc[n].ts EXCEPT ![0] = q.num]
  OBVIOUS
<1>7. t \in Times(sent + 1) /\ t[0] = q.num
  BY <1>3, <1>6 DEF Procs, Times
<1>8. PICK x : x = [proc[n] EXCEPT !.role = "DESTINATION", !.id = q.id, !.idx = 1, !.ts = t]
  OBVIOUS
<1>9. /\ x \in Procs(sent + 1) /\ x.role = "DESTINATION" /\ x.id = q.id /\ x.idx = 1
      /\ x.ts[0] = q.num /\ x.last = proc[n].last
  <2>1. 1 \in 0 .. 3 /\ "DESTINATION" \in Roles
    BY DEF Roles
  <2>2. x \in Procs(sent + 1)
    BY <1>3, <1>7, <1>8, <2>1 DEF Procs
  <2> QED BY <1>3, <1>7, <1>8, <2>2 DEF Procs
<1>10. /\ Answer(n, p) /\ UNCHANGED <<app, dist>>
       /\ proc' = [proc EXCEPT ![n] = [@ EXCEPT !.role = "DESTINATION", !.id = q.id, !.idx = 1,
                                                !.ts[0] = q.num]]
  BY <1>1, <1>4 DEF HandleSourceTx1
<1>11. proc' = [proc EXCEPT ![n] = x]
  <2>1. [proc[n] EXCEPT !.role = "DESTINATION", !.id = q.id, !.idx = 1, !.ts[0] = q.num] = x
    BY <1>3, <1>6, <1>8 DEF Procs
  <2> QED BY <1>10, <2>1 DEF Shape
<1>12. PICK r : /\ radio' = [radio EXCEPT ![n] = r] /\ r \in Radios(sent + 1) /\ Sound(r)
                /\ r.buf = p /\ r.rx = None /\ sent' = sent + 1 /\ UNCHANGED <<starts, texts>>
  BY <1>5, <1>10, AnswerRadio
<1>13. NodeStep(n, r, x, app[n])
  BY <1>9, <1>10, <1>11, <1>12, SameApp DEF NodeStep
<1> QED BY <1>1, <1>5, <1>9, <1>10, <1>12, <1>13

\* The third packet, at a destination that matches.
LEMMA SourceTx2Step ==
    ASSUME Shape, NEW n \in Node, HandleSourceTx2(n), Matches(n, "DESTINATION")
    PROVE  \E r, x, p : /\ NodeStep(n, r, x, app[n]) /\ r.buf = p /\ r.rx = None /\ p \in Pkts(sent + 1)
                        /\ UNCHANGED <<texts, starts, dist>>
                        /\ p.type = "PD3" /\ p.src = n /\ p.dst = radio[n].rx.src /\ p.id = radio[n].rx.id
                        /\ x.role = "DESTINATION" /\ x.id = radio[n].rx.id /\ x.idx = 3
                        /\ x.ts[0] = proc[n].ts[0] /\ x.ts[1] = proc[n].ts[1]
                        /\ x.ts[2] = radio[n].rx.num /\ p.ts = x.ts
                        /\ x.last = proc[n].last
<1>1. PICK q : q = radio[n].rx
  OBVIOUS
<1>2. q \in Pkts(sent) /\ proc[n] \in Procs(sent) /\ app[n] \in Apps /\ sent \in Nat
  BY <1>1, Received DEF HandleSourceTx2, Shape
<1>3. q \in Pkts(sent + 1) /\ proc[n] \in Procs(sent + 1) /\ q.src \in Node /\ q.id \in 0 .. MaxId
      /\ q.num \in 0 .. sent + 1
  BY <1>2, Grow DEF Pkts
<1>4. PICK t : t = [proc[n].ts EXCEPT ![2] = q.num]
  OBVIOUS
<1>5. /\ t \in Times(sent + 1)
      /\ t[0] = proc[n].ts[0] /\ t[1] = proc[n].ts[1] /\ t[2] = q.num
  BY <1>3, <1>4 DEF Procs, Times
<1>6. PICK p : p = [Packet("PD3", n, q.src, q.id) EXCEPT !.ts = t]
  OBVIOUS
<1>7. /\ p \in Pkts(sent + 1) /\ p.type = "PD3" /\ p.src = n /\ p.dst = q.src /\ p.id = q.id /\ p.ts = t
  <2>1. NoTimes \in Times(sent + 1) /\ sent + 1 \in 0 .. sent + 1
    BY <1>2 DEF NoTimes, Times
  <2> QED BY <1>3, <1>5, <1>6, <2>1 DEF Packet, Pkts, FromDestination
<1>8. PICK x : x = [proc[n] EXCEPT !.ts = t, !.idx = 3]
  OBVIOUS
<1>9. /\ x \in Procs(sent + 1) /\ x.role = proc[n].role /\ x.id = proc[n].id /\ x.idx = 3
      /\ x.ts = t /\ x.last = proc[n].last
  <2>1. 3 \in 0 .. 3
    OBVIOUS
  <2>2. x \in Procs(sent + 1)
    BY <1>3, <1>5, <1>8, <2>1 DEF Procs
  <2> QED BY <1>3, <1>5, <1>8, <2>2 DEF Procs
<1>10. proc[n].role = "DESTINATION" /\ proc[n].id = q.id
  BY <1>1 DEF Matches
<1>11. /\ Answer(n, p) /\ UNCHANGED <<app, dist>>
       /\ proc' = [proc EXCEPT ![n].ts = t, ![n].idx = 3]
  BY <1>1, <1>4, <1>6 DEF HandleSourceTx2
<1>12. proc' = [proc EXCEPT ![n] = x]
  BY <1>8, <1>11 DEF Shape
<1>13. PICK r : /\ radio' = [radio EXCEPT ![n] = r] /\ r \in Radios(sent + 1) /\ Sound(r)
                /\ r.buf = p /\ r.rx = None /\ sent' = sent + 1 /\ UNCHANGED <<starts, texts>>
  BY <1>7, <1>11, AnswerRadio
<1>14. NodeStep(n, r, x, app[n])
  BY <1>9, <1>11, <1>12, <1>13, SameApp DEF NodeStep
<1> QED BY <1>1, <1>5, <1>7, <1>9, <1>10, <1>11, <1>13, <1>14

\* The second packet, at a source that matches.
LEMMA DestinationTx1Step ==
    ASSUME Shape, NEW n \in Node, HandleDestinationTx1(n), Matches(n, "SOURCE")
    PROVE  \E r, x, p : /\ NodeStep(n, r, x, app[n]) /\ r.buf = p /\ r.rx = None /\ p \in Pkts(sent + 1)
                        /\ UNCHANGED <<texts, starts, dist>>
                        /\ p.type = "PS2" /\ p.src = n /\ p.dst = radio[n].rx.src /\ p.id = radio[n].rx.id
                        /\ x.role = "SOURCE" /\ x.id = radio[n].rx.id /\ x.idx = 2
                        /\ x.ts[0] = proc[n].ts[0] /\ x.ts[1] = radio[n].rx.num
                        /\ x.last = proc[n].last
<1>1. PICK q : q = radio[n].rx
  OBVIOUS
<1>2. q \in Pkts(sent) /\ proc[n] \in Procs(sent) /\ app[n] \in Apps /\ sent \in Nat
  BY <1>1, Received DEF HandleDestinationTx1, Shape
<1>3. q \in Pkts(sent + 1) /\ proc[n] \in Procs(sent + 1) /\ q.src \in Node /\ q.id \in 0 .. MaxId
      /\ q.num \in 0 .. sent + 1
  BY <1>2, Grow DEF Pkts
<1>4. PICK t : t = [proc[n].ts EXCEPT ![1] = q.num]
  OBVIOUS
<1>5. t \in Times(sent + 1) /\ t[0] = proc[n].ts[0] /\ t[1] = q.num
  BY <1>3, <1>4 DEF Procs, Times
<1>6. PICK p : p = Packet("PS2", n, q.src, q.id)
  OBVIOUS
<1>7. /\ p \in Pkts(sent + 1) /\ p.type = "PS2" /\ p.src = n /\ p.dst = q.src /\ p.id = q.id
  <2>1. NoTimes \in Times(sent + 1) /\ sent + 1 \in 0 .. sent + 1
    BY <1>2 DEF NoTimes, Times
  <2> QED BY <1>3, <1>6, <2>1 DEF Packet, Pkts, FromSource
<1>8. PICK x : x = [proc[n] EXCEPT !.ts = t, !.idx = 2]
  OBVIOUS
<1>9. /\ x \in Procs(sent + 1) /\ x.role = proc[n].role /\ x.id = proc[n].id /\ x.idx = 2
      /\ x.ts = t /\ x.last = proc[n].last
  <2>1. 2 \in 0 .. 3
    OBVIOUS
  <2>2. x \in Procs(sent + 1)
    BY <1>3, <1>5, <1>8, <2>1 DEF Procs
  <2> QED BY <1>3, <1>5, <1>8, <2>2 DEF Procs
<1>10. proc[n].role = "SOURCE" /\ proc[n].id = q.id
  BY <1>1 DEF Matches
<1>11. /\ Answer(n, p) /\ UNCHANGED <<app, dist>>
       /\ proc' = [proc EXCEPT ![n] = [@ EXCEPT !.ts[1] = q.num, !.idx = 2]]
  BY <1>1, <1>6 DEF HandleDestinationTx1
<1>12. proc' = [proc EXCEPT ![n] = x]
  <2>1. [proc[n] EXCEPT !.ts[1] = q.num, !.idx = 2] = x
    BY <1>3, <1>4, <1>8 DEF Procs
  <2> QED BY <1>11, <2>1 DEF Shape
<1>13. PICK r : /\ radio' = [radio EXCEPT ![n] = r] /\ r \in Radios(sent + 1) /\ Sound(r)
                /\ r.buf = p /\ r.rx = None /\ sent' = sent + 1 /\ UNCHANGED <<starts, texts>>
  BY <1>7, <1>11, AnswerRadio
<1>14. NodeStep(n, r, x, app[n])
  BY <1>9, <1>11, <1>12, <1>13, SameApp DEF NodeStep
<1> QED BY <1>1, <1>5, <1>7, <1>9, <1>10, <1>11, <1>13, <1>14

\* The fourth packet, at a source that matches.
LEMMA DestinationResultStep ==
    ASSUME Shape, NEW n \in Node, HandleDestinationResult(n), Matches(n, "SOURCE")
    PROVE  \E r, x, a, p : /\ NodeStep(n, r, x, a) /\ r.buf = p /\ r.rx = None /\ p \in Pkts(sent + 1)
                           /\ UNCHANGED <<texts, starts>> /\ a.pc = app[n].pc
                           /\ dist' = [dist EXCEPT ![n] = <<proc[n].ts, radio[n].rx.ts>>]
                           /\ p.type = "PS4" /\ p.src = n /\ p.dst = radio[n].rx.src /\ p.id = radio[n].rx.id
                           /\ x.role = "SOURCE" /\ x.id = radio[n].rx.id /\ x.idx = 3
                           /\ x.ts = proc[n].ts /\ p.ts = x.ts /\ x.last = proc[n].last
<1>1. PICK q : q = radio[n].rx
  OBVIOUS
<1>2. q \in Pkts(sent) /\ proc[n] \in Procs(sent) /\ app[n] \in Apps /\ sent \in Nat
  BY <1>1, Received DEF HandleDestinationResult, Shape
<1>3. q \in Pkts(sent + 1) /\ proc[n] \in Procs(sent + 1) /\ q.src \in Node /\ q.id \in 0 .. MaxId
  BY <1>2, Grow DEF Pkts
<1>4. PICK t : t = proc[n].ts
  OBVIOUS
<1>5. t \in Times(sent + 1)
  BY <1>3, <1>4 DEF Procs
<1>6. PICK p : p = [Packet("PS4", n, q.src, q.id) EXCEPT !.ts = t]
  OBVIOUS
<1>7. /\ p \in Pkts(sent + 1) /\ p.type = "PS4" /\ p.src = n /\ p.dst = q.src /\ p.id = q.id /\ p.ts = t
  <2>1. NoTimes \in Times(sent + 1) /\ sent + 1 \in 0 .. sent + 1
    BY <1>2 DEF NoTimes, Times
  <2> QED BY <1>3, <1>5, <1>6, <2>1 DEF Packet, Pkts, FromSource
<1>8. PICK x : x = [proc[n] EXCEPT !.idx = 3]
  OBVIOUS
<1>9. /\ x \in Procs(sent + 1) /\ x.role = proc[n].role /\ x.id = proc[n].id /\ x.idx = 3
      /\ x.ts = t /\ x.last = proc[n].last
  <2>1. 3 \in 0 .. 3
    OBVIOUS
  <2>2. x \in Procs(sent + 1)
    BY <1>3, <1>8, <2>1 DEF Procs
  <2> QED BY <1>3, <1>4, <1>8, <2>2 DEF Procs
<1>10. proc[n].role = "SOURCE" /\ proc[n].id = q.id
  BY <1>1 DEF Matches
<1>11. /\ Answer(n, p) /\ proc' = [proc EXCEPT ![n].idx = 3]
       /\ app' = Stop(n) /\ dist' = [dist EXCEPT ![n] = <<t, q.ts>>]
  BY <1>1, <1>4, <1>6 DEF HandleDestinationResult, Distance
<1>12. proc' = [proc EXCEPT ![n] = x]
  BY <1>8, <1>11 DEF Shape
<1>13. PICK r : /\ radio' = [radio EXCEPT ![n] = r] /\ r \in Radios(sent + 1) /\ Sound(r)
                /\ r.buf = p /\ r.rx = None /\ sent' = sent + 1 /\ UNCHANGED <<starts, texts>>
  BY <1>7, <1>11, AnswerRadio
<1>14. PICK a \in Apps : app' = [app EXCEPT ![n] = a] /\ a.pc = app[n].pc /\ a.goal = app[n].goal
  BY <1>11, Stopped
<1>15. /\ a.pc \in {"try", "go", "wait", "rest"} => a.goal \in Anchors[n]
       /\ a.pc = "send" => a.goal \in Friends[n]
  BY <1>14 DEF Shape
<1>16. NodeStep(n, r, x, a)
  BY <1>9, <1>12, <1>13, <1>14, <1>15 DEF NodeStep
<1> QED BY <1>1, <1>4, <1>7, <1>9, <1>10, <1>11, <1>13, <1>14, <1>16

\* What a step may drop: packets of the node, and its process with them.
Drops(n, r, x) ==
  /\ r.buf \in {None, radio[n].buf} /\ r.rx \in {None, radio[n].rx} /\ x.last = proc[n].last
  /\ x = proc[n] \/ (x.role = "NONE" /\ r.buf = None)

\* The fifth packet, at a destination that matches.
LEMMA SourceResultStep ==
    ASSUME Shape, NEW n \in Node, HandleSourceResult(n), Matches(n, "DESTINATION")
    PROVE  \E r, x, a : /\ NodeStep(n, r, x, a) /\ Drops(n, r, x)
                        /\ UNCHANGED <<texts, starts>> /\ a.pc = app[n].pc
                        /\ dist' = [dist EXCEPT ![n] = <<radio[n].rx.ts, proc[n].ts>>]
<1>1. /\ radio[n] \in Radios(sent) /\ Sound(radio[n]) /\ radio[n].rx # None
      /\ proc[n] \in Procs(sent) /\ sent \in Nat
  BY Received DEF Shape, HandleSourceResult
<1>2. PICK r : r = StartReceive(radio[n])
  OBVIOUS
<1>3. r \in Radios(sent) /\ Sound(r) /\ r.buf = None /\ r.rx = None
  BY <1>1, <1>2 DEF Radios, Modes, Sound, StartReceive
<1>4. PICK x : x = Cancel(proc[n])
  OBVIOUS
<1>5. x \in Procs(sent) /\ x.role = "NONE" /\ x.last = proc[n].last
  <2>1. 0 \in 0 .. MaxId /\ 0 \in 0 .. 3 /\ "NONE" \in Roles
    BY RangingAssumption DEF Roles
  <2> QED BY <1>1, <1>4, <2>1 DEF Procs, Cancel
<1>6. /\ radio' = [radio EXCEPT ![n] = r] /\ proc' = [proc EXCEPT ![n] = x]
      /\ app' = Stop(n) /\ dist' = [dist EXCEPT ![n] = <<radio[n].rx.ts, proc[n].ts>>]
      /\ UNCHANGED <<sent, starts, texts>>
  BY <1>2, <1>4 DEF HandleSourceResult, Distance, Shape
<1>7. PICK a \in Apps : app' = [app EXCEPT ![n] = a] /\ a.pc = app[n].pc /\ a.goal = app[n].goal
  BY <1>6, Stopped
<1>8. /\ a.pc \in {"try", "go", "wait", "rest"} => a.goal \in Anchors[n]
      /\ a.pc = "send" => a.goal \in Friends[n]
  BY <1>7 DEF Shape
<1>9. NodeStep(n, r, x, a)
  BY <1>3, <1>5, <1>6, <1>7, <1>8 DEF NodeStep
<1>10. Drops(n, r, x)
  BY <1>3, <1>5 DEF Drops
<1> QED BY <1>6, <1>7, <1>9, <1>10

\* The timeout.
LEMMA Expired ==
    ASSUME Shape, NEW n \in Node, Expire(n), UNCHANGED sent
    PROVE  \E r, x : /\ radio' = [radio EXCEPT ![n] = r] /\ r \in Radios(sent') /\ Sound(r)
                     /\ proc' = [proc EXCEPT ![n] = x] /\ x \in Procs(sent') /\ Drops(n, r, x)
<1>1. radio[n] \in Radios(sent) /\ proc[n] \in Procs(sent)
  BY DEF Shape
<1>2. PICK r : r = StartReceive(Idle(radio[n]))
  OBVIOUS
<1>3. r \in Radios(sent) /\ Sound(r) /\ r.buf = None /\ r.rx = None
  BY <1>1, <1>2 DEF Radios, Modes, Sound, StartReceive, Idle
<1>4. PICK x : x = Cancel(proc[n])
  OBVIOUS
<1>5. x \in Procs(sent) /\ x.role = "NONE" /\ x.last = proc[n].last
  <2>1. 0 \in 0 .. MaxId /\ 0 \in 0 .. 3 /\ "NONE" \in Roles
    BY RangingAssumption DEF Roles
  <2> QED BY <1>1, <1>4, <2>1 DEF Procs, Cancel
<1>6. radio' = [radio EXCEPT ![n] = r] /\ proc' = [proc EXCEPT ![n] = x]
  BY <1>2, <1>4 DEF Expire, Shape
<1> QED BY <1>3, <1>5, <1>6 DEF Drops

\* A step that leaves radio and process alone.
LEMMA Untouched ==
    ASSUME Shape, NEW n \in Node, UNCHANGED <<radio, proc, sent>>
    PROVE  \E r, x : /\ radio' = [radio EXCEPT ![n] = r] /\ r \in Radios(sent') /\ Sound(r)
                     /\ proc' = [proc EXCEPT ![n] = x] /\ x \in Procs(sent') /\ Drops(n, r, x)
<1>1. /\ radio' = [radio EXCEPT ![n] = radio[n]] /\ radio[n] \in Radios(sent') /\ Sound(radio[n])
      /\ proc' = [proc EXCEPT ![n] = proc[n]] /\ proc[n] \in Procs(sent')
  BY DEF Shape
<1>2. Drops(n, radio[n], proc[n])
  BY DEF Drops
<1> QED BY <1>1, <1>2

\* A step in which no packet is made.
QuietStep(n, r, x, a) ==
  /\ NodeStep(n, r, x, a) /\ Drops(n, r, x) /\ UNCHANGED dist
  /\ \/ starts' = starts /\ (a.pc \in {"try", "go"} => app[n].pc \in {"try", "go"})
     \/ starts' = starts + 1 /\ starts < MaxStarts
  /\ \/ texts' = texts /\ (a.pc = "send" => app[n].pc = "send")
     \/ texts' = texts + 1

\* What the program of a node does with its own state.
AppStep(n, a) ==
  /\ app' = [app EXCEPT ![n] = a] /\ a \in Apps
  /\ a.pc \in {"try", "go", "wait", "rest"} => a.goal \in Anchors[n]
  /\ a.pc = "send" => a.goal \in Friends[n]

\* ismeasuring is cleared, by the tick interrupt.
LEMMA SysTickStep ==
    ASSUME Shape, NEW n \in Node, SysTick(n)
    PROVE  \E r, x, a : QuietStep(n, r, x, a)
<1>1. /\ app' = Stop(n) /\ UNCHANGED <<sent, starts, texts, dist>>
      /\ Expire(n) \/ UNCHANGED <<radio, proc>>
  BY DEF SysTick
<1>2. PICK a \in Apps : app' = [app EXCEPT ![n] = a] /\ a.pc = app[n].pc /\ a.goal = app[n].goal
  BY <1>1, Stopped
<1>3. AppStep(n, a)
  BY <1>2 DEF Shape, AppStep
<1>4. PICK r, x : /\ radio' = [radio EXCEPT ![n] = r] /\ r \in Radios(sent') /\ Sound(r)
                  /\ proc' = [proc EXCEPT ![n] = x] /\ x \in Procs(sent') /\ Drops(n, r, x)
  BY <1>1, Expired, Untouched
<1>5. NodeStep(n, r, x, a)
  BY <1>1, <1>3, <1>4 DEF NodeStep, AppStep
<1>6. QuietStep(n, r, x, a)
  BY <1>1, <1>2, <1>4, <1>5 DEF QuietStep
<1> QED BY <1>6

\* The tick, called by the main program: its tests.
LEMMA TickTestStep ==
    ASSUME Shape, NEW n \in Node, TickTest(n)
    PROVE  \E r, x, a : QuietStep(n, r, x, a)
<1>1. /\ app' = [app EXCEPT ![n].late = TRUE] \/ app' = Stop(n)
      /\ UNCHANGED <<radio, proc, sent, starts, texts, dist>>
  BY DEF TickTest
<1>2. \E a \in Apps : app' = [app EXCEPT ![n] = a] /\ a.pc = app[n].pc /\ a.goal = app[n].goal
  <2>1. CASE app' = Stop(n)
    BY <2>1, Stopped
  <2>2. CASE app' = [app EXCEPT ![n].late = TRUE]
    <3>1. app[n] \in Apps /\ app \in [Node -> Apps]
      BY DEF Shape
    <3>2. PICK a : a = [app[n] EXCEPT !.late = TRUE]
      OBVIOUS
    <3>3. a \in Apps /\ a.pc = app[n].pc /\ a.goal = app[n].goal
      BY <3>1, <3>2 DEF Apps
    <3>4. app' = [app EXCEPT ![n] = a]
      BY <2>2, <3>1, <3>2
    <3> QED BY <3>3, <3>4
  <2> QED BY <1>1, <2>1, <2>2
<1>3. PICK a \in Apps : app' = [app EXCEPT ![n] = a] /\ a.pc = app[n].pc /\ a.goal = app[n].goal
  BY <1>2
<1>4. AppStep(n, a)
  BY <1>3 DEF Shape, AppStep
<1>5. PICK r, x : /\ radio' = [radio EXCEPT ![n] = r] /\ r \in Radios(sent') /\ Sound(r)
                  /\ proc' = [proc EXCEPT ![n] = x] /\ x \in Procs(sent') /\ Drops(n, r, x)
  BY <1>1, Untouched
<1>6. NodeStep(n, r, x, a)
  BY <1>1, <1>4, <1>5 DEF NodeStep, AppStep
<1>7. QuietStep(n, r, x, a)
  BY <1>1, <1>3, <1>5, <1>6 DEF QuietStep
<1> QED BY <1>7

\* Its timeout.
LEMMA TickExpireStep ==
    ASSUME Shape, NEW n \in Node, TickExpire(n)
    PROVE  \E r, x, a : QuietStep(n, r, x, a)
<1>1. /\ app' = [app EXCEPT ![n].late = FALSE, ![n].meas = app[n].pc = "try"]
      /\ Expire(n) /\ UNCHANGED <<sent, starts, texts, dist>>
  BY DEF TickExpire
<1>2. app[n] \in Apps /\ app \in [Node -> Apps]
  BY DEF Shape
<1>3. PICK b \in BOOLEAN : b = (app[n].pc = "try")
  OBVIOUS
<1>4. PICK a : a = [app[n] EXCEPT !.late = FALSE, !.meas = b]
  OBVIOUS
<1>5. a \in Apps /\ a.pc = app[n].pc /\ a.goal = app[n].goal
  BY <1>2, <1>3, <1>4 DEF Apps
<1>6. app' = [app EXCEPT ![n] = a]
  BY <1>1, <1>2, <1>3, <1>4
<1>7. AppStep(n, a)
  BY <1>5, <1>6 DEF Shape, AppStep
<1>8. PICK r, x : /\ radio' = [radio EXCEPT ![n] = r] /\ r \in Radios(sent') /\ Sound(r)
                  /\ proc' = [proc EXCEPT ![n] = x] /\ x \in Procs(sent') /\ Drops(n, r, x)
  BY <1>1, Expired
<1>9. NodeStep(n, r, x, a)
  BY <1>1, <1>7, <1>8 DEF NodeStep, AppStep
<1>10. QuietStep(n, r, x, a)
  BY <1>1, <1>5, <1>8, <1>9 DEF QuietStep
<1> QED BY <1>10

\* A call of distanz, which wakes the chip.
LEMMA DistanzStep ==
    ASSUME Shape, NEW n \in Node, NEW g \in Node, Distanz(n, g)
    PROVE  \E r, x, a : QuietStep(n, r, x, a)
<1>1. /\ g \in Anchors[n] /\ starts < MaxStarts /\ starts' = starts + 1
      /\ radio' = [radio EXCEPT ![n] = [Idle(@) EXCEPT !.asleep = FALSE]]
      /\ app' = [app EXCEPT ![n] = [@ EXCEPT !.pc = "try", !.meas = TRUE, !.goal = g]]
      /\ UNCHANGED <<proc, sent, texts, dist>>
  BY DEF Distanz
<1>2. /\ app[n] \in Apps /\ app \in [Node -> Apps] /\ radio[n] \in Radios(sent)
      /\ proc[n] \in Procs(sent) /\ proc' = [proc EXCEPT ![n] = proc[n]]
  BY <1>1 DEF Shape
<1>3. PICK a : a = [app[n] EXCEPT !.pc = "try", !.meas = TRUE, !.goal = g]
  OBVIOUS
<1>4. a \in Apps /\ a.pc = "try" /\ a.goal = g
  BY <1>2, <1>3 DEF Apps
<1>5. AppStep(n, a)
  BY <1>1, <1>2, <1>3, <1>4 DEF AppStep
<1>6. PICK r : r = [Idle(radio[n]) EXCEPT !.asleep = FALSE]
  OBVIOUS
<1>7. r \in Radios(sent) /\ Sound(r) /\ r.buf = None /\ r.rx = None
  BY <1>2, <1>6 DEF Radios, Modes, Sound, Idle
<1>8. radio' = [radio EXCEPT ![n] = r]
  BY <1>1, <1>6 DEF Shape
<1>9. NodeStep(n, r, proc[n], a)
  BY <1>1, <1>2, <1>5, <1>7, <1>8 DEF NodeStep, AppStep
<1>10. Drops(n, r, proc[n])
  BY <1>7 DEF Drops
<1>11. QuietStep(n, r, proc[n], a)
  BY <1>1, <1>4, <1>9, <1>10 DEF QuietStep
<1> QED BY <1>11

\* The chip is put to sleep.
LEMMA EnterSleepStep ==
    ASSUME Shape, NEW n \in Node, EnterSleep(n)
    PROVE  \E r, x, a : QuietStep(n, r, x, a)
<1>1. /\ radio' = [radio EXCEPT ![n] = [Idle(@) EXCEPT !.asleep = TRUE]]
      /\ app' = [app EXCEPT ![n].pc = "off", ![n].goal = NoNode]
      /\ UNCHANGED <<proc, sent, starts, texts, dist>>
  BY DEF EnterSleep
<1>2. /\ app[n] \in Apps /\ app \in [Node -> Apps] /\ radio[n] \in Radios(sent)
      /\ proc[n] \in Procs(sent) /\ proc' = [proc EXCEPT ![n] = proc[n]]
  BY <1>1 DEF Shape
<1>3. PICK a : a = [app[n] EXCEPT !.pc = "off", !.goal = NoNode]
  OBVIOUS
<1>4. a \in Apps /\ a.pc = "off"
  BY <1>2, <1>3 DEF Apps
<1>5. AppStep(n, a)
  BY <1>1, <1>2, <1>3, <1>4 DEF AppStep
<1>6. PICK r : r = [Idle(radio[n]) EXCEPT !.asleep = TRUE]
  OBVIOUS
<1>7. r \in Radios(sent) /\ Sound(r) /\ r.buf = None /\ r.rx = None
  BY <1>2, <1>6 DEF Radios, Modes, Sound, Idle
<1>8. radio' = [radio EXCEPT ![n] = r]
  BY <1>1, <1>6 DEF Shape
<1>9. NodeStep(n, r, proc[n], a)
  BY <1>1, <1>2, <1>5, <1>7, <1>8 DEF NodeStep, AppStep
<1>10. Drops(n, r, proc[n])
  BY <1>7 DEF Drops
<1>11. QuietStep(n, r, proc[n], a)
  BY <1>1, <1>4, <1>9, <1>10 DEF QuietStep
<1> QED BY <1>11

\* Steps of the program that test, and change its own state only.
LEMMA ProgramStep ==
    ASSUME Shape, NEW n \in Node,
           StartTest(n) \/ WaitEnd(n) \/ \E g \in Node : SendTest(n, g)
    PROVE  \E r, x, a : QuietStep(n, r, x, a)
<1>1. /\ app[n] \in Apps /\ app \in [Node -> Apps] /\ texts \in Nat /\ starts \in Nat
      /\ app[n].pc \in {"try", "go", "wait", "rest"} => app[n].goal \in Anchors[n]
  BY DEF Shape
<1>2. UNCHANGED <<radio, proc, sent, starts, dist>>
  BY DEF StartTest, WaitEnd, SendTest
<1>3. PICK r, x : /\ radio' = [radio EXCEPT ![n] = r] /\ r \in Radios(sent') /\ Sound(r)
                  /\ proc' = [proc EXCEPT ![n] = x] /\ x \in Procs(sent') /\ Drops(n, r, x)
  BY <1>2, Untouched
<1>4. ASSUME NEW a, AppStep(n, a), texts' \in {texts, texts + 1},
             a.pc \in {"try", "go"} => app[n].pc \in {"try", "go"},
             texts' = texts => a.pc # "send"
      PROVE  QuietStep(n, r, x, a)
  <2>1. NodeStep(n, r, x, a)
    BY <1>2, <1>3, <1>4 DEF NodeStep, AppStep
  <2> QED BY <1>2, <1>3, <1>4, <2>1 DEF QuietStep
<1>5. CASE StartTest(n)
  <2>1. /\ app[n].pc = "try" /\ UNCHANGED texts
        /\ app' = [app EXCEPT ![n].pc = "go"] \/ app' = [app EXCEPT ![n].meas = TRUE]
    BY <1>5 DEF StartTest
  <2>2. PICK pc \in {"go", "try"}, b \in BOOLEAN :
           app' = [app EXCEPT ![n] = [app[n] EXCEPT !.pc = pc, !.meas = b]]
    <3>1. CASE app' = [app EXCEPT ![n].pc = "go"]
      <4>1. [app[n] EXCEPT !.pc = "go", !.meas = app[n].meas] = [app[n] EXCEPT !.pc = "go"]
            /\ app[n].meas \in BOOLEAN
        BY <1>1 DEF Apps
      <4> QED BY <1>1, <3>1, <4>1
    <3>2. CASE app' = [app EXCEPT ![n].meas = TRUE]
      <4>1. [app[n] EXCEPT !.pc = "try", !.meas = TRUE] = [app[n] EXCEPT !.meas = TRUE]
        BY <1>1, <2>1 DEF Apps
      <4> QED BY <1>1, <3>2, <4>1
    <3> QED BY <2>1, <3>1, <3>2
  <2>3. PICK a : a = [app[n] EXCEPT !.pc = pc, !.meas = b]
    OBVIOUS
  <2>4. a \in Apps /\ a.pc = pc /\ a.goal = app[n].goal
    BY <1>1, <2>3 DEF Apps
  <2>5. AppStep(n, a)
    BY <1>1, <2>1, <2>2, <2>3, <2>4 DEF AppStep
  <2>6. QuietStep(n, r, x, a)
    BY <1>4, <2>1, <2>4, <2>5
  <2> QED BY <2>6
<1>6. CASE WaitEnd(n)
  <2>1. app[n].pc = "wait" /\ app' = [app EXCEPT ![n].pc = "rest"] /\ UNCHANGED texts
    BY <1>6 DEF WaitEnd
  <2>2. PICK a : a = [app[n] EXCEPT !.pc = "rest"]
    OBVIOUS
  <2>3. a \in Apps /\ a.pc = "rest" /\ a.goal = app[n].goal
    BY <1>1, <2>2 DEF Apps
  <2>4. AppStep(n, a)
    BY <1>1, <2>1, <2>2, <2>3 DEF AppStep
  <2>5. QuietStep(n, r, x, a)
    BY <1>4, <2>1, <2>3, <2>4
  <2> QED BY <2>5
<1>7. CASE \E g \in Node : SendTest(n, g)
  <2>1. PICK g \in Node : SendTest(n, g)
    BY <1>7
  <2>2. /\ g \in Friends[n] /\ texts' = texts + 1
        /\ app' = [app EXCEPT ![n].pc = "send", ![n].goal = g]
    BY <2>1 DEF SendTest
  <2>3. PICK a : a = [app[n] EXCEPT !.pc = "send", !.goal = g]
    OBVIOUS
  <2>4. a \in Apps /\ a.pc = "send" /\ a.goal = g
    BY <1>1, <2>3 DEF Apps
  <2>5. AppStep(n, a)
    BY <1>1, <2>2, <2>3, <2>4 DEF AppStep
  <2>6. QuietStep(n, r, x, a)
    BY <1>1, <1>4, <2>2, <2>4, <2>5
  <2> QED BY <2>6
<1> QED BY <1>5, <1>6, <1>7

\* The first packet is sent.
LEMMA StartRangingStep ==
    ASSUME Shape, NEW n \in Node, StartRanging(n)
    PROVE  \E r, x, a, p :
             /\ NodeStep(n, r, x, a) /\ r.buf = p /\ r.rx = None /\ p \in Pkts(sent + 1)
             /\ UNCHANGED <<starts, texts, dist>> /\ app[n].pc = "go" /\ a.pc = "wait"
             /\ p.type = "PS0" /\ p.src = n /\ p.dst = app[n].goal /\ p.id = x.last
             /\ app[n].goal \in Anchors[n]
             /\ x.role = "SOURCE" /\ x.id = x.last /\ x.idx = 0
             /\ x.last = IF proc[n].last = MaxId THEN 1 ELSE proc[n].last + 1
<1>1. PICK id : id = IF proc[n].last = MaxId THEN 1 ELSE proc[n].last + 1
  OBVIOUS
<1>2. /\ app[n].pc = "go" /\ app' = [app EXCEPT ![n].pc = "wait"]
      /\ proc' = [proc EXCEPT ![n] = [@ EXCEPT !.role = "SOURCE", !.id = id, !.idx = 0, !.last = id]]
      /\ Answer(n, Packet("PS0", n, app[n].goal, id)) /\ UNCHANGED dist
  BY <1>1 DEF StartRanging
<1>3. /\ app[n] \in Apps /\ app \in [Node -> Apps] /\ proc[n] \in Procs(sent + 1)
      /\ proc \in [Node -> Procs(sent)] /\ sent \in Nat
      /\ app[n].goal \in Anchors[n] /\ app[n].goal \in Node
  <2>1. /\ app[n] \in Apps /\ app \in [Node -> Apps] /\ proc[n] \in Procs(sent)
        /\ proc \in [Node -> Procs(sent)] /\ sent \in Nat /\ app[n].goal \in Anchors[n]
    BY <1>2 DEF Shape
  <2>2. app[n].goal \in Node
    BY <2>1, RangingAssumption
  <2>3. Procs(sent) \subseteq Procs(sent + 1)
    BY <2>1, Grow
  <2> QED BY <2>1, <2>2, <2>3
<1>4. id \in 0 .. MaxId
  <2>1. proc[n].last \in 0 .. MaxId
    BY <1>3 DEF Procs
  <2> QED BY <1>1, <2>1, RangingAssumption
<1>5. PICK p : p = Packet("PS0", n, app[n].goal, id)
  OBVIOUS
<1>6. p \in Pkts(sent + 1) /\ p.type = "PS0" /\ p.src = n /\ p.dst = app[n].goal /\ p.id = id
  <2>1. NoTimes \in Times(sent + 1) /\ sent + 1 \in 0 .. sent + 1
    BY <1>3 DEF NoTimes, Times
  <2> QED BY <1>3, <1>4, <1>5, <2>1 DEF Packet, Pkts, FromSource
<1>7. PICK x : x = [proc[n] EXCEPT !.role = "SOURCE", !.id = id, !.idx = 0, !.last = id]
  OBVIOUS
<1>8. x \in Procs(sent + 1) /\ x.role = "SOURCE" /\ x.id = id /\ x.idx = 0 /\ x.last = id
  <2>1. 0 \in 0 .. 3 /\ "SOURCE" \in Roles
    BY DEF Roles
  <2>2. x \in Procs(sent + 1)
    BY <1>3, <1>4, <1>7, <2>1 DEF Procs
  <2> QED BY <1>3, <1>7, <2>2 DEF Procs
<1>9. proc' = [proc EXCEPT ![n] = x]
  BY <1>2, <1>3, <1>7
<1>10. PICK a : a = [app[n] EXCEPT !.pc = "wait"]
  OBVIOUS
<1>11. a \in Apps /\ a.pc = "wait" /\ a.goal = app[n].goal
  BY <1>3, <1>10 DEF Apps
<1>12. AppStep(n, a)
  BY <1>2, <1>3, <1>10, <1>11 DEF AppStep
<1>13. PICK r : /\ radio' = [radio EXCEPT ![n] = r] /\ r \in Radios(sent + 1) /\ Sound(r)
                /\ r.buf = p /\ r.rx = None /\ sent' = sent + 1 /\ UNCHANGED <<starts, texts>>
  BY <1>2, <1>5, <1>6, AnswerRadio
<1>14. NodeStep(n, r, x, a)
  BY <1>8, <1>9, <1>12, <1>13 DEF NodeStep, AppStep
<1> QED BY <1>1, <1>2, <1>3, <1>6, <1>8, <1>11, <1>13, <1>14

\* A message is sent, or lost to the answer an interrupt is sending.
LEMMA SendMessageStep ==
    ASSUME Shape, NEW n \in Node, SendMessage(n)
    PROVE  \E r, a : NodeStep(n, r, proc[n], a) /\ app[n].pc = "send" /\ a.pc = "off"
                     /\ UNCHANGED <<starts, texts>>
<1>1. /\ app[n].pc = "send" /\ sent' = sent + 1 /\ UNCHANGED <<proc, starts, texts>>
      /\ app' = [app EXCEPT ![n].pc = "off", ![n].goal = NoNode]
      /\ \/ radio' = [radio EXCEPT ![n] = Transmit(@, Packet("TEXT", n, app[n].goal, 0))]
         \/ UNCHANGED radio
  BY DEF SendMessage
<1>2. /\ app[n] \in Apps /\ app \in [Node -> Apps] /\ proc[n] \in Procs(sent + 1)
      /\ proc' = [proc EXCEPT ![n] = proc[n]] /\ sent \in Nat /\ app[n].goal \in Node
      /\ radio[n] \in Radios(sent + 1) /\ Sound(radio[n]) /\ radio \in [Node -> Radios(sent)]
  <2>1. /\ app[n] \in Apps /\ app \in [Node -> Apps] /\ proc \in [Node -> Procs(sent)]
        /\ sent \in Nat /\ app[n].goal \in Friends[n]
        /\ radio \in [Node -> Radios(sent)] /\ Sound(radio[n])
    BY <1>1 DEF Shape
  <2>2. app[n].goal \in Node
    BY <2>1, RangingAssumption
  <2>3. Procs(sent) \subseteq Procs(sent + 1) /\ Radios(sent) \subseteq Radios(sent + 1)
    BY <2>1, Grow
  <2> QED BY <1>1, <2>1, <2>2, <2>3
<1>3. PICK p : p = Packet("TEXT", n, app[n].goal, 0)
  OBVIOUS
<1>4. p \in Pkts(sent + 1)
  <2>1. NoTimes \in Times(sent + 1) /\ sent + 1 \in 0 .. sent + 1 /\ 0 \in 0 .. MaxId
    BY <1>2, RangingAssumption DEF NoTimes, Times
  <2> QED BY <1>2, <1>3, <2>1 DEF Packet, Pkts
<1>5. PICK r : r \in Radios(sent + 1) /\ Sound(r) /\ radio' = [radio EXCEPT ![n] = r]
  <2>1. CASE UNCHANGED radio
    BY <1>2, <2>1
  <2>2. CASE radio' = [radio EXCEPT ![n] = Transmit(@, Packet("TEXT", n, app[n].goal, 0))]
    <3>1. PICK r : r = Transmit(radio[n], p)
      OBVIOUS
    <3>2. r \in Radios(sent + 1) /\ Sound(r)
      BY <1>2, <1>4, <3>1, SomePacket DEF Radios, Modes, Sound, Idle, Transmit
    <3>3. radio' = [radio EXCEPT ![n] = r]
      BY <1>2, <1>3, <2>2, <3>1
    <3> QED BY <3>2, <3>3
  <2> QED BY <1>1, <2>1, <2>2
<1>6. PICK a : a = [app[n] EXCEPT !.pc = "off", !.goal = NoNode]
  OBVIOUS
<1>7. a \in Apps /\ a.pc = "off"
  BY <1>2, <1>6 DEF Apps
<1>8. AppStep(n, a)
  BY <1>1, <1>2, <1>6, <1>7 DEF AppStep
<1>9. NodeStep(n, r, proc[n], a)
  BY <1>1, <1>2, <1>5, <1>8 DEF NodeStep, AppStep
<1> QED BY <1>1, <1>7, <1>9

\* A transmission ends: what becomes of the radios, and of the sender.
LEMMA TxDoneStep ==
    ASSUME Shape, NEW n \in Node, NEW heard, TxDone(n, heard)
    PROVE  \E q, x : /\ q = radio[n].buf /\ q \in Pkts(sent) /\ radio[n].rx = None
                     /\ radio' \in [Node -> Radios(sent)] /\ \A m \in Node : Sound(radio'[m])
                     /\ radio'[n].buf = None /\ radio'[n].rx = None
                     /\ \A m \in Node \ {n} :
                          /\ radio'[m].buf = radio[m].buf
                          /\ radio'[m].rx # radio[m].rx => m = q.dst /\ radio'[m].rx = q
                     /\ proc' = [proc EXCEPT ![n] = x] /\ x \in Procs(sent) /\ x.last = proc[n].last
                     /\ \/ x.role = "NONE"
                           /\ (proc[n].role = "NONE" \/ proc[n].idx > IF proc[n].role = "SOURCE" THEN 2 ELSE 3)
                        \/ x = proc[n] /\ proc[n].idx > 2 /\ proc[n].role # "SOURCE"
                        \/ /\ proc[n].idx <= 2 /\ proc[n].role # "NONE"
                           /\ x.role = proc[n].role /\ x.id = proc[n].id
                           /\ x.ts = [proc[n].ts EXCEPT ![proc[n].idx] = q.num]
                     /\ \E a : AppStep(n, a) /\ a.pc = app[n].pc
                     /\ UNCHANGED <<sent, starts, texts, dist>>
<1>1. PICK q, y : q = radio[n].buf /\ y = proc[n]
  OBVIOUS
<1>2. /\ q # None
      /\ heard \subseteq {m \in {q.dst} : radio[m].mode = "RX" /\ radio[m].rx = None /\ ~radio[m].asleep}
      /\ radio' = [m \in Node |->
           IF m = n THEN [radio[n] EXCEPT !.mode = "RX", !.buf = None]
           ELSE IF m \in heard THEN [radio[m] EXCEPT !.rx = q] ELSE radio[m]]
      /\ \/ /\ y.role = "NONE" \/ y.idx > IF y.role = "SOURCE" THEN 2 ELSE 3
            /\ proc' = [proc EXCEPT ![n] = Cancel(y)] /\ app' = Stop(n)
         \/ /\ ~(y.role = "NONE" \/ y.idx > IF y.role = "SOURCE" THEN 2 ELSE 3)
            /\ proc' = IF y.idx > 2 THEN proc ELSE [proc EXCEPT ![n].ts[y.idx] = q.num]
            /\ UNCHANGED app
      /\ UNCHANGED <<sent, starts, texts, dist>>
  BY <1>1 DEF TxDone
<1>3. /\ radio \in [Node -> Radios(sent)] /\ \A m \in Node : Sound(radio[m])
      /\ proc \in [Node -> Procs(sent)] /\ y \in Procs(sent) /\ sent \in Nat
      /\ q \in Pkts(sent) \cup {None} /\ app \in [Node -> Apps] /\ app[n] \in Apps
  BY <1>1 DEF Shape, Radios
<1>4. q \in Pkts(sent) /\ q.num \in 0 .. sent
  BY <1>2, <1>3 DEF Pkts
<1>5. radio[n].rx = None /\ radio[n].mode = "TX"
  BY <1>1, <1>2, <1>3 DEF Sound
<1>6. /\ radio'[n] = [radio[n] EXCEPT !.mode = "RX", !.buf = None]
      /\ \A m \in Node \ {n} : radio'[m] = IF m \in heard THEN [radio[m] EXCEPT !.rx = q] ELSE radio[m]
  BY <1>2
<1>7. /\ radio'[n] \in Radios(sent) /\ Sound(radio'[n])
      /\ radio'[n].buf = None /\ radio'[n].rx = None
  BY <1>3, <1>5, <1>6 DEF Radios, Modes, Sound
<1>8. ASSUME NEW m \in Node \ {n}
      PROVE  /\ radio'[m] \in Radios(sent) /\ Sound(radio'[m]) /\ radio'[m].buf = radio[m].buf
             /\ radio'[m].rx # radio[m].rx => m = q.dst /\ radio'[m].rx = q
  <2>1. radio[m] \in Radios(sent) /\ Sound(radio[m])
    BY <1>3
  <2>2. CASE m \in heard
    <3>1. m = q.dst /\ radio[m].mode = "RX"
      BY <1>2, <2>2
    <3>2. radio'[m] = [radio[m] EXCEPT !.rx = q]
      BY <1>6, <2>2
    <3> QED BY <1>4, <2>1, <3>1, <3>2 DEF Radios, Sound
  <2>3. CASE m \notin heard
    BY <1>6, <2>1, <2>3
  <2> QED BY <2>2, <2>3
<1>9. /\ radio' \in [Node -> Radios(sent)] /\ \A m \in Node : Sound(radio'[m])
      /\ \A m \in Node \ {n} : /\ radio'[m].buf = radio[m].buf
                               /\ radio'[m].rx # radio[m].rx => m = q.dst /\ radio'[m].rx = q
  <2>1. radio' = [m \in Node |-> radio'[m]]
    BY <1>2
  <2> QED BY <1>7, <1>8, <2>1
<1>10. \E a : AppStep(n, a) /\ a.pc = app[n].pc
  <2>1. CASE app' = Stop(n)
    <3>1. PICK a \in Apps : app' = [app EXCEPT ![n] = a] /\ a.pc = app[n].pc /\ a.goal = app[n].goal
      BY <2>1, Stopped
    <3>2. AppStep(n, a)
      BY <3>1 DEF Shape, AppStep
    <3> QED BY <3>1, <3>2
  <2>2. CASE UNCHANGED app
    <3>1. AppStep(n, app[n])
      BY <2>2, SameApp DEF AppStep
    <3> QED BY <3>1
  <2> QED BY <1>2, <2>1, <2>2
<1>11. \E x : /\ proc' = [proc EXCEPT ![n] = x] /\ x \in Procs(sent) /\ x.last = y.last
              /\ \/ x.role = "NONE" /\ (y.role = "NONE" \/ y.idx > IF y.role = "SOURCE" THEN 2 ELSE 3)
                 \/ x = y /\ y.idx > 2 /\ y.role # "SOURCE"
                 \/ /\ y.idx <= 2 /\ y.role # "NONE" /\ x.role = y.role /\ x.id = y.id
                    /\ x.ts = [y.ts EXCEPT ![y.idx] = q.num]
  <2>0. y.idx \in 0 .. 3 /\ y.ts \in [0 .. 2 -> 0 .. sent]
    BY <1>3 DEF Procs, Times
  <2>1. CASE y.role = "NONE" \/ y.idx > IF y.role = "SOURCE" THEN 2 ELSE 3
    <3>1. PICK x : x = Cancel(y)
      OBVIOUS
    <3>2. x \in Procs(sent) /\ x.role = "NONE" /\ x.last = y.last
      <4>1. 0 \in 0 .. MaxId /\ 0 \in 0 .. 3 /\ "NONE" \in Roles
        BY RangingAssumption DEF Roles
      <4> QED BY <1>3, <3>1, <4>1 DEF Procs, Cancel
    <3>3. proc' = [proc EXCEPT ![n] = x]
      BY <1>2, <2>1, <3>1
    <3> QED BY <2>1, <3>2, <3>3
  <2>2. CASE ~(y.role = "NONE" \/ y.idx > IF y.role = "SOURCE" THEN 2 ELSE 3) /\ y.idx > 2
    <3>1. proc' = [proc EXCEPT ![n] = y] /\ y.role # "SOURCE"
      BY <1>1, <1>2, <1>3, <2>2
    <3> QED BY <1>3, <2>2, <3>1
  <2>3. CASE ~(y.role = "NONE" \/ y.idx > IF y.role = "SOURCE" THEN 2 ELSE 3) /\ ~(y.idx > 2)
    <3>1. PICK i, t : i = y.idx /\ t = [y.ts EXCEPT ![i] = q.num]
      OBVIOUS
    <3>2. i \in 0 .. 2 /\ y.idx <= 2
      BY <2>0, <2>3, <3>1
    <3>3. t \in Times(sent)
      BY <1>4, <2>0, <3>1, <3>2 DEF Times
    <3>4. PICK x : x = [y EXCEPT !.ts = t]
      OBVIOUS
    <3>5. x \in Procs(sent) /\ x.role = y.role /\ x.id = y.id /\ x.ts = t /\ x.last = y.last
      BY <1>3, <3>3, <3>4 DEF Procs
    <3>6. proc' = [proc EXCEPT ![n] = x]
      <4>1. proc' = [proc EXCEPT ![n].ts[i] = q.num]
        BY <1>2, <2>3, <3>1
      <4>2. [y EXCEPT !.ts[i] = q.num] = x
        BY <3>1, <3>4
      <4> QED BY <1>1, <1>3, <4>1, <4>2
    <3> QED BY <2>3, <3>1, <3>2, <3>5, <3>6
  <2> QED BY <2>1, <2>2, <2>3
<1> QED BY <1>1, <1>2, <1>4, <1>5, <1>7, <1>9, <1>10, <1>11

\* Rangings are counted.
LEMMA CountStep ==
    ASSUME Shape, Counted, NEW n \in Node, NEW r, NEW x, NEW a, NodeStep(n, r, x, a),
           starts' <= MaxStarts, x.last + Owed(a) <= starts'
    PROVE  Counted'
<1>1. starts' >= starts /\ starts \in Nat /\ starts' \in Nat
  BY DEF Shape, NodeStep
<1>2. ASSUME NEW m \in Node
      PROVE  proc'[m].last + Owed(app'[m]) <= starts'
  <2>1. CASE m = n
    <3>1. proc'[n] = x /\ app'[n] = a
      BY DEF NodeStep, Shape
    <3> QED BY <2>1, <3>1
  <2>2. CASE m # n
    <3>1. proc'[m] = proc[m] /\ app'[m] = app[m]
      BY <2>2 DEF NodeStep, Shape
    <3>2. proc[m].last \in Nat /\ Owed(app[m]) \in Nat /\ proc[m].last + Owed(app[m]) <= starts
      <4>1. proc[m].last \in 0 .. MaxId
        BY DEF Shape, Procs
      <4> QED BY <4>1, RangingAssumption DEF Counted, Owed
    <3> QED BY <1>1, <3>1, <3>2
  <2> QED BY <2>1, <2>2
<1> QED BY <1>2 DEF Counted

\* A step of the program at which the number is kept.
LEMMA SameCount ==
    ASSUME Shape, Counted, NEW n \in Node, NEW r, NEW x, NEW a, NodeStep(n, r, x, a),
           UNCHANGED starts, x.last = proc[n].last, Owed(a) <= Owed(app[n])
    PROVE  Counted'
<1>1. proc[n].last \in 0 .. MaxId /\ starts \in Nat
  BY DEF Shape, Procs
<1>2. proc[n].last + Owed(app[n]) <= starts /\ starts <= MaxStarts
  BY DEF Counted
<1>3. Owed(a) \in {0, 1} /\ Owed(app[n]) \in {0, 1}
  BY DEF Owed
<1>4. x.last + Owed(a) <= starts'
  BY <1>1, <1>2, <1>3, RangingAssumption
<1> QED BY <1>2, <1>4, CountStep

\* A step in which no packet is made.
LEMMA QuietCount ==
    ASSUME Shape, Counted, NEW n \in Node, NEW r, NEW x, NEW a, QuietStep(n, r, x, a)
    PROVE  Shape' /\ Counted'
<1>1. NodeStep(n, r, x, a) /\ x.last = proc[n].last
  BY DEF QuietStep, Drops
<1>2. Shape'
  BY <1>1, NodeShape
<1>3. CASE starts' = starts /\ (a.pc \in {"try", "go"} => app[n].pc \in {"try", "go"})
  <2>1. Owed(a) <= Owed(app[n])
    BY <1>3 DEF Owed
  <2> QED BY <1>1, <1>2, <1>3, <2>1, SameCount
<1>4. CASE starts' = starts + 1 /\ starts < MaxStarts
  <2>1. proc[n].last \in 0 .. MaxId /\ starts \in Nat
    BY DEF Shape, Procs
  <2>2. proc[n].last + Owed(app[n]) <= starts
    BY DEF Counted
  <2>3. Owed(a) \in {0, 1} /\ Owed(app[n]) \in {0, 1}
    BY DEF Owed
  <2>4. x.last + Owed(a) <= starts' /\ starts' <= MaxStarts
    BY <1>1, <1>4, <2>1, <2>2, <2>3, RangingAssumption
  <2> QED BY <1>1, <1>2, <2>4, CountStep
<1> QED BY <1>3, <1>4 DEF QuietStep

\* The packet types that are handled, and the others, which are dropped.
LEMMA Handled ==
    ASSUME Shape, NEW n \in Node, Receive(n)
    PROVE  \/ HandleSourceTx1(n)
           \/ HandleSourceTx2(n) /\ Matches(n, "DESTINATION")
           \/ HandleSourceResult(n) /\ Matches(n, "DESTINATION")
           \/ HandleDestinationTx1(n) /\ Matches(n, "SOURCE")
           \/ HandleDestinationResult(n) /\ Matches(n, "SOURCE")
           \/ \E r : QuietStep(n, r, proc[n], app[n])
<1>1. ASSUME NEW t, t # "none", Got(n, t), Ignore(n)
      PROVE  \E r : QuietStep(n, r, proc[n], app[n])
  <2>1. PICK r : /\ NodeStep(n, r, proc[n], app[n]) /\ r.buf = radio[n].buf /\ r.rx = None
                 /\ UNCHANGED <<sent, starts, texts, dist>>
    BY <1>1, IgnoreStep
  <2>2. Drops(n, r, proc[n])
    BY <2>1 DEF Drops
  <2>3. QuietStep(n, r, proc[n], app[n])
    BY <2>1, <2>2 DEF QuietStep
  <2> QED BY <2>3
<1>2. CASE HandleSourceTx2(n) /\ ~Matches(n, "DESTINATION")
  <2>1. Got(n, "PS2") /\ Ignore(n)
    BY <1>2 DEF HandleSourceTx2
  <2> QED BY <1>1, <2>1
<1>3. CASE HandleSourceResult(n) /\ ~Matches(n, "DESTINATION")
  <2>1. Got(n, "PS4") /\ Ignore(n)
    BY <1>3 DEF HandleSourceResult
  <2> QED BY <1>1, <2>1
<1>4. CASE HandleDestinationTx1(n) /\ ~Matches(n, "SOURCE")
  <2>1. Got(n, "PD1") /\ Ignore(n)
    BY <1>4 DEF HandleDestinationTx1
  <2> QED BY <1>1, <2>1
<1>5. CASE HandleDestinationResult(n) /\ ~Matches(n, "SOURCE")
  <2>1. Got(n, "PD3") /\ Ignore(n)
    BY <1>5 DEF HandleDestinationResult
  <2> QED BY <1>1, <2>1
<1>6. CASE HandleMessage(n)
  <2>1. Got(n, "TEXT") /\ Ignore(n)
    BY <1>6 DEF HandleMessage
  <2> QED BY <1>1, <2>1
<1> QED BY <1>2, <1>3, <1>4, <1>5, <1>6 DEF Receive

\* The other steps.
LEMMA Others ==
    ASSUME Shape, NEW n \in Node, SysTick(n) \/ Main(n) \/ Call(n)
    PROVE  \/ \E r, x, a : QuietStep(n, r, x, a)
           \/ StartRanging(n)
           \/ SendMessage(n)
<1>1. CASE SysTick(n)
  BY <1>1, SysTickStep
<1>2. CASE TickTest(n)
  BY <1>2, TickTestStep
<1>3. CASE TickExpire(n)
  BY <1>3, TickExpireStep
<1>4. CASE StartTest(n) \/ WaitEnd(n) \/ \E g \in Node : SendTest(n, g)
  BY <1>4, ProgramStep
<1>5. CASE EnterSleep(n)
  BY <1>5, EnterSleepStep
<1>6. ASSUME NEW g \in Node, Distanz(n, g)
      PROVE  \E r, x, a : QuietStep(n, r, x, a)
  BY <1>6, DistanzStep
<1> QED BY <1>1, <1>2, <1>3, <1>4, <1>5, <1>6 DEF Main, Call

\* The types and the count are kept.
LEMMA ShapeStep == Shape /\ Counted /\ [Next]_vars => Shape' /\ Counted'
<1> SUFFICES ASSUME Shape, Counted, [Next]_vars
             PROVE  Shape' /\ Counted'
  OBVIOUS
<1>1. CASE UNCHANGED vars
  BY <1>1 DEF vars, Shape, Counted
<1>2. ASSUME NEW n \in Node, NEW r, NEW x, NEW a, NodeStep(n, r, x, a),
             UNCHANGED starts, x.last = proc[n].last, a.pc = app[n].pc
      PROVE  Shape' /\ Counted'
  <2>1. Owed(a) <= Owed(app[n])
    BY <1>2 DEF Owed
  <2> QED BY <1>2, <2>1, NodeShape, SameCount
<1>3. ASSUME NEW n \in Node, NEW heard, TxDone(n, heard)
      PROVE  Shape' /\ Counted'
  <2>1. PICK x, a : /\ radio' \in [Node -> Radios(sent)] /\ \A m \in Node : Sound(radio'[m])
                    /\ proc' = [proc EXCEPT ![n] = x] /\ x \in Procs(sent) /\ x.last = proc[n].last
                    /\ AppStep(n, a) /\ a.pc = app[n].pc
                    /\ UNCHANGED <<sent, starts, texts, dist>>
    BY <1>3, TxDoneStep
  <2>2. Shape'
    BY <2>1 DEF Shape, AppStep
  <2>3. \A m \in Node : proc'[m].last = proc[m].last /\ app'[m].pc = app[m].pc
    BY <2>1 DEF AppStep, Shape
  <2>4. Counted'
    BY <2>1, <2>3 DEF Counted, Owed
  <2> QED BY <2>2, <2>4
<1>4. ASSUME NEW n \in Node, Receive(n)
      PROVE  Shape' /\ Counted'
  <2>1. CASE HandleSourceTx1(n)
    <3>1. PICK r, x : NodeStep(n, r, x, app[n]) /\ UNCHANGED starts /\ x.last = proc[n].last
      BY <2>1, SourceTx1Step
    <3> QED BY <1>2, <3>1
  <2>2. CASE HandleSourceTx2(n) /\ Matches(n, "DESTINATION")
    <3>1. PICK r, x : NodeStep(n, r, x, app[n]) /\ UNCHANGED starts /\ x.last = proc[n].last
      BY <2>2, SourceTx2Step
    <3> QED BY <1>2, <3>1
  <2>3. CASE HandleSourceResult(n) /\ Matches(n, "DESTINATION")
    <3>1. PICK r, x, a : NodeStep(n, r, x, a) /\ Drops(n, r, x) /\ UNCHANGED starts /\ a.pc = app[n].pc
      BY <2>3, SourceResultStep
    <3>2. x.last = proc[n].last
      BY <3>1 DEF Drops
    <3> QED BY <1>2, <3>1, <3>2
  <2>4. CASE HandleDestinationTx1(n) /\ Matches(n, "SOURCE")
    <3>1. PICK r, x : NodeStep(n, r, x, app[n]) /\ UNCHANGED starts /\ x.last = proc[n].last
      BY <2>4, DestinationTx1Step
    <3> QED BY <1>2, <3>1
  <2>5. CASE HandleDestinationResult(n) /\ Matches(n, "SOURCE")
    <3>1. PICK r, x, a : /\ NodeStep(n, r, x, a) /\ UNCHANGED starts /\ x.last = proc[n].last
                         /\ a.pc = app[n].pc
      BY <2>5, DestinationResultStep
    <3> QED BY <1>2, <3>1
  <2>6. CASE \E r : QuietStep(n, r, proc[n], app[n])
    BY <2>6, QuietCount
  <2> QED BY <1>4, <2>1, <2>2, <2>3, <2>4, <2>5, <2>6, Handled
<1>5. ASSUME NEW n \in Node, SysTick(n) \/ Main(n) \/ Call(n)
      PROVE  Shape' /\ Counted'
  <2>1. CASE \E r, x, a : QuietStep(n, r, x, a)
    BY <2>1, QuietCount
  <2>2. CASE StartRanging(n)
    <3>1. PICK r, x, a : /\ NodeStep(n, r, x, a) /\ UNCHANGED starts /\ app[n].pc = "go" /\ a.pc = "wait"
                         /\ x.last = IF proc[n].last = MaxId THEN 1 ELSE proc[n].last + 1
      BY <2>2, StartRangingStep
    <3>2. proc[n].last \in 0 .. MaxId /\ starts \in Nat
      BY DEF Shape, Procs
    <3>3. Owed(a) = 0 /\ Owed(app[n]) = 1
      BY <3>1 DEF Owed
    <3>4. proc[n].last + Owed(app[n]) <= starts /\ starts <= MaxStarts
      BY DEF Counted
    <3>5. x.last + Owed(a) <= starts'
      BY <3>1, <3>2, <3>3, <3>4, RangingAssumption
    <3> QED BY <3>1, <3>4, <3>5, NodeShape, CountStep
  <2>3. CASE SendMessage(n)
    <3>1. PICK r, a : /\ NodeStep(n, r, proc[n], a) /\ app[n].pc = "send" /\ a.pc = "off"
                      /\ UNCHANGED starts
      BY <2>3, SendMessageStep
    <3>2. Owed(a) <= Owed(app[n])
      BY <3>1 DEF Owed
    <3> QED BY <3>1, <3>2, NodeShape, SameCount
  <2> QED BY <1>5, <2>1, <2>2, <2>3, Others
<1> QED BY <1>1, <1>3, <1>4, <1>5 DEF Next

\* The initial state.
LEMMA ShapeInit == Init => Shape /\ Counted
<1> SUFFICES ASSUME Init
             PROVE  Shape /\ Counted
  OBVIOUS
<1>1. NoTimes \in Times(0) /\ 0 \in 0 .. MaxId /\ 0 \in 0 .. 3 /\ "NONE" \in Roles
  BY RangingAssumption DEF NoTimes, Times, Roles
<1>2. /\ radio \in [Node -> Radios(sent)] /\ \A n \in Node : Sound(radio[n])
  BY DEF Init, Radios, Modes, Sound
<1>3. proc \in [Node -> Procs(sent)]
  BY <1>1 DEF Init, Procs
<1>4. app \in [Node -> Apps] /\ \A n \in Node : app[n].pc = "off"
  BY DEF Init, Apps
<1>5. Shape
  BY <1>2, <1>3, <1>4 DEF Shape, Init
<1>6. Counted
  BY <1>4, RangingAssumption DEF Counted, Init, Owed
<1> QED BY <1>5, <1>6

\* A radio in TX mode is sending, whatever the nodes, the packets that are
\* lost and the timeouts: uwbranging_startRanging is not refused for ever.
THEOREM TransmissionsEnd == Spec => []TxEnds
<1>1. Shape => TxEnds
  <2> SUFFICES ASSUME Shape
               PROVE  TxEnds
    OBVIOUS
  <2>1. ASSUME NEW n \in Node
        PROVE  /\ radio[n].mode \in {"IDLE", "TX", "RX"}
               /\ radio[n].buf.type \in PacketTypes /\ radio[n].rx.type \in PacketTypes
               /\ radio[n].mode = "TX" => radio[n].buf # None
    <3>1. radio[n] \in Radios(sent) /\ Sound(radio[n])
      BY DEF Shape
    <3>2. \A p \in Pkts(sent) \cup {None} : p.type \in PacketTypes
      BY DEF Pkts, None, PacketTypes, FromSource, FromDestination
    <3> QED BY <3>1, <3>2 DEF Radios, Modes, Sound
  <2>2. ASSUME NEW n \in Node
        PROVE  /\ proc[n].role \in {"NONE", "SOURCE", "DESTINATION"}
               /\ proc[n].id \in 0 .. MaxId /\ proc[n].last \in 0 .. MaxId
               /\ proc[n].idx \in 0 .. 3 /\ proc[n].ts \in [0 .. 2 -> 0 .. sent]
    BY DEF Shape, Procs, Roles, Times
  <2>3. ASSUME NEW n \in Node
        PROVE  /\ app[n].pc \in {"off", "try", "go", "wait", "rest", "send"}
               /\ app[n].meas \in BOOLEAN /\ app[n].late \in BOOLEAN
    BY DEF Shape, Apps
  <2> QED BY <2>1, <2>2, <2>3 DEF TxEnds, TypeOK
<1> QED BY <1>1, ShapeInit, ShapeStep, PTL DEF Spec

(***************************************************************************)
(* Part 3.  What a step does to the packets of other rangings.             *)
(***************************************************************************)
\* A packet that is somewhere.
LEMMA Somewhere ==
    ASSUME NEW R, NEW P, Token(R, P), NEW n \in Node, NEW k \in {0, 1}, NEW p, p = In(R[n], k), p # None
    PROVE  /\ p.type \in FromSource \cup FromDestination /\ Src(p) \in Node
           /\ Anc(p) \in Anchors[Src(p)] /\ Anc(p) \in Node /\ Anc(p) # Src(p)
           /\ p.id \in 1 .. P[Src(p)].last
           /\ k = 0 => n = p.src /\ Agree(p, 0, P[Src(p)], P[Anc(p)])
           /\ k = 1 => n = p.dst /\ Agree(p, 1, P[Src(p)], P[Anc(p)])
<1>1. /\ p.type \in FromSource \cup FromDestination /\ Src(p) \in Node
      /\ Anc(p) \in Anchors[Src(p)] /\ p.id \in 1 .. P[Src(p)].last
      /\ k = 0 => n = p.src
      /\ k = 1 => n = p.dst
  BY DEF Token, Placed
<1>2. Anc(p) \in Node /\ Anc(p) # Src(p)
  BY <1>1, RangingAssumption
<1>3. Agree(p, k, P[Src(p)], P[Anc(p)])
  BY DEF Token, Agreed
<1> QED BY <1>1, <1>2, <1>3

\* A node that leaves the ranging has to agree on nothing.
LEMMA Weaker ==
    ASSUME NEW p, NEW k, NEW x, NEW y, NEW u, NEW v, Agree(p, k, x, y),
           u = x \/ ~IsSrc(p, u), v = y \/ ~IsDst(p, v)
    PROVE  Agree(p, k, u, v)
BY DEF Agree

\* Packets are only dropped.
LEMMA DropToken ==
    ASSUME NEW R, NEW P, NEW S, NEW Q, Token(R, P), NEW n \in Node,
           \A m \in Node \ {n} : S[m] = R[m] /\ Q[m] = P[m],
           S[n].buf \in {None, R[n].buf}, S[n].rx \in {None, R[n].rx}, Q[n].last = P[n].last,
           Q[n] = P[n] \/ (Q[n].role = "NONE" /\ S[n].buf = None)
    PROVE  Token(S, Q)
<1>1. \A m \in Node : \A k \in {0, 1} : In(S[m], k) # None => In(S[m], k) = In(R[m], k)
  BY DEF In
<1>2. \A m \in Node : Q[m].last = P[m].last /\ (Q[m] = P[m] \/ Q[m].role = "NONE")
  OBVIOUS
<1>3. Single(S)
  BY <1>1 DEF Token, Single
<1>4. Placed(S, Q)
  BY <1>1, <1>2 DEF Token, Placed
<1>5. Sending(S, Q)
  BY DEF Token, Sending
<1>6. ASSUME NEW m \in Node, NEW k \in {0, 1}, In(S[m], k) # None
      PROVE  Agree(In(S[m], k), k, Q[Src(In(S[m], k))], Q[Anc(In(S[m], k))])
  <2>1. PICK p : p = In(R[m], k)
    OBVIOUS
  <2>2. p # None /\ In(S[m], k) = p
    BY <1>1, <1>6, <2>1
  <2>3. Src(p) \in Node /\ Anc(p) \in Node /\ Agree(p, k, P[Src(p)], P[Anc(p)])
    BY <2>1, <2>2, Somewhere
  <2>4. PICK x, y, u, v : x = P[Src(p)] /\ y = P[Anc(p)] /\ u = Q[Src(p)] /\ v = Q[Anc(p)]
    OBVIOUS
  <2>5. (u = x \/ ~IsSrc(p, u)) /\ (v = y \/ ~IsDst(p, v))
    BY <1>2, <2>3, <2>4 DEF IsSrc, IsDst
  <2>6. Agree(p, k, u, v)
    BY <2>3, <2>4, <2>5, Weaker
  <2> QED BY <2>2, <2>4, <2>6
<1> QED BY <1>3, <1>4, <1>5, <1>6 DEF Token, Agreed

\* The sender of q, which is in the ranging of q or in none, is not in the
\* ranging of another packet p.
LEMMA NotMine ==
    ASSUME Exclusive, NEW q, NEW p, NEW n \in Node, NEW x, n = q.src, ~Same(p, q),
           x.role # "NONE" => /\ x.role = IF q.type \in FromSource THEN "SOURCE" ELSE "DESTINATION"
                              /\ x.id = q.id,
           q.type \in FromSource \cup FromDestination, Src(q) \in Node, Anc(q) \in Anchors[Src(q)],
           Src(p) \in Node, Anc(p) \in Anchors[Src(p)]
    PROVE  /\ Src(p) = n => ~IsSrc(p, x)
           /\ Anc(p) = n => ~IsDst(p, x)
<1>1. CASE x.role = "NONE"
  BY <1>1 DEF IsSrc, IsDst
<1>2. CASE x.role # "NONE" /\ q.type \in FromSource
  <2>1. Src(q) = n /\ x.role = "SOURCE" /\ x.id = q.id
    BY <1>2 DEF Src
  <2> QED BY <2>1 DEF IsSrc, IsDst, Same
<1>3. CASE x.role # "NONE" /\ q.type \notin FromSource
  <2>1. Anc(q) = n /\ x.role = "DESTINATION" /\ x.id = q.id
    BY <1>3 DEF Anc
  <2>2. Anc(p) = n => Src(p) = Src(q)
    BY <2>1 DEF Exclusive
  <2> QED BY <2>1, <2>2 DEF IsSrc, IsDst, Same
<1> QED BY <1>1, <1>2, <1>3

\* Node n begins to send packet q, and drops what it has received.
LEMMA PutToken ==
    ASSUME Exclusive, NEW R, NEW P, NEW S, NEW Q, Token(R, P), NEW n \in Node,
           \A m \in Node \ {n} : S[m] = R[m] /\ Q[m] = P[m],
           NEW q, S[n].buf = q, S[n].rx = None, q # None, q.src = n,
           P[n].last \in Int, Q[n].last \in Int, P[n].last <= Q[n].last,
           \A m \in Node \ {n} : \A k \in {0, 1} : In(R[m], k) # None => ~Same(In(R[m], k), q),
           q.type \in FromSource \cup FromDestination, Src(q) \in Node, Anc(q) \in Anchors[Src(q)],
           q.id \in 1 .. Q[Src(q)].last,
           Q[n].role = IF q.type \in FromSource THEN "SOURCE" ELSE "DESTINATION",
           Q[n].id = q.id, Q[n].idx = Step(q), Agree(q, 0, Q[Src(q)], Q[Anc(q)])
    PROVE  Token(S, Q)
<1>1. ASSUME NEW m \in Node, NEW k \in {0, 1}, In(S[m], k) # None
      PROVE  \/ m = n /\ k = 0 /\ In(S[m], k) = q
             \/ m # n /\ In(S[m], k) = In(R[m], k) /\ ~Same(In(R[m], k), q)
  <2>1. CASE m = n
    BY <1>1, <2>1 DEF In
  <2>2. CASE m # n
    <3>1. In(S[m], k) = In(R[m], k)
      BY <2>2 DEF In
    <3> QED BY <1>1, <2>2, <3>1
  <2> QED BY <2>1, <2>2
<1>2. Single(S)
  <2> SUFFICES ASSUME NEW a \in Node, NEW b \in Node, NEW j \in {0, 1}, NEW k \in {0, 1},
                      In(S[a], j) # None, In(S[b], k) # None, Same(In(S[a], j), In(S[b], k))
               PROVE  a = b /\ j = k
    BY DEF Single
  <2>1. \A c, d : Same(c, d) => Same(d, c)
    BY DEF Same
  <2>2. PICK c, d : c = In(S[a], j) /\ d = In(S[b], k)
    OBVIOUS
  <2>3. /\ \/ a = n /\ j = 0 /\ c = q
           \/ a # n /\ c = In(R[a], j) /\ ~Same(c, q)
        /\ \/ b = n /\ k = 0 /\ d = q
           \/ b # n /\ d = In(R[b], k) /\ ~Same(d, q)
        /\ Same(c, d) /\ c # None /\ d # None
    BY <1>1, <2>2
  <2>4. CASE a = n /\ b = n
    BY <2>3, <2>4
  <2>5. CASE a # n /\ b # n
    <3>1. In(R[a], j) # None /\ In(R[b], k) # None /\ Same(In(R[a], j), In(R[b], k))
      BY <2>3, <2>5
    <3> QED BY <3>1 DEF Token, Single
  <2>6. CASE (a = n) # (b = n)
    BY <2>1, <2>3, <2>6
  <2> QED BY <2>4, <2>5, <2>6
<1>3. Placed(S, Q)
  <2>1. ASSUME NEW m \in Node, NEW k \in {0, 1}, NEW p, p = In(S[m], k), p # None
        PROVE  /\ p.type \in FromSource \cup FromDestination /\ Src(p) \in Node
               /\ Anc(p) \in Anchors[Src(p)] /\ p.id \in 1 .. Q[Src(p)].last
               /\ m = IF k = 0 THEN p.src ELSE p.dst
    <3>1. CASE m = n /\ k = 0 /\ p = q
      BY <3>1
    <3>2. CASE p = In(R[m], k)
      <4>1. /\ p.type \in FromSource \cup FromDestination /\ Src(p) \in Node
            /\ Anc(p) \in Anchors[Src(p)] /\ p.id \in 1 .. P[Src(p)].last
            /\ m = IF k = 0 THEN p.src ELSE p.dst
        BY <2>1, <3>2 DEF Token, Placed
      <4>2. p.id \in 1 .. Q[Src(p)].last
        <5>1. CASE Src(p) = n
          BY <4>1, <5>1
        <5>2. CASE Src(p) # n
          BY <4>1, <5>2
        <5> QED BY <5>1, <5>2
      <4> QED BY <4>1, <4>2
    <3> QED BY <1>1, <2>1, <3>1, <3>2
  <2> QED BY <2>1 DEF Placed
<1>4. Sending(S, Q)
  <2>1. ASSUME NEW m \in Node, NEW p, p = S[m].buf, p # None
        PROVE  /\ Q[m].role = IF p.type \in FromSource THEN "SOURCE" ELSE "DESTINATION"
               /\ Q[m].id = p.id /\ Q[m].idx = Step(p)
    <3>1. CASE m = n
      BY <2>1, <3>1
    <3>2. CASE m # n
      <4>1. S[m] = R[m] /\ Q[m] = P[m]
        BY <3>2
      <4> QED BY <2>1, <4>1 DEF Token, Sending
    <3> QED BY <3>1, <3>2
  <2> QED BY <2>1 DEF Sending
<1>5. Agreed(S, Q)
  <2>1. ASSUME NEW m \in Node, NEW k \in {0, 1}, NEW p, p = In(S[m], k), p # None
        PROVE  Agree(p, k, Q[Src(p)], Q[Anc(p)])
    <3>1. CASE m = n /\ k = 0 /\ p = q
      BY <3>1
    <3>2. CASE p = In(R[m], k) /\ ~Same(p, q)
      <4>1. /\ Src(p) \in Node /\ Anc(p) \in Anchors[Src(p)] /\ Anc(p) \in Node
            /\ Agree(p, k, P[Src(p)], P[Anc(p)])
        BY <2>1, <3>2, Somewhere
      <4>2. PICK x : x = Q[n]
        OBVIOUS
      <4>3. /\ Src(p) = n => ~IsSrc(p, x)
            /\ Anc(p) = n => ~IsDst(p, x)
        BY <3>2, <4>1, <4>2, NotMine
      <4>4. PICK u, v : u = Q[Src(p)] /\ v = Q[Anc(p)]
        OBVIOUS
      <4>5. (u = P[Src(p)] \/ ~IsSrc(p, u)) /\ (v = P[Anc(p)] \/ ~IsDst(p, v))
        BY <4>1, <4>2, <4>3, <4>4
      <4>6. Agree(p, k, u, v)
        BY <4>1, <4>5, Weaker
      <4> QED BY <4>4, <4>6
    <3> QED BY <1>1, <2>1, <3>1, <3>2
  <2> QED BY <2>1 DEF Agreed
<1> QED BY <1>2, <1>3, <1>4, <1>5 DEF Token

\* The packet q that node n has sent is received, or lost.
LEMMA DeliverToken ==
    ASSUME Exclusive, NEW R, NEW P, NEW S, NEW Q, Token(R, P), NEW n \in Node,
           NEW q, q = R[n].buf, q # None, S[n].buf = None, S[n].rx = None,
           \A m \in Node \ {n} : /\ Q[m] = P[m] /\ S[m].buf = R[m].buf
                                 /\ S[m].rx # R[m].rx => m = q.dst /\ S[m].rx = q,
           Q[n].last = P[n].last,
           Q[n].role # "NONE" => Q[n].role = P[n].role /\ Q[n].id = P[n].id,
           Agree(q, 1, Q[Src(q)], Q[Anc(q)])
    PROVE  Token(S, Q)
<1>0. /\ q.type \in FromSource \cup FromDestination /\ Src(q) \in Node
      /\ Anc(q) \in Anchors[Src(q)] /\ q.id \in 1 .. P[Src(q)].last /\ q.src = n
      /\ Q[n].role # "NONE" => /\ Q[n].role = IF q.type \in FromSource THEN "SOURCE" ELSE "DESTINATION"
                               /\ Q[n].id = q.id
  <2>1. q = In(R[n], 0)
    BY DEF In
  <2>2. /\ q.type \in FromSource \cup FromDestination /\ Src(q) \in Node
        /\ Anc(q) \in Anchors[Src(q)] /\ q.id \in 1 .. P[Src(q)].last /\ q.src = n
    BY <2>1, Somewhere
  <2>3. /\ P[n].role = IF q.type \in FromSource THEN "SOURCE" ELSE "DESTINATION"
        /\ P[n].id = q.id
    BY DEF Token, Sending
  <2> QED BY <2>2, <2>3
<1>1. ASSUME NEW m \in Node, NEW k \in {0, 1}, In(S[m], k) # None
      PROVE  \/ m = q.dst /\ k = 1 /\ In(S[m], k) = q
             \/ m # n /\ In(S[m], k) = In(R[m], k) /\ ~Same(In(R[m], k), q)
  <2>1. m # n
    BY <1>1 DEF In
  <2>2. CASE In(S[m], k) = In(R[m], k)
    <3>1. ~Same(In(R[m], k), In(R[n], 0))
      BY <1>1, <2>1, <2>2 DEF Token, Single, In
    <3> QED BY <2>1, <2>2, <3>1 DEF In
  <2>3. CASE In(S[m], k) # In(R[m], k)
    BY <2>1, <2>3 DEF In
  <2> QED BY <2>2, <2>3
<1>2. Single(S)
  <2> SUFFICES ASSUME NEW a \in Node, NEW b \in Node, NEW j \in {0, 1}, NEW k \in {0, 1},
                      In(S[a], j) # None, In(S[b], k) # None, Same(In(S[a], j), In(S[b], k))
               PROVE  a = b /\ j = k
    BY DEF Single
  <2>1. \A c, d : (Same(c, d) => Same(d, c)) /\ Same(c, c)
    BY DEF Same
  <2>2. PICK c, d : c = In(S[a], j) /\ d = In(S[b], k)
    OBVIOUS
  <2>3. /\ \/ a = q.dst /\ j = 1 /\ c = q
           \/ c = In(R[a], j) /\ ~Same(c, q)
        /\ \/ b = q.dst /\ k = 1 /\ d = q
           \/ d = In(R[b], k) /\ ~Same(d, q)
        /\ Same(c, d) /\ c # None /\ d # None
    BY <1>1, <2>2
  <2>4. CASE c = q /\ d = q
    BY <2>1, <2>3, <2>4
  <2>5. CASE c # q /\ d # q
    <3>1. In(R[a], j) # None /\ In(R[b], k) # None /\ Same(In(R[a], j), In(R[b], k))
      BY <2>3, <2>5
    <3> QED BY <3>1 DEF Token, Single
  <2>6. CASE (c = q) # (d = q)
    BY <2>1, <2>3, <2>6
  <2> QED BY <2>4, <2>5, <2>6
<1>3. Placed(S, Q)
  <2>1. ASSUME NEW m \in Node, NEW k \in {0, 1}, NEW p, p = In(S[m], k), p # None
        PROVE  /\ p.type \in FromSource \cup FromDestination /\ Src(p) \in Node
               /\ Anc(p) \in Anchors[Src(p)] /\ p.id \in 1 .. Q[Src(p)].last
               /\ m = IF k = 0 THEN p.src ELSE p.dst
    <3>0. \A o \in Node : Q[o].last = P[o].last
      OBVIOUS
    <3>1. CASE m = q.dst /\ k = 1 /\ p = q
      BY <1>0, <3>0, <3>1
    <3>2. CASE p = In(R[m], k)
      <4>1. /\ p.type \in FromSource \cup FromDestination /\ Src(p) \in Node
            /\ Anc(p) \in Anchors[Src(p)] /\ p.id \in 1 .. P[Src(p)].last
            /\ m = IF k = 0 THEN p.src ELSE p.dst
        BY <2>1, <3>2 DEF Token, Placed
      <4> QED BY <3>0, <4>1
    <3> QED BY <1>1, <2>1, <3>1, <3>2
  <2> QED BY <2>1 DEF Placed
<1>4. Sending(S, Q)
  <2>1. ASSUME NEW m \in Node, NEW p, p = S[m].buf, p # None
        PROVE  /\ Q[m].role = IF p.type \in FromSource THEN "SOURCE" ELSE "DESTINATION"
               /\ Q[m].id = p.id /\ Q[m].idx = Step(p)
    <3>1. S[m].buf = R[m].buf /\ Q[m] = P[m]
      BY <2>1
    <3> QED BY <2>1, <3>1 DEF Token, Sending
  <2> QED BY <2>1 DEF Sending
<1>5. Agreed(S, Q)
  <2>1. ASSUME NEW m \in Node, NEW k \in {0, 1}, NEW p, p = In(S[m], k), p # None
        PROVE  Agree(p, k, Q[Src(p)], Q[Anc(p)])
    <3>1. CASE m = q.dst /\ k = 1 /\ p = q
      BY <3>1
    <3>2. CASE p = In(R[m], k) /\ ~Same(p, q)
      <4>1. /\ Src(p) \in Node /\ Anc(p) \in Anchors[Src(p)] /\ Anc(p) \in Node
            /\ Agree(p, k, P[Src(p)], P[Anc(p)])
        BY <2>1, <3>2, Somewhere
      <4>2. PICK x : x = Q[n]
        OBVIOUS
      <4>3. /\ Src(p) = n => ~IsSrc(p, x)
            /\ Anc(p) = n => ~IsDst(p, x)
        BY <1>0, <3>2, <4>1, <4>2, NotMine
      <4>4. PICK u, v : u = Q[Src(p)] /\ v = Q[Anc(p)]
        OBVIOUS
      <4>5. (u = P[Src(p)] \/ ~IsSrc(p, u)) /\ (v = P[Anc(p)] \/ ~IsDst(p, v))
        BY <4>1, <4>2, <4>3, <4>4
      <4>6. Agree(p, k, u, v)
        BY <4>1, <4>5, Weaker
      <4> QED BY <4>4, <4>6
    <3> QED BY <1>1, <2>1, <3>1, <3>2
  <2> QED BY <2>1 DEF Agreed
<1> QED BY <1>2, <1>3, <1>4, <1>5 DEF Token

(***************************************************************************)
(* Part 4.  The times of the packets.                                      *)
(***************************************************************************)
\* The invariant, as long as no message has been sent.
Even == \A n \in Node : dist[n] # << >> => dist[n][1] = dist[n][2]
Known == /\ Token(radio, proc)
         /\ \A n \in Node : app[n].pc # "send"
         /\ Even

\* Node n answers the packet q0 with q.
LEMMA Reply ==
    ASSUME Shape, Exclusive, Token(radio, proc), NEW n \in Node, NEW r, NEW x, NEW a, NodeStep(n, r, x, a),
           NEW q0, q0 = radio[n].rx, q0 # None,
           NEW q, q = r.buf, r.rx = None, q \in Pkts(sent + 1), q.src = n, q.dst = q0.src, q.id = q0.id,
           \/ q0.type \in FromSource /\ q.type \in FromDestination /\ x.role = "DESTINATION"
           \/ q0.type \in FromDestination /\ q.type \in FromSource /\ x.role = "SOURCE",
           x.id = q.id, x.idx = Step(q), x.last = proc[n].last,
           q0.type \in FromSource => Agree(q, 0, proc[q.dst], x),
           q0.type \in FromDestination => Agree(q, 0, x, proc[q.dst])
    PROVE  Token(radio', proc')
<1>1. /\ \A m \in Node \ {n} : radio'[m] = radio[m] /\ proc'[m] = proc[m]
      /\ radio'[n] = r /\ proc'[n] = x
  BY DEF NodeStep, Shape
<1>2. q0 = In(radio[n], 1)
  BY DEF In
<1>3. /\ Src(q0) \in Node /\ Anc(q0) \in Anchors[Src(q0)] /\ Anc(q0) # Src(q0)
      /\ q0.id \in 1 .. proc[Src(q0)].last /\ n = q0.dst
  BY <1>2, Somewhere
<1>4. /\ Src(q) = Src(q0) /\ Anc(q) = Anc(q0)
      /\ q.type \in FromSource \cup FromDestination
      /\ x.role = IF q.type \in FromSource THEN "SOURCE" ELSE "DESTINATION"
  BY <1>3 DEF Src, Anc, FromSource, FromDestination
<1>5. \A m \in Node \ {n} : \A k \in {0, 1} : In(radio[m], k) # None => ~Same(In(radio[m], k), q)
  <2>1. \A p : Same(p, q) => Same(p, q0)
    BY <1>4 DEF Same
  <2>2. ASSUME NEW m \in Node \ {n}, NEW k \in {0, 1}, In(radio[m], k) # None
        PROVE  ~Same(In(radio[m], k), q0)
    BY <1>2, <2>2 DEF Token, Single
  <2> QED BY <2>1, <2>2
<1>6. Agree(q, 0, proc'[Src(q)], proc'[Anc(q)])
  <2>1. CASE q0.type \in FromSource
    <3>1. Src(q) = q.dst /\ Anc(q) = n /\ q.dst # n /\ q.dst \in Node
      BY <1>3, <1>4, <2>1 DEF Src, Anc
    <3> QED BY <1>1, <2>1, <3>1
  <2>2. CASE q0.type \in FromDestination
    <3>1. Src(q) = n /\ Anc(q) = q.dst /\ q.dst # n
      BY <1>3, <1>4, <2>2 DEF Src, Anc, FromSource, FromDestination
    <3>2. q.dst \in Node
      BY DEF Pkts
    <3> QED BY <1>1, <2>2, <3>1, <3>2
  <2> QED BY <2>1, <2>2
<1>7. proc[n].last \in Int /\ proc'[n].last = proc[n].last /\ q # None
  <2>1. proc[n].last \in 0 .. MaxId
    BY DEF Shape, Procs
  <2> QED BY <1>1, <2>1, SomePacket
<1>8. q.id \in 1 .. proc'[Src(q)].last
  BY <1>1, <1>3, <1>4, <1>7
<1>9. PICK S, Q : S = radio' /\ Q = proc'
  OBVIOUS
<1>10. Token(S, Q)
  <2>1. /\ \A m \in Node \ {n} : S[m] = radio[m] /\ Q[m] = proc[m]
        /\ S[n].buf = q /\ S[n].rx = None /\ q # None /\ q.src = n
        /\ proc[n].last \in Int /\ Q[n].last \in Int /\ proc[n].last <= Q[n].last
        /\ q.type \in FromSource \cup FromDestination /\ Src(q) \in Node /\ Anc(q) \in Anchors[Src(q)]
        /\ q.id \in 1 .. Q[Src(q)].last
        /\ Q[n].role = IF q.type \in FromSource THEN "SOURCE" ELSE "DESTINATION"
        /\ Q[n].id = q.id /\ Q[n].idx = Step(q) /\ Agree(q, 0, Q[Src(q)], Q[Anc(q)])
    <3>1. /\ \A m \in Node \ {n} : S[m] = radio[m] /\ Q[m] = proc[m]
          /\ S[n] = r /\ Q[n] = x
      BY <1>1, <1>9
    <3>2. q.id \in 1 .. Q[Src(q)].last /\ Agree(q, 0, Q[Src(q)], Q[Anc(q)])
      BY <1>6, <1>8, <1>9
    <3>3. proc[n].last \in Int /\ Q[n].last \in Int /\ proc[n].last <= Q[n].last
      BY <1>7, <1>9
    <3>4. Src(q) \in Node /\ Anc(q) \in Anchors[Src(q)]
      BY <1>3, <1>4
    <3> QED BY <1>4, <1>7, <3>1, <3>2, <3>3, <3>4
  <2> QED BY <1>5, <2>1, PutToken
<1> QED BY <1>9, <1>10

\* A packet that is answered, and what is known with it.
LEMMA Known1 ==
    ASSUME Shape, Token(radio, proc), NEW n \in Node, NEW q, q = radio[n].rx, q # None
    PROVE  /\ q \in Pkts(sent) /\ n = q.dst /\ q.src \in Node
           /\ q.type \in FromSource => Agree(q, 1, proc[q.src], proc[n])
           /\ q.type \in FromDestination => Agree(q, 1, proc[n], proc[q.src])
<1>1. q = In(radio[n], 1)
  BY DEF In
<1>2. n = q.dst /\ Agree(q, 1, proc[Src(q)], proc[Anc(q)])
  BY <1>1, Somewhere
<1>3. q \in Pkts(sent) /\ q.src \in Node
  BY DEF Shape, Radios, Pkts
<1> QED BY <1>2, <1>3 DEF Src, Anc, FromSource, FromDestination

\* The rest of the invariant, when the program and the distances are left.
LEMMA KnownRest ==
    ASSUME Known, Shape, NEW n \in Node, NEW r, NEW x, NEW a, NodeStep(n, r, x, a), a.pc # "send",
           UNCHANGED dist \/ Even', Token(radio', proc')
    PROVE  Known'
<1>1. \A m \in Node : app'[m].pc # "send"
  BY DEF Known, NodeStep, Shape
<1>2. Even'
  BY DEF Known, Even
<1> QED BY <1>1, <1>2 DEF Known

\* PS0 is answered with PD1.
LEMMA KnownSourceTx1 ==
    ASSUME Shape, Exclusive, Known, NEW n \in Node, HandleSourceTx1(n)
    PROVE  Known'
<1>1. PICK r, x, p : /\ NodeStep(n, r, x, app[n]) /\ r.buf = p /\ r.rx = None /\ p \in Pkts(sent + 1)
                     /\ UNCHANGED <<texts, starts, dist>>
                     /\ p.type = "PD1" /\ p.src = n /\ p.dst = radio[n].rx.src /\ p.id = radio[n].rx.id
                     /\ x.role = "DESTINATION" /\ x.id = radio[n].rx.id /\ x.idx = 1
                     /\ x.ts[0] = radio[n].rx.num /\ x.last = proc[n].last
  BY SourceTx1Step
<1>2. PICK q : q = radio[n].rx
  OBVIOUS
<1>3. q # None /\ q.type = "PS0" /\ Token(radio, proc)
  BY <1>2, Received DEF HandleSourceTx1, Known
<1>4. Agree(q, 1, proc[q.src], proc[n])
  BY <1>2, <1>3, Known1 DEF FromSource
<1>5. Agree(p, 0, proc[p.dst], x)
  BY <1>1, <1>2, <1>3, <1>4 DEF Agree, IsSrc, IsDst
<1>6. x.idx = Step(p)
  BY <1>1 DEF Step
<1>7. Token(radio', proc')
  BY <1>1, <1>2, <1>3, <1>5, <1>6, Reply DEF FromSource, FromDestination
<1> QED BY <1>1, <1>7, KnownRest DEF Known

\* PS2 is answered with PD3.
LEMMA KnownSourceTx2 ==
    ASSUME Shape, Exclusive, Known, NEW n \in Node, HandleSourceTx2(n), Matches(n, "DESTINATION")
    PROVE  Known'
<1>1. PICK r, x, p : /\ NodeStep(n, r, x, app[n]) /\ r.buf = p /\ r.rx = None /\ p \in Pkts(sent + 1)
                     /\ UNCHANGED <<texts, starts, dist>>
                     /\ p.type = "PD3" /\ p.src = n /\ p.dst = radio[n].rx.src /\ p.id = radio[n].rx.id
                     /\ x.role = "DESTINATION" /\ x.id = radio[n].rx.id /\ x.idx = 3
                     /\ x.ts[0] = proc[n].ts[0] /\ x.ts[1] = proc[n].ts[1]
                     /\ x.ts[2] = radio[n].rx.num /\ p.ts = x.ts /\ x.last = proc[n].last
  BY SourceTx2Step
<1>2. PICK q : q = radio[n].rx
  OBVIOUS
<1>3. q # None /\ q.type = "PS2" /\ Token(radio, proc) /\ IsDst(q, proc[n])
  BY <1>2, Received DEF HandleSourceTx2, Known, Matches, IsDst
<1>4. Agree(q, 1, proc[q.src], proc[n]) /\ q.src \in Node
  BY <1>2, <1>3, Known1 DEF FromSource
<1>5. IsSrc(q, proc[q.src]) => /\ proc[q.src].ts[0] = proc[n].ts[0] /\ proc[q.src].ts[1] = proc[n].ts[1]
                               /\ proc[q.src].ts[2] = q.num
  BY <1>3, <1>4 DEF Agree
<1>6. IsSrc(q, proc[q.src]) => proc[q.src].ts = p.ts
  <2>1. proc[q.src].ts \in [0 .. 2 -> 0 .. sent]
    BY <1>4 DEF Shape, Procs, Times
  <2>2. x.ts \in [0 .. 2 -> 0 .. sent']
    BY <1>1 DEF NodeStep, Procs, Times
  <2>3. \A i \in 0 .. 2 : i = 0 \/ i = 1 \/ i = 2
    OBVIOUS
  <2> QED BY <1>1, <1>2, <1>5, <2>1, <2>2, <2>3
<1>7. Agree(p, 0, proc[p.dst], x)
  BY <1>1, <1>2, <1>3, <1>6 DEF Agree, IsSrc, IsDst
<1>8. x.idx = Step(p)
  BY <1>1 DEF Step
<1>9. Token(radio', proc')
  BY <1>1, <1>2, <1>3, <1>7, <1>8, Reply DEF FromSource, FromDestination
<1> QED BY <1>1, <1>9, KnownRest DEF Known

\* PD1 is answered with PS2.
LEMMA KnownDestinationTx1 ==
    ASSUME Shape, Exclusive, Known, NEW n \in Node, HandleDestinationTx1(n), Matches(n, "SOURCE")
    PROVE  Known'
<1>1. PICK r, x, p : /\ NodeStep(n, r, x, app[n]) /\ r.buf = p /\ r.rx = None /\ p \in Pkts(sent + 1)
                     /\ UNCHANGED <<texts, starts, dist>>
                     /\ p.type = "PS2" /\ p.src = n /\ p.dst = radio[n].rx.src /\ p.id = radio[n].rx.id
                     /\ x.role = "SOURCE" /\ x.id = radio[n].rx.id /\ x.idx = 2
                     /\ x.ts[0] = proc[n].ts[0] /\ x.ts[1] = radio[n].rx.num /\ x.last = proc[n].last
  BY DestinationTx1Step
<1>2. PICK q : q = radio[n].rx
  OBVIOUS
<1>3. q # None /\ q.type = "PD1" /\ Token(radio, proc) /\ IsSrc(q, proc[n])
  BY <1>2, Received DEF HandleDestinationTx1, Known, Matches, IsSrc
<1>4. Agree(q, 1, proc[n], proc[q.src])
  BY <1>2, <1>3, Known1 DEF FromDestination
<1>5. Agree(p, 0, x, proc[p.dst])
  BY <1>1, <1>2, <1>3, <1>4 DEF Agree, IsSrc, IsDst
<1>6. x.idx = Step(p)
  BY <1>1 DEF Step
<1>7. Token(radio', proc')
  BY <1>1, <1>2, <1>3, <1>5, <1>6, Reply DEF FromSource, FromDestination
<1> QED BY <1>1, <1>7, KnownRest DEF Known

\* PD3 is answered with PS4, and the source has its distance.
LEMMA KnownDestinationResult ==
    ASSUME Shape, Exclusive, Known, NEW n \in Node, HandleDestinationResult(n), Matches(n, "SOURCE")
    PROVE  Known'
<1>1. PICK r, x, a, p :
          /\ NodeStep(n, r, x, a) /\ r.buf = p /\ r.rx = None /\ p \in Pkts(sent + 1)
          /\ a.pc = app[n].pc /\ dist' = [dist EXCEPT ![n] = <<proc[n].ts, radio[n].rx.ts>>]
          /\ p.type = "PS4" /\ p.src = n /\ p.dst = radio[n].rx.src /\ p.id = radio[n].rx.id
          /\ x.role = "SOURCE" /\ x.id = radio[n].rx.id /\ x.idx = 3
          /\ x.ts = proc[n].ts /\ p.ts = x.ts /\ x.last = proc[n].last
  BY DestinationResultStep
<1>2. PICK q : q = radio[n].rx
  OBVIOUS
<1>3. q # None /\ q.type = "PD3" /\ Token(radio, proc) /\ IsSrc(q, proc[n])
  BY <1>2, Received DEF HandleDestinationResult, Known, Matches, IsSrc
<1>4. Agree(q, 1, proc[n], proc[q.src])
  BY <1>2, <1>3, Known1 DEF FromDestination
<1>5. proc[n].ts = q.ts
  BY <1>3, <1>4 DEF Agree
<1>6. Agree(p, 0, x, proc[p.dst])
  BY <1>1, <1>2, <1>3, <1>4, <1>5 DEF Agree, IsSrc, IsDst
<1>7. x.idx = Step(p)
  BY <1>1 DEF Step
<1>8. Token(radio', proc')
  BY <1>1, <1>2, <1>3, <1>6, <1>7, Reply DEF FromSource, FromDestination
<1>9. Even'
  <2>1. PICK t : t = proc[n].ts
    OBVIOUS
  <2>2. \A m \in Node : dist'[m] = dist[m] \/ dist'[m] = <<t, t>>
    BY <1>1, <1>2, <1>5, <2>1
  <2> QED BY <2>2 DEF Known, Even
<1> QED BY <1>1, <1>8, <1>9, KnownRest DEF Known

\* Packets are dropped.
LEMMA KnownDrops ==
    ASSUME Shape, Token(radio, proc), NEW n \in Node, NEW r, NEW x, NEW a,
           NodeStep(n, r, x, a), Drops(n, r, x)
    PROVE  Token(radio', proc')
<1>1. /\ \A m \in Node \ {n} : radio'[m] = radio[m] /\ proc'[m] = proc[m]
      /\ radio'[n] = r /\ proc'[n] = x
  BY DEF NodeStep, Shape
<1>2. PICK S, Q : S = radio' /\ Q = proc'
  OBVIOUS
<1>3. /\ \A m \in Node \ {n} : S[m] = radio[m] /\ Q[m] = proc[m]
      /\ S[n].buf \in {None, radio[n].buf} /\ S[n].rx \in {None, radio[n].rx}
      /\ Q[n].last = proc[n].last /\ (Q[n] = proc[n] \/ (Q[n].role = "NONE" /\ S[n].buf = None))
  BY <1>1, <1>2 DEF Drops
<1>4. Token(S, Q)
  BY <1>3, DropToken
<1> QED BY <1>2, <1>4

\* PS4 ends the ranging, and the destination has its distance.
LEMMA KnownSourceResult ==
    ASSUME Shape, Known, NEW n \in Node, HandleSourceResult(n), Matches(n, "DESTINATION")
    PROVE  Known'
<1>1. PICK r, x, a : /\ NodeStep(n, r, x, a) /\ Drops(n, r, x) /\ a.pc = app[n].pc
                     /\ dist' = [dist EXCEPT ![n] = <<radio[n].rx.ts, proc[n].ts>>]
  BY SourceResultStep
<1>2. PICK q : q = radio[n].rx
  OBVIOUS
<1>3. q # None /\ q.type = "PS4" /\ Token(radio, proc) /\ IsDst(q, proc[n])
  BY <1>2, Received DEF HandleSourceResult, Known, Matches, IsDst
<1>4. Agree(q, 1, proc[q.src], proc[n])
  BY <1>2, <1>3, Known1 DEF FromSource
<1>5. proc[n].ts = q.ts
  BY <1>3, <1>4 DEF Agree
<1>6. Token(radio', proc')
  BY <1>1, <1>3, KnownDrops
<1>7. Even'
  <2>1. PICK t : t = proc[n].ts
    OBVIOUS
  <2>2. \A m \in Node : dist'[m] = dist[m] \/ dist'[m] = <<t, t>>
    BY <1>1, <1>2, <1>5, <2>1
  <2> QED BY <2>2 DEF Known, Even
<1> QED BY <1>1, <1>6, <1>7, KnownRest DEF Known

\* A step in which no packet is made.
LEMMA KnownQuiet ==
    ASSUME Shape, Known, NEW n \in Node, NEW r, NEW x, NEW a, QuietStep(n, r, x, a), texts' = texts
    PROVE  Known'
<1>1. NodeStep(n, r, x, a) /\ Drops(n, r, x) /\ UNCHANGED dist
  BY DEF QuietStep
<1>2. a.pc = "send" => app[n].pc = "send"
  BY DEF QuietStep, Shape
<1>3. a.pc # "send" /\ Token(radio, proc)
  BY <1>2 DEF Known
<1>4. Token(radio', proc')
  BY <1>1, <1>3, KnownDrops
<1> QED BY <1>1, <1>3, <1>4, KnownRest

\* A packet has been sent, and its sender notes the time.
LEMMA KnownTxDone ==
    ASSUME Shape, Exclusive, Known, NEW n \in Node, NEW heard, TxDone(n, heard)
    PROVE  Known'
<1>1. PICK q, x : /\ q = radio[n].buf /\ q \in Pkts(sent)
                  /\ radio'[n].buf = None /\ radio'[n].rx = None
                  /\ \A m \in Node \ {n} :
                       /\ radio'[m].buf = radio[m].buf
                       /\ radio'[m].rx # radio[m].rx => m = q.dst /\ radio'[m].rx = q
                  /\ proc' = [proc EXCEPT ![n] = x] /\ x.last = proc[n].last
                  /\ \/ x.role = "NONE"
                        /\ (proc[n].role = "NONE" \/ proc[n].idx > IF proc[n].role = "SOURCE" THEN 2 ELSE 3)
                     \/ x = proc[n] /\ proc[n].idx > 2 /\ proc[n].role # "SOURCE"
                     \/ /\ proc[n].idx <= 2 /\ proc[n].role # "NONE"
                        /\ x.role = proc[n].role /\ x.id = proc[n].id
                        /\ x.ts = [proc[n].ts EXCEPT ![proc[n].idx] = q.num]
                  /\ \E a : AppStep(n, a) /\ a.pc = app[n].pc
                  /\ UNCHANGED <<sent, starts, texts, dist>>
  BY TxDoneStep
<1>2. q # None /\ Token(radio, proc) /\ q = In(radio[n], 0)
  BY <1>1, SomePacket DEF Known, In
<1>3. /\ q.type \in FromSource \cup FromDestination /\ Src(q) \in Node /\ Anc(q) \in Node
      /\ Anc(q) # Src(q) /\ n = q.src /\ Agree(q, 0, proc[Src(q)], proc[Anc(q)])
  BY <1>2, Somewhere
<1>4. /\ proc[n].role = IF q.type \in FromSource THEN "SOURCE" ELSE "DESTINATION"
      /\ proc[n].id = q.id /\ proc[n].idx = Step(q)
  BY <1>1, <1>2 DEF Token, Sending
<1>5. \A m \in Node : proc'[m] = IF m = n THEN x ELSE proc[m]
  BY <1>1 DEF Shape
<1>6. proc[n].ts \in [0 .. 2 -> 0 .. sent]
  BY DEF Shape, Procs, Times
<1>7. x.role # "NONE" => x.role = proc[n].role /\ x.id = proc[n].id
  BY <1>1
<1>8. Agree(q, 1, proc'[Src(q)], proc'[Anc(q)])
  <2>1. CASE q.type \in FromSource
    <3>1. Src(q) = n
      BY <1>3, <2>1 DEF Src
    <3>2. PICK y, z : y = proc[n] /\ z = proc[Anc(q)]
      OBVIOUS
    <3>3. proc'[Src(q)] = x /\ proc'[Anc(q)] = z /\ Agree(q, 0, y, z)
      BY <1>3, <1>5, <3>1, <3>2
    <3>4. y.role = "SOURCE" /\ y.id = q.id /\ y.ts \in [0 .. 2 -> 0 .. sent]
      BY <1>4, <1>6, <2>1, <3>2
    <3>5. CASE q.type = "PS0"
      <4>1. x.ts = [y.ts EXCEPT ![0] = q.num]
        BY <1>1, <1>4, <3>2, <3>4, <3>5 DEF Step
      <4>2. x.ts[0] = q.num
        BY <3>4, <4>1
      <4>3. Agree(q, 1, x, z)
        BY <3>5, <4>2 DEF Agree
      <4> QED BY <3>3, <4>3
    <3>6. CASE q.type = "PS2"
      <4>1. x.ts = [y.ts EXCEPT ![2] = q.num] /\ x.role = y.role /\ x.id = y.id
        BY <1>1, <1>4, <3>2, <3>4, <3>6 DEF Step
      <4>2. x.ts[0] = y.ts[0] /\ x.ts[1] = y.ts[1] /\ x.ts[2] = q.num
        BY <3>4, <4>1
      <4>3. Agree(q, 1, x, z)
        BY <3>3, <3>6, <4>1, <4>2 DEF Agree, IsSrc
      <4> QED BY <3>3, <4>3
    <3>7. CASE q.type = "PS4"
      <4>1. Agree(q, 1, x, z)
        BY <3>3, <3>7 DEF Agree
      <4> QED BY <3>3, <4>1
    <3> QED BY <2>1, <3>5, <3>6, <3>7 DEF FromSource
  <2>2. CASE q.type \notin FromSource
    <3>1. Anc(q) = n
      BY <1>3, <2>2 DEF Anc
    <3>2. PICK y, z : y = proc[n] /\ z = proc[Src(q)]
      OBVIOUS
    <3>3. proc'[Anc(q)] = x /\ proc'[Src(q)] = z /\ Agree(q, 0, z, y)
      BY <1>3, <1>5, <3>1, <3>2
    <3>4. y.role = "DESTINATION" /\ y.id = q.id /\ y.ts \in [0 .. 2 -> 0 .. sent]
      BY <1>4, <1>6, <2>2, <3>2
    <3>5. CASE q.type = "PD1"
      <4>1. x.ts = [y.ts EXCEPT ![1] = q.num] /\ x.role = y.role /\ x.id = y.id
        BY <1>1, <1>4, <3>2, <3>4, <3>5 DEF Step
      <4>2. x.ts[0] = y.ts[0] /\ x.ts[1] = q.num
        BY <3>4, <4>1
      <4>3. Agree(q, 1, z, x)
        BY <3>3, <3>5, <4>1, <4>2 DEF Agree, IsDst
      <4> QED BY <3>3, <4>3
    <3>6. CASE q.type = "PD3"
      <4>1. x = y
        BY <1>1, <1>4, <3>2, <3>4, <3>6 DEF Step
      <4>2. Agree(q, 1, z, x)
        BY <3>3, <3>6, <4>1 DEF Agree
      <4> QED BY <3>3, <4>2
    <3> QED BY <1>3, <2>2, <3>5, <3>6 DEF FromDestination
  <2> QED BY <2>1, <2>2
<1>9. PICK S, Q : S = radio' /\ Q = proc'
  OBVIOUS
<1>10. /\ \A m \in Node \ {n} : /\ Q[m] = proc[m] /\ S[m].buf = radio[m].buf
                                /\ S[m].rx # radio[m].rx => m = q.dst /\ S[m].rx = q
       /\ S[n].buf = None /\ S[n].rx = None /\ Q[n].last = proc[n].last
       /\ Q[n].role # "NONE" => Q[n].role = proc[n].role /\ Q[n].id = proc[n].id
  <2>1. Q[n] = x /\ \A m \in Node \ {n} : Q[m] = proc[m]
    BY <1>5, <1>9
  <2> QED BY <1>1, <1>7, <1>9, <2>1
<1>11. Agree(q, 1, Q[Src(q)], Q[Anc(q)])
  BY <1>8, <1>9
<1>12. q = radio[n].buf
  BY <1>1
<1>13. Token(S, Q)
  BY <1>2, <1>10, <1>11, <1>12, DeliverToken
<1>14. Token(radio', proc')
  BY <1>9, <1>13
<1>15. \A m \in Node : app'[m].pc # "send"
  BY <1>1 DEF Known, AppStep, Shape
<1>16. Even'
  BY <1>1 DEF Known, Even
<1> QED BY <1>14, <1>15, <1>16 DEF Known

\* A ranging begins: its rangingid has not been used before.
LEMMA KnownStartRanging ==
    ASSUME Shape, Counted, Exclusive, Known, NEW n \in Node, StartRanging(n)
    PROVE  Known'
<1>1. PICK r, x, a, p :
          /\ NodeStep(n, r, x, a) /\ r.buf = p /\ r.rx = None /\ p \in Pkts(sent + 1)
          /\ UNCHANGED <<starts, texts, dist>> /\ app[n].pc = "go" /\ a.pc = "wait"
          /\ p.type = "PS0" /\ p.src = n /\ p.dst = app[n].goal /\ p.id = x.last
          /\ app[n].goal \in Anchors[n]
          /\ x.role = "SOURCE" /\ x.id = x.last /\ x.idx = 0
          /\ x.last = IF proc[n].last = MaxId THEN 1 ELSE proc[n].last + 1
  BY StartRangingStep
<1>2. proc[n].last \in Nat /\ x.last = proc[n].last + 1
  <2>1. proc[n].last \in 0 .. MaxId /\ starts \in Nat
    BY DEF Shape, Procs
  <2>2. Owed(app[n]) = 1
    BY <1>1 DEF Owed
  <2>3. proc[n].last + 1 <= starts /\ starts <= MaxStarts /\ MaxStarts <= MaxId
    BY <2>2 DEF Counted, Exclusive
  <2>4. proc[n].last # MaxId
    BY <2>1, <2>3, RangingAssumption
  <2> QED BY <1>1, <2>1, <2>4
<1>3. p # None /\ Src(p) = n /\ Anc(p) \in Anchors[n] /\ p.type \in FromSource
  BY <1>1, SomePacket DEF Src, Anc, FromSource
<1>4. Token(radio, proc)
  BY DEF Known
<1>5. ASSUME NEW m \in Node \ {n}, NEW k \in {0, 1}, In(radio[m], k) # None
      PROVE  ~Same(In(radio[m], k), p)
  <2>1. PICK q : q = In(radio[m], k)
    OBVIOUS
  <2>2. q.id \in 1 .. proc[Src(q)].last
    BY <1>4, <1>5, <2>1, Somewhere
  <2>3. Src(q) = n => q.id # p.id
    BY <1>1, <1>2, <2>2
  <2> QED BY <1>3, <2>1, <2>3 DEF Same
<1>6. Step(p) = 0
  BY <1>1 DEF Step
<1>7. PICK S, Q : S = radio' /\ Q = proc'
  OBVIOUS
<1>8. /\ \A m \in Node \ {n} : S[m] = radio[m] /\ Q[m] = proc[m]
      /\ S[n] = r /\ Q[n] = x
  BY <1>1, <1>7 DEF NodeStep, Shape
<1>9. Agree(p, 0, Q[Src(p)], Q[Anc(p)])
  BY <1>1 DEF Agree
<1>10. /\ S[n].buf = p /\ S[n].rx = None /\ p # None /\ p.src = n
       /\ proc[n].last \in Int /\ Q[n].last \in Int /\ proc[n].last <= Q[n].last
       /\ p.type \in FromSource \cup FromDestination /\ Src(p) \in Node /\ Anc(p) \in Anchors[Src(p)]
       /\ p.id \in 1 .. Q[Src(p)].last
       /\ Q[n].role = IF p.type \in FromSource THEN "SOURCE" ELSE "DESTINATION"
       /\ Q[n].id = p.id /\ Q[n].idx = Step(p)
  BY <1>1, <1>2, <1>3, <1>6, <1>8
<1>11. \A m \in Node \ {n} : S[m] = radio[m] /\ Q[m] = proc[m]
  BY <1>8
<1>12. Token(S, Q)
  BY <1>4, <1>5, <1>9, <1>10, <1>11, PutToken
<1>13. Token(radio', proc')
  BY <1>7, <1>12
<1> QED BY <1>1, <1>13, KnownRest

\* What is known is kept by every step.
LEMMA KnownStep ==
    ASSUME Exclusive, Shape, Counted, Known, Next, texts' = texts
    PROVE  Known'
<1>1. ASSUME NEW n \in Node, NEW heard, TxDone(n, heard)
      PROVE  Known'
  BY <1>1, KnownTxDone
<1>2. ASSUME NEW n \in Node, Receive(n)
      PROVE  Known'
  <2>1. CASE HandleSourceTx1(n)
    BY <2>1, KnownSourceTx1
  <2>2. CASE HandleSourceTx2(n) /\ Matches(n, "DESTINATION")
    BY <2>2, KnownSourceTx2
  <2>3. CASE HandleSourceResult(n) /\ Matches(n, "DESTINATION")
    BY <2>3, KnownSourceResult
  <2>4. CASE HandleDestinationTx1(n) /\ Matches(n, "SOURCE")
    BY <2>4, KnownDestinationTx1
  <2>5. CASE HandleDestinationResult(n) /\ Matches(n, "SOURCE")
    BY <2>5, KnownDestinationResult
  <2>6. CASE \E r : QuietStep(n, r, proc[n], app[n])
    BY <2>6, KnownQuiet
  <2> QED BY <1>2, <2>1, <2>2, <2>3, <2>4, <2>5, <2>6, Handled
<1>3. ASSUME NEW n \in Node, SysTick(n) \/ Main(n) \/ Call(n)
      PROVE  Known'
  <2>1. CASE \E r, x, a : QuietStep(n, r, x, a)
    BY <2>1, KnownQuiet
  <2>2. CASE StartRanging(n)
    BY <2>2, KnownStartRanging
  <2>3. CASE SendMessage(n)
    BY <2>3 DEF SendMessage, Known
  <2> QED BY <1>3, <2>1, <2>2, <2>3, Others
<1> QED BY <1>1, <1>2, <1>3 DEF Next

\* The number of messages never falls.
LEMMA TextsGrow == Shape /\ Next => texts \in Nat /\ texts' \in {texts, texts + 1}
<1> SUFFICES ASSUME Shape, Next
             PROVE  texts' \in {texts, texts + 1}
  BY DEF Shape
<1>1. ASSUME NEW n \in Node, NEW heard, TxDone(n, heard)
      PROVE  texts' = texts
  BY <1>1 DEF TxDone
<1>2. ASSUME NEW n \in Node, Receive(n)
      PROVE  texts' = texts
  BY <1>2 DEF Receive, HandleSourceTx1, HandleSourceTx2, HandleSourceResult, HandleDestinationTx1,
              HandleDestinationResult, HandleMessage, Answer, Ignore
<1>3. ASSUME NEW n \in Node, SysTick(n) \/ Main(n) \/ Call(n)
      PROVE  texts' \in {texts, texts + 1}
  <2>1. CASE \E r, x, a : QuietStep(n, r, x, a)
    BY <2>1 DEF QuietStep
  <2>2. CASE StartRanging(n)
    BY <2>2 DEF StartRanging, Answer
  <2>3. CASE SendMessage(n)
    BY <2>3 DEF SendMessage
  <2> QED BY <1>3, <2>1, <2>2, <2>3, Others
<1> QED BY <1>1, <1>2, <1>3 DEF Next

\* The invariant.
LEMMA Invariance == Exclusive => (Spec => []Inv)
<1> SUFFICES ASSUME Exclusive
             PROVE  Spec => []Inv
  OBVIOUS
<1>1. PacketInv <=> (texts = 0 => Known)
  BY DEF PacketInv, Known, Even
<1>2. PacketInv' <=> (texts' = 0 => Known')
  BY DEF PacketInv, Known, Even
<1>3. Init => PacketInv
  <2> SUFFICES ASSUME Init
               PROVE  PacketInv
    OBVIOUS
  <2>1. \A n \in Node : radio[n].buf = None /\ radio[n].rx = None
    BY DEF Init
  <2>2. \A n \in Node : \A k \in {0, 1} : In(radio[n], k) = None
    BY <2>1 DEF In
  <2>3. Token(radio, proc)
    BY <2>1, <2>2 DEF Token, Single, Placed, Sending, Agreed
  <2>4. \A n \in Node : app[n].pc # "send" /\ dist[n] = << >>
    BY DEF Init
  <2> QED BY <2>3, <2>4 DEF PacketInv
<1>4. Inv /\ [Next]_vars => Inv'
  <2> SUFFICES ASSUME Inv, [Next]_vars
               PROVE  Inv'
    OBVIOUS
  <2>1. Shape /\ Counted /\ Shape' /\ Counted'
    BY ShapeStep DEF Inv
  <2>2. CASE UNCHANGED vars
    <3>1. PacketInv'
      BY <2>2 DEF vars, PacketInv, Inv
    <3> QED BY <2>1, <3>1 DEF Inv
  <2>3. CASE Next
    <3>1. texts' = 0 => texts = 0 /\ texts' = texts
      BY <2>1, <2>3, TextsGrow
    <3>2. texts' = 0 => Known'
      BY <1>1, <2>1, <2>3, <3>1, KnownStep DEF Inv
    <3> QED BY <1>2, <2>1, <3>2 DEF Inv
  <2> QED BY <2>2, <2>3
<1>5. Init => Inv
  BY <1>3, ShapeInit DEF Inv
<1> QED BY <1>4, <1>5, PTL DEF Spec

\* If every anchor serves one source, and rangingids are not used again, then
\* a distance is calculated, by uwbranging_calculateDistance of either node,
\* from times that the two nodes took of the same three packets: whatever
\* packets are lost, whenever a timeout cancels a ranging at one of the nodes
\* and whatever packet of an older ranging is still on its way.
THEOREM TimesOfSamePackets == Exclusive => (Spec => []SamePackets)
<1>1. Inv => SamePackets
  BY DEF Inv, PacketInv, SamePackets
<1> QED BY <1>1, Invariance, PTL
=============================================================================
