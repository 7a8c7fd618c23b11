------------------------------- MODULE Ranging -------------------------------
(***************************************************************************)
(* The two-way ranging of dw1000_ranging.c between nodes with a DW1000     *)
(* radio, with distanz of DW1000.c as the program that starts it.          *)
(*                                                                         *)
(*   source -> PS0 -> destination     P1, times t0 and t1                  *)
(*   source <- PD1 <- destination     P2, times t2 and t3                  *)
(*   source -> PS2 -> destination     P3, times t4 and t5                  *)
(*   source <- PD3 <- destination     the destination's three times        *)
(*   source -> PS4 -> destination     the source's three times             *)
(*                                                                         *)
(* The radio delivers a packet when its transmission ends, or loses it; it *)
(* neither duplicates nor reorders packets.  A packet is heard by a node   *)
(* whose receiver is on, and waits there for the interrupt.  Packets carry *)
(* a number, and the time stamp of a packet, at its sender and at its      *)
(* receiver, is that number: two stamps that should belong to one packet   *)
(* are equal iff they do.                                                  *)
(*                                                                         *)
(* The interrupt of the radio, the tick interrupt and the main program of  *)
(* a node interleave.  A timeout may happen at any time while a ranging is *)
(* under way.  The end of a transmission is handled at once, before an     *)
(* answer can arrive.                                                      *)
(***************************************************************************)
EXTENDS Integers, FiniteSets

CONSTANTS
  Node,       \* the nodes, by networkid
  Anchors,    \* per node, the nodes its program calls distanz for
  Friends,    \* per node, the nodes its program sends messages to
  MaxId,      \* 0xff, the largest rangingid
  MaxStarts,  \* bound: the number of calls of distanz
  MaxTexts,   \* bound: the number of messages
  NoNode      \* knoten_id 0

ASSUME RangingAssumption ==
  /\ NoNode \notin Node
  /\ Anchors \in [Node -> SUBSET Node] /\ \A n \in Node : n \notin Anchors[n]
  /\ Friends \in [Node -> SUBSET Node] /\ \A n \in Node : n \notin Friends[n]
  /\ MaxId \in Nat \ {0} /\ MaxStarts \in Nat /\ MaxTexts \in Nat

VARIABLES
  radio,   \* per node: dw1000_devicemode, the packet being sent, the packet
           \* received, whether the chip sleeps
  proc,    \* per node: uwbranging_process and uwbranging_rangingid
  app,     \* per node: the main program and ismeasuring
  sent,    \* the number of packets made
  starts,  \* the number of calls of distanz
  texts,   \* the number of messages
  dist     \* history, per node: the times of its last distance

vars == <<radio, proc, app, sent, starts, texts, dist>>

None == [type |-> "none"]
NoTimes == [i \in 0 .. 2 |-> 0]

Packet(type, src, dst, id) ==
  [type |-> type, src |-> src, dst |-> dst, id |-> id, num |-> sent + 1, ts |-> NoTimes]

Init ==
  /\ radio = [n \in Node |-> [mode |-> "RX", buf |-> None, rx |-> None, asleep |-> FALSE]]
  /\ proc = [n \in Node |-> [role |-> "NONE", id |-> 0, idx |-> 0, ts |-> NoTimes, last |-> 0]]
  /\ app = [n \in Node |-> [pc |-> "off", meas |-> FALSE, late |-> FALSE, goal |-> NoNode]]
  /\ sent = 0 /\ starts = 0 /\ texts = 0
  /\ dist = [n \in Node |-> << >>]

-----------------------------------------------------------------------------
(* The radio: the functions of dw1000_driver.c that the ranging calls.     *)

\* Mutant: dw1000_devicemode is not set.
IdleKeepsMode(r) == [r EXCEPT !.buf = None, !.rx = None]

\* dw1000_idle: what is being sent or was received is dropped.
Idle(r) == [r EXCEPT !.mode = "IDLE", !.buf = None, !.rx = None]

\* dw1000_startReceive.
StartReceive(r) == [r EXCEPT !.mode = "RX", !.rx = None]

\* dw1000_initializeTransmit, the transfer of p and dw1000_startTransmit.
Transmit(r, p) == [Idle(r) EXCEPT !.mode = "TX", !.buf = p]

-----------------------------------------------------------------------------
(* uwbranging_cancel, and the end of a transmission.                       *)

Cancel(p) == [p EXCEPT !.role = "NONE", !.id = 0, !.idx = 0]

\* Mutant: uwbranging_cancel leaves ismeasuring set.
StopKeeps(n) == app

Stop(n) == [app EXCEPT ![n].meas = FALSE]

\* dw1000_handleInterrupt after a transmission and
\* dw1000_handleTransmittedPackage; heard is {} if the packet is lost.
TxDone(n, heard) ==
  LET pkt == radio[n].buf
      p == proc[n]
  IN /\ pkt # None
     /\ heard \subseteq {m \in {pkt.dst} : radio[m].mode = "RX" /\ radio[m].rx = None
                                           /\ ~radio[m].asleep}
     /\ radio' = [m \in Node |->
          IF m = n THEN [radio[n] EXCEPT !.mode = "RX", !.buf = None]
          ELSE IF m \in heard THEN [radio[m] EXCEPT !.rx = pkt] ELSE radio[m]]
     /\ IF p.role = "NONE" \/ p.idx > (IF p.role = "SOURCE" THEN 2 ELSE 3)
        THEN proc' = [proc EXCEPT ![n] = Cancel(p)] /\ app' = Stop(n)
        ELSE /\ proc' = IF p.idx > 2 THEN proc ELSE [proc EXCEPT ![n].ts[p.idx] = pkt.num]
             /\ UNCHANGED app
     /\ UNCHANGED <<sent, starts, texts, dist>>

-----------------------------------------------------------------------------
(* dw1000_handleIncomingPackage, one action per packet type.               *)

\* The packet that n handles has this type.
Got(n, type) == radio[n].rx.type = type

\* n answers the packet it has received with pkt.
Answer(n, pkt) ==
  /\ radio' = [radio EXCEPT ![n] = Transmit(@, pkt)]
  /\ sent' = sent + 1
  /\ UNCHANGED <<starts, texts>>

Ignore(n) ==
  /\ radio' = [radio EXCEPT ![n] = StartReceive(@)]
  /\ UNCHANGED <<proc, app, sent, starts, texts, dist>>

\* Mutant: the rangingid is not compared.
MatchesRole(n, role) == proc[n].role = role

\* n is in this role of the ranging the packet belongs to, as far as it can
\* tell: the sender is not compared.
Matches(n, role) == proc[n].role = role /\ radio[n].rx.id = proc[n].id

\* uwbranging_calculateDistance and HandleRangeReceived.
Distance(n, src, dst) ==
  /\ dist' = [dist EXCEPT ![n] = <<src, dst>>]
  /\ app' = Stop(n)

\* PS0: n becomes a destination, whatever it was before.
HandleSourceTx1(n) ==
  LET p == radio[n].rx
  IN /\ Got(n, "PS0")
     /\ Answer(n, Packet("PD1", n, p.src, p.id))
     /\ proc' = [proc EXCEPT ![n] = [@ EXCEPT !.role = "DESTINATION", !.id = p.id, !.idx = 1,
                                              !.ts[0] = p.num]]
     /\ UNCHANGED <<app, dist>>

\* PS2
HandleSourceTx2(n) ==
  LET p == radio[n].rx
      ts == [proc[n].ts EXCEPT ![2] = p.num]
  IN /\ Got(n, "PS2")
     /\ IF Matches(n, "DESTINATION")
        THEN /\ Answer(n, [Packet("PD3", n, p.src, p.id) EXCEPT !.ts = ts])
             /\ proc' = [proc EXCEPT ![n].ts = ts, ![n].idx = 3]
             /\ UNCHANGED <<app, dist>>
        ELSE Ignore(n)

\* PS4
HandleSourceResult(n) ==
  LET p == radio[n].rx
  IN /\ Got(n, "PS4")
     /\ IF Matches(n, "DESTINATION")
        THEN /\ radio' = [radio EXCEPT ![n] = StartReceive(@)]
             /\ Distance(n, p.ts, proc[n].ts)
             /\ proc' = [proc EXCEPT ![n] = Cancel(@)]
             /\ UNCHANGED <<sent, starts, texts>>
        ELSE Ignore(n)

\* PD1
HandleDestinationTx1(n) ==
  LET p == radio[n].rx
  IN /\ Got(n, "PD1")
     /\ IF Matches(n, "SOURCE")
        THEN /\ Answer(n, Packet("PS2", n, p.src, p.id))
             /\ proc' = [proc EXCEPT ![n] = [@ EXCEPT !.ts[1] = p.num, !.idx = 2]]
             /\ UNCHANGED <<app, dist>>
        ELSE Ignore(n)

\* PD3: the ranging ends for the source when its last packet is sent.
HandleDestinationResult(n) ==
  LET p == radio[n].rx
  IN /\ Got(n, "PD3")
     /\ IF Matches(n, "SOURCE")
        THEN /\ Answer(n, [Packet("PS4", n, p.src, p.id) EXCEPT !.ts = proc[n].ts])
             /\ proc' = [proc EXCEPT ![n].idx = 3]
             /\ Distance(n, proc[n].ts, p.ts)
        ELSE Ignore(n)

\* A message is handed to the program.
HandleMessage(n) == Got(n, "TEXT") /\ Ignore(n)

-----------------------------------------------------------------------------
(* uwbranging_tick, from the tick interrupt and from the main program.     *)

\* The timeout: dw1000_idle, uwbranging_cancel and dw1000_startReceive.
Expire(n) ==
  /\ radio' = [radio EXCEPT ![n] = StartReceive(Idle(@))]
  /\ proc' = [proc EXCEPT ![n] = Cancel(@)]

\* Mutant: the timeout is tested for a source only.
SysTickOnlySource(n) ==
  /\ \/ proc[n].role = "SOURCE" /\ Expire(n)
     \/ proc[n].role = "NONE" /\ app[n].meas /\ UNCHANGED <<radio, proc>>
  /\ app' = Stop(n)
  /\ UNCHANGED <<sent, starts, texts, dist>>

SysTick(n) ==
  /\ \/ proc[n].role # "NONE" /\ Expire(n)
     \/ proc[n].role = "NONE" /\ app[n].meas /\ UNCHANGED <<radio, proc>>
  /\ app' = Stop(n)
  /\ UNCHANGED <<sent, starts, texts, dist>>

\* The tests of the tick in a loop of distanz.
TickTest(n) ==
  /\ app[n].pc \in {"try", "wait"} /\ ~app[n].late
  /\ \/ proc[n].role # "NONE" /\ app' = [app EXCEPT ![n].late = TRUE]
     \/ proc[n].role = "NONE" /\ app[n].pc = "wait" /\ app[n].meas /\ app' = Stop(n)
  /\ UNCHANGED <<radio, proc, sent, starts, texts, dist>>

\* They found a timeout; in the first loop ismeasuring is set again.
TickExpire(n) ==
  /\ app[n].late
  /\ Expire(n)
  /\ app' = [app EXCEPT ![n].late = FALSE, ![n].meas = app[n].pc = "try"]
  /\ UNCHANGED <<sent, starts, texts, dist>>

-----------------------------------------------------------------------------
(* distanz.                                                                *)

Distanz(n, g) ==
  /\ app[n].pc = "off" /\ g \in Anchors[n]
  /\ starts < MaxStarts /\ starts' = starts + 1
  /\ radio' = [radio EXCEPT ![n] = [Idle(@) EXCEPT !.asleep = FALSE]]
  /\ app' = [app EXCEPT ![n] = [@ EXCEPT !.pc = "try", !.meas = TRUE, !.goal = g]]
  /\ UNCHANGED <<proc, sent, texts, dist>>

\* The tests of uwbranging_startRanging.
StartTest(n) ==
  /\ app[n].pc = "try" /\ ~app[n].late
  /\ IF radio[n].mode # "TX" /\ proc[n].role = "NONE"
     THEN app' = [app EXCEPT ![n].pc = "go"]
     ELSE app' = [app EXCEPT ![n].meas = TRUE] /\ ~app[n].meas
  /\ UNCHANGED <<radio, proc, sent, starts, texts, dist>>

\* The rest of uwbranging_startRanging; dw1000_wakefromsleep ends whatever an
\* interrupt began in between.
StartRanging(n) ==
  LET id == IF proc[n].last = MaxId THEN 1 ELSE proc[n].last + 1
  IN /\ app[n].pc = "go"
     /\ app' = [app EXCEPT ![n].pc = "wait"]
     /\ proc' = [proc EXCEPT ![n] = [@ EXCEPT !.role = "SOURCE", !.id = id, !.idx = 0, !.last = id]]
     /\ Answer(n, Packet("PS0", n, app[n].goal, id))
     /\ UNCHANGED dist

\* The second loop is left, and the chip put to sleep after 4 ms.
WaitEnd(n) ==
  /\ app[n].pc = "wait" /\ ~app[n].late /\ ~app[n].meas
  /\ app' = [app EXCEPT ![n].pc = "rest"]
  /\ UNCHANGED <<radio, proc, sent, starts, texts, dist>>

EnterSleep(n) ==
  /\ app[n].pc = "rest"
  /\ radio' = [radio EXCEPT ![n] = [Idle(@) EXCEPT !.asleep = TRUE]]
  /\ app' = [app EXCEPT ![n].pc = "off", ![n].goal = NoNode]
  /\ UNCHANGED <<proc, sent, starts, texts, dist>>

-----------------------------------------------------------------------------
(* uwbranging_sendTextMessage and uwbranging_sendBinaryMessage.            *)

SendTest(n, g) ==
  /\ app[n].pc = "off" /\ g \in Friends[n] /\ ~radio[n].asleep
  /\ texts < MaxTexts /\ texts' = texts + 1
  /\ radio[n].mode # "TX" /\ proc[n].role = "NONE"
  /\ app' = [app EXCEPT ![n].pc = "send", ![n].goal = g]
  /\ UNCHANGED <<radio, proc, sent, starts, dist>>

\* If an interrupt has started a transmission meanwhile, the chip sends
\* either packet.
SendMessage(n) ==
  /\ app[n].pc = "send"
  /\ sent' = sent + 1
  /\ \/ radio' = [radio EXCEPT ![n] = Transmit(@, Packet("TEXT", n, app[n].goal, 0))]
     \/ radio[n].mode = "TX" /\ UNCHANGED radio
  /\ app' = [app EXCEPT ![n].pc = "off", ![n].goal = NoNode]
  /\ UNCHANGED <<proc, starts, texts, dist>>

-----------------------------------------------------------------------------
Receive(n) ==
  \/ HandleSourceTx1(n) \/ HandleSourceTx2(n) \/ HandleSourceResult(n)
  \/ HandleDestinationTx1(n) \/ HandleDestinationResult(n) \/ HandleMessage(n)

\* A step of the main program.
Main(n) ==
  \/ TickTest(n) \/ TickExpire(n)
  \/ StartTest(n) \/ StartRanging(n) \/ WaitEnd(n) \/ EnterSleep(n)
  \/ SendMessage(n)

Call(n) == \E g \in Node : Distanz(n, g) \/ SendTest(n, g)

Next ==
  \E n \in Node :
    \/ \E heard \in SUBSET Node : TxDone(n, heard)
    \/ Receive(n) \/ SysTick(n) \/ Main(n) \/ Call(n)

Spec == Init /\ [][Next]_vars

\* Interrupts are served, transmissions end, and the main program goes on.
Fairness ==
  \A n \in Node : /\ WF_vars(\E heard \in SUBSET Node : TxDone(n, heard))
                  /\ WF_vars(Receive(n)) /\ WF_vars(SysTick(n)) /\ WF_vars(Main(n))

FairSpec == Spec /\ Fairness

-----------------------------------------------------------------------------
PacketTypes == {"none", "PS0", "PD1", "PS2", "PD3", "PS4", "TEXT"}

TypeOK ==
  \A n \in Node :
    /\ radio[n].mode \in {"IDLE", "TX", "RX"}
    /\ radio[n].buf.type \in PacketTypes /\ radio[n].rx.type \in PacketTypes
    /\ proc[n].role \in {"NONE", "SOURCE", "DESTINATION"}
    /\ proc[n].id \in 0 .. MaxId /\ proc[n].last \in 0 .. MaxId
    /\ proc[n].idx \in 0 .. 3
    /\ proc[n].ts \in [0 .. 2 -> 0 .. sent]
    /\ app[n].pc \in {"off", "try", "go", "wait", "rest", "send"}
    /\ app[n].meas \in BOOLEAN /\ app[n].late \in BOOLEAN

\* A distance is calculated from the six times of three packets: the times
\* of the source and of the destination belong to the same packets, as long
\* as no message has been sent (its transmission may be stamped as one).
SamePackets ==
  texts = 0 => \A n \in Node : dist[n] # << >> => dist[n][1] = dist[n][2]

\* A node in TX mode is sending, so that the interrupt which ends the mode
\* comes: uwbranging_startRanging refuses to start in TX mode, for ever.
TxEnds ==
  /\ TypeOK
  /\ \A n \in Node : radio[n].mode = "TX" => radio[n].buf # None

\* distanz returns, whatever packets are lost.
DistanzEnds == \A n \in Node : (app[n].pc = "try") ~> (app[n].pc = "off")

\* A destination that hears no more of its source becomes free again.
AnchorFree == \A n \in Node : (proc[n].role = "DESTINATION") ~> (proc[n].role # "DESTINATION")
=============================================================================
