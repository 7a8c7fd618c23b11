----------------------------- MODULE MqttProofs -----------------------------
(***************************************************************************)
(* Proofs about Mqtt, for any topics, tables and identifiers and any       *)
(* number of connections, commands and messages.  What cycle compares is   *)
(* only the type of a packet: the proofs show that, as long as no command  *)
(* that waits for a type has timed out, at most one packet of that type,   *)
(* or one that leads to it, is on its way.                                 *)
(***************************************************************************)
EXTENDS Mqtt, SequenceTheorems, TLAPS

(***************************************************************************)
(* Part 1.  Packets on their way.                                          *)
(***************************************************************************)
Types == {"NOTHING", "CONNECT", "CONNACK", "SUBSCRIBE", "SUBACK", "UNSUBSCRIBE", "UNSUBACK",
          "PUBLISH", "PUBACK", "PUBREC", "PUBREL", "PUBCOMP", "PINGREQ", "PINGRESP", "DISCONNECT"}
Args == Topic \cup Nat \cup BOOLEAN
Pkt == [type : Types, qos : 0 .. 2, id : Nat, arg : Args]
OfType(ts) == {p \in Pkt : p.type \in ts}

\* No packet of the sequence is in the set, and at most one is.
None(s, T) == \A i \in DOMAIN s : s[i] \notin T
One(s, T) == \A i, j \in DOMAIN s : s[i] \in T /\ s[j] \in T => i = j

\* At most one packet of O goes out or one of I comes in.
Flight(out, in, O, I) == One(out, O) /\ One(in, I) /\ (None(out, O) \/ None(in, I))
Clear(out, in, O, I) == None(out, O) /\ None(in, I)

\* The packets of the exchanges that a command waits for the end of.
Pub(q) == {p \in Pkt : p.type = "PUBLISH" /\ p.qos = q}
AckOut == Pub(1)
AckIn == OfType({"PUBACK"})
CompOut == Pub(2) \cup OfType({"PUBREL"})
CompIn == OfType({"PUBREC", "PUBCOMP"})
SubOut == OfType({"SUBSCRIBE"})
SubIn == OfType({"SUBACK"})

\* What goes to the end of a sequence.
LEMMA AppendSeq ==
    ASSUME NEW S, NEW s \in Seq(S), NEW x \in S
    PROVE  /\ Append(s, x) \in Seq(S) /\ Len(Append(s, x)) = Len(s) + 1
           /\ DOMAIN Append(s, x) = 1 .. Len(s) + 1 /\ DOMAIN s = 1 .. Len(s)
           /\ \A i \in 1 .. Len(s) : Append(s, x)[i] = s[i]
           /\ Append(s, x)[Len(s) + 1] = x
           /\ Len(s) \in Nat
OBVIOUS

\* What is left when the first one is taken.
LEMMA TailSeq ==
    ASSUME NEW S, NEW s \in Seq(S), s # << >>
    PROVE  /\ Tail(s) \in Seq(S) /\ Len(Tail(s)) = Len(s) - 1
           /\ DOMAIN Tail(s) = 1 .. Len(s) - 1 /\ DOMAIN s = 1 .. Len(s)
           /\ \A i \in 1 .. Len(s) - 1 : Tail(s)[i] = s[i + 1]
           /\ Head(s) = s[1] /\ Head(s) \in S
           /\ Len(s) \in Nat \ {0} /\ 1 \in DOMAIN s
<1>1. Len(s) \in Nat \ {0} /\ DOMAIN s = 1 .. Len(s) /\ Head(s) = s[1]
  BY EmptySeq, LenProperties
<1>2. /\ Head(s) \in S /\ Tail(s) \in Seq(S) /\ Len(Tail(s)) = Len(s) - 1
      /\ \A i \in 1 .. Len(Tail(s)) : Tail(s)[i] = s[i + 1]
  BY HeadTailProperties
<1>3. DOMAIN Tail(s) = 1 .. Len(s) - 1
  BY <1>2, LenProperties
<1> QED BY <1>1, <1>2, <1>3

\* A packet more at the end of a sequence.
LEMMA AppendNone ==
    ASSUME NEW S, NEW s \in Seq(S), NEW x \in S, NEW T
    PROVE  /\ None(s, T) /\ x \notin T => None(Append(s, x), T)
           /\ None(s, T) => One(Append(s, x), T)
           /\ One(s, T) /\ x \notin T => One(Append(s, x), T)
<1>1. \A i \in DOMAIN Append(s, x) : i = Len(s) + 1 \/ i \in DOMAIN s
  BY AppendSeq
<1>2. /\ \A i \in DOMAIN s : Append(s, x)[i] = s[i]
      /\ Append(s, x)[Len(s) + 1] = x
  BY AppendSeq
<1> QED BY <1>1, <1>2 DEF None, One

\* A packet less at the front of it.
LEMMA TailNone ==
    ASSUME NEW S, NEW s \in Seq(S), s # << >>, NEW T
    PROVE  /\ None(s, T) => None(Tail(s), T)
           /\ One(s, T) => One(Tail(s), T)
           /\ One(s, T) /\ Head(s) \in T => None(Tail(s), T)
<1>1. \A i \in DOMAIN Tail(s) : i + 1 \in DOMAIN s /\ i + 1 # 1 /\ i \in Int /\ Tail(s)[i] = s[i + 1]
  BY TailSeq
<1>2. 1 \in DOMAIN s /\ Head(s) = s[1]
  BY TailSeq
<1> QED BY <1>1, <1>2 DEF None, One

\* Nothing is on its way on a new connection.
LEMMA NoneEmpty == \A T : None(<< >>, T) /\ One(<< >>, T)
BY DEF None, One

\* A packet that comes in is read.
LEMMA FlightRead ==
    ASSUME NEW out, NEW in \in Seq(Pkt), NEW O, NEW I, Flight(out, in, O, I), in # << >>
    PROVE  /\ Flight(out, Tail(in), O, I)
           /\ Head(in) \in I => Clear(out, Tail(in), O, I)
           /\ Clear(out, in, O, I) => Clear(out, Tail(in), O, I)
<1>1. /\ None(in, I) => None(Tail(in), I)
      /\ One(in, I) => One(Tail(in), I)
      /\ One(in, I) /\ Head(in) \in I => None(Tail(in), I)
  BY TailNone
<1>2. Head(in) \in I => ~None(in, I)
  BY TailSeq DEF None
<1> QED BY <1>1, <1>2 DEF Flight, Clear

\* A packet is sent.
LEMMA FlightSend ==
    ASSUME NEW out \in Seq(Pkt), NEW in, NEW O, NEW I, NEW x \in Pkt
    PROVE  /\ Flight(out, in, O, I) /\ x \notin O => Flight(Append(out, x), in, O, I)
           /\ Clear(out, in, O, I) /\ x \notin O => Clear(Append(out, x), in, O, I)
           /\ Clear(out, in, O, I) => Flight(Append(out, x), in, O, I)
<1>1. /\ None(out, O) /\ x \notin O => None(Append(out, x), O)
      /\ None(out, O) => One(Append(out, x), O)
      /\ One(out, O) /\ x \notin O => One(Append(out, x), O)
  BY AppendNone
<1>2. \A T : None(in, T) => One(in, T)
  BY DEF None, One
<1> QED BY <1>1, <1>2 DEF Flight, Clear

\* The broker takes a packet.
LEMMA FlightTake ==
    ASSUME NEW out \in Seq(Pkt), NEW in, NEW O, NEW I, Flight(out, in, O, I), out # << >>
    PROVE  /\ Flight(Tail(out), in, O, I)
           /\ Head(out) \in O => Clear(Tail(out), in, O, I)
           /\ Clear(out, in, O, I) => Clear(Tail(out), in, O, I)
<1>1. /\ None(out, O) => None(Tail(out), O)
      /\ One(out, O) => One(Tail(out), O)
      /\ One(out, O) /\ Head(out) \in O => None(Tail(out), O)
  BY TailNone
<1>2. Head(out) \in O => ~None(out, O)
  BY TailSeq DEF None
<1> QED BY <1>1, <1>2 DEF Flight, Clear

\* The broker sends a packet.
LEMMA FlightPush ==
    ASSUME NEW out, NEW in \in Seq(Pkt), NEW O, NEW I, NEW x \in Pkt
    PROVE  /\ Flight(out, in, O, I) /\ x \notin I => Flight(out, Append(in, x), O, I)
           /\ Clear(out, in, O, I) /\ x \notin I => Clear(out, Append(in, x), O, I)
           /\ Clear(out, in, O, I) => Flight(out, Append(in, x), O, I)
<1>1. /\ None(in, I) /\ x \notin I => None(Append(in, x), I)
      /\ None(in, I) => One(Append(in, x), I)
      /\ One(in, I) /\ x \notin I => One(Append(in, x), I)
  BY AppendNone
<1>2. \A T : None(out, T) => One(out, T)
  BY DEF None, One
<1> QED BY <1>1, <1>2 DEF Flight, Clear

\* An exchange: one packet of it is on its way at most, none unless it is
\* active; GO and GI are the packets that may be on their way.
Exch(out, in, O, I, GO, GI, active) ==
  /\ Flight(out, in, O, I)
  /\ ~active => Clear(out, in, O, I)
  /\ out \in Seq(GO) /\ in \in Seq(GI)

\* A packet that belongs to no exchange, or is a reply to the one just read.
LEMMA ExchSend ==
    ASSUME NEW out, NEW in, NEW O, NEW I, NEW GO \in SUBSET Pkt, NEW GI, NEW b \in BOOLEAN,
           Exch(out, in, O, I, GO, GI, b), NEW x \in GO,
           x \notin O \/ (b /\ Clear(out, in, O, I))
    PROVE  Exch(Append(out, x), in, O, I, GO, GI, b)
<1>1. out \in Seq(Pkt) /\ x \in Pkt /\ out \in Seq(GO)
  BY SeqMonotonic DEF Exch
<1>2. Append(out, x) \in Seq(GO)
  BY <1>1, AppendSeq
<1>3. /\ Flight(out, in, O, I) /\ x \notin O => Flight(Append(out, x), in, O, I)
      /\ Clear(out, in, O, I) /\ x \notin O => Clear(Append(out, x), in, O, I)
      /\ Clear(out, in, O, I) => Flight(Append(out, x), in, O, I)
  BY <1>1, FlightSend
<1> QED BY <1>2, <1>3 DEF Exch

\* The client reads a packet.
LEMMA ExchRead ==
    ASSUME NEW out, NEW in, NEW O, NEW I, NEW GO, NEW GI \in SUBSET Pkt, NEW b \in BOOLEAN,
           Exch(out, in, O, I, GO, GI, b), in # << >>
    PROVE  /\ Exch(out, Tail(in), O, I, GO, GI, b)
           /\ Head(in) \in I => Clear(out, Tail(in), O, I)
           /\ Head(in) \in GI
<1>1. in \in Seq(Pkt) /\ in \in Seq(GI) /\ Flight(out, in, O, I)
  BY SeqMonotonic DEF Exch
<1>2. Tail(in) \in Seq(GI) /\ Head(in) \in GI
  BY <1>1, TailSeq
<1>3. /\ Flight(out, Tail(in), O, I)
      /\ Head(in) \in I => Clear(out, Tail(in), O, I)
      /\ Clear(out, in, O, I) => Clear(out, Tail(in), O, I)
  BY <1>1, FlightRead
<1> QED BY <1>2, <1>3 DEF Exch

\* The packet p is taken from the front of s.
Taken(s, p, rest) == s # << >> /\ p = Head(s) /\ rest = Tail(s)

\* The broker takes a packet.
LEMMA ExchTake ==
    ASSUME NEW out, NEW in, NEW O, NEW I, NEW GO, NEW GI, NEW b, NEW rest, NEW p,
           Exch(out, in, O, I, GO, GI, b), GO \in SUBSET Pkt, b \in BOOLEAN, Taken(out, p, rest)
    PROVE  /\ Exch(rest, in, O, I, GO, GI, b)
           /\ p \in O => Clear(rest, in, O, I) /\ ~Clear(out, in, O, I)
           /\ p \in GO
<1>0. out # << >> /\ p = Head(out) /\ rest = Tail(out)
  BY DEF Taken
<1>1. out \in Seq(Pkt) /\ out \in Seq(GO) /\ Flight(out, in, O, I)
  BY SeqMonotonic DEF Exch
<1>2. rest \in Seq(GO) /\ p \in GO /\ p = out[1] /\ 1 \in DOMAIN out
  BY <1>0, <1>1, TailSeq
<1>3. /\ Flight(rest, in, O, I)
      /\ p \in O => Clear(rest, in, O, I)
      /\ Clear(out, in, O, I) => Clear(rest, in, O, I)
  BY <1>0, <1>1, FlightTake
<1>4. p \in O => ~Clear(out, in, O, I)
  BY <1>2 DEF Clear, None
<1> QED BY <1>2, <1>3, <1>4 DEF Exch

\* The broker sends a packet that is of no exchange, or replies.
LEMMA ExchPush ==
    ASSUME NEW out, NEW in, NEW O, NEW I, NEW GO, NEW GI \in SUBSET Pkt, NEW b \in BOOLEAN,
           Exch(out, in, O, I, GO, GI, b), NEW x \in GI,
           x \notin I \/ (b /\ Clear(out, in, O, I))
    PROVE  Exch(out, Append(in, x), O, I, GO, GI, b)
<1>1. in \in Seq(Pkt) /\ x \in Pkt /\ in \in Seq(GI)
  BY SeqMonotonic DEF Exch
<1>2. Append(in, x) \in Seq(GI)
  BY <1>1, AppendSeq
<1>3. /\ Flight(out, in, O, I) /\ x \notin I => Flight(out, Append(in, x), O, I)
      /\ Clear(out, in, O, I) /\ x \notin I => Clear(out, Append(in, x), O, I)
      /\ Clear(out, in, O, I) => Flight(out, Append(in, x), O, I)
  BY <1>1, FlightPush
<1> QED BY <1>2, <1>3 DEF Exch

\* The connection is closed: what goes out is lost.
LEMMA ExchDrop ==
    ASSUME NEW out, NEW in, NEW O, NEW I, NEW GO, NEW GI, NEW b \in BOOLEAN,
           Exch(out, in, O, I, GO, GI, b)
    PROVE  Exch(<< >>, in, O, I, GO, GI, b)
<1>1. << >> \in Seq(GO)
  BY EmptySeq
<1> QED BY <1>1, NoneEmpty DEF Exch, Flight, Clear

\* Between two exchanges anything may be said of their packets.
LEMMA ExchClear ==
    ASSUME NEW out \in Seq(Pkt), NEW in \in Seq(Pkt), NEW O, NEW I, NEW GO, NEW GI,
           NEW b \in BOOLEAN, Clear(out, in, O, I), Pkt \ O \subseteq GO, Pkt \ I \subseteq GI
    PROVE  Exch(out, in, O, I, GO, GI, b)
<1>1. Flight(out, in, O, I)
  BY DEF Flight, Clear, None, One
<1>2. out \in Seq(GO)
  <2>1. Len(out) \in Nat /\ DOMAIN out = 1 .. Len(out) /\ out \in [1 .. Len(out) -> Pkt]
    BY LenProperties
  <2>2. \A i \in 1 .. Len(out) : out[i] \in GO
    BY <2>1 DEF Clear, None
  <2>3. out \in [1 .. Len(out) -> GO]
    BY <2>1, <2>2
  <2> QED BY <2>1, <2>3, SeqDef
<1>3. in \in Seq(GI)
  <2>1. Len(in) \in Nat /\ DOMAIN in = 1 .. Len(in) /\ in \in [1 .. Len(in) -> Pkt]
    BY LenProperties
  <2>2. \A i \in 1 .. Len(in) : in[i] \in GI
    BY <2>1 DEF Clear, None
  <2>3. in \in [1 .. Len(in) -> GI]
    BY <2>1, <2>2
  <2> QED BY <2>1, <2>3, SeqDef
<1> QED BY <1>1, <1>2, <1>3 DEF Exch

\* More may be said of them.
LEMMA ExchWiden ==
    ASSUME NEW out, NEW in, NEW O, NEW I, NEW GO, NEW GI, NEW HO, NEW HI,
           NEW b \in BOOLEAN, Exch(out, in, O, I, GO, GI, b), GO \subseteq HO, GI \subseteq HI
    PROVE  Exch(out, in, O, I, HO, HI, b)
BY SeqMonotonic DEF Exch

(***************************************************************************)
(* Part 2.  The invariant.                                                 *)
(***************************************************************************)
Calls == [op : {"connect"}, want : {"CONNACK"}, arg : {0}, expired : BOOLEAN]
         \cup [op : {"subscribe"}, want : {"SUBACK"}, arg : Topic, expired : BOOLEAN]
         \cup [op : {"unsubscribe"}, want : {"UNSUBACK"}, arg : Topic, expired : BOOLEAN]
         \cup [op : {"publish"}, want : {"PUBACK", "PUBCOMP"}, arg : Nat, expired : BOOLEAN]
         \cup [op : {"yield"}, want : {"NEVER"}, arg : {0}, expired : BOOLEAN]

WaitedFor == {"CONNACK", "SUBACK", "UNSUBACK", "PUBACK", "PUBCOMP", "NEVER"}

ClientShape ==
  /\ c \in [isconnected : BOOLEAN, ping : BOOLEAN, next : 0 .. MaxPacketId, handlers : Seq(Topic)]
  /\ Len(c.handlers) <= MaxHandlers
  /\ call \in Calls \cup {NoCall, Hung}
  /\ app \in BOOLEAN

HistShape ==
  /\ broker \in [subs : SUBSET Topic, rec : SUBSET (1 .. MaxPacketId), got : SUBSET Nat]
  /\ hist \in [opens : Nat, commands : Nat, pushes : Nat, late : SUBSET WaitedFor, ok : SUBSET Nat,
               missed : SUBSET Topic]
  /\ broker.got \subseteq 1 .. hist.commands
  /\ hist.ok \subseteq 1 .. hist.commands
  /\ Waiting /\ call.op = "publish" => call.arg \in 1 .. hist.commands

\* What the client and what the broker send.
OutPkt(n) ==
  {p \in Pkt : /\ p.type = "PUBLISH" => p.arg \in 1 .. n
               /\ p.type = "PUBLISH" /\ p.qos = 2 => p.id \in 1 .. MaxPacketId
               /\ p.type \in {"SUBSCRIBE", "UNSUBSCRIBE"} => p.arg \in Topic}
InPkt ==
  {p \in Pkt : /\ p.type = "PUBLISH" => p.arg \in Topic
               /\ p.type \in {"CONNACK", "SUBACK"} => p.arg \in BOOLEAN}

Nets == [sock : {"open", "closed"}, up : BOOLEAN, out : Seq(Pkt), in : Seq(Pkt)]
NetShape ==
  /\ net \in Nets
  /\ net.sock = "closed" => ~net.up
  /\ call = Hung => net.sock = "closed"
  /\ net.out \in Seq(OutPkt(hist.commands)) /\ net.in \in Seq(InPkt)

Shape == ClientShape /\ HistShape /\ NetShape

\* A command that waits for a packet of type w is under way.
W(cl, w) == cl.op \notin {"none", "hung"} /\ cl.want = w

\* An answer to the ping will come, or the connection is closed.
PingInv ==
  c.ping /\ net.up => \/ ~None(net.out, OfType({"PINGREQ"}))
                      \/ ~None(net.in, OfType({"PINGRESP"}))

\* QoS 1: the acknowledgement on its way is that of the message being sent.
AckGood(arg) == {p \in Pkt : p \in AckOut => p.arg = arg}
AckDone(arg, got) == {p \in Pkt : p \in AckIn => arg \in got}
AckAt(out, in, cl, late, got) ==
  cl # Hung /\ "PUBACK" \notin late =>
    Exch(out, in, AckOut, AckIn, AckGood(cl.arg), AckDone(cl.arg, got), W(cl, "PUBACK"))

\* QoS 2: the four packets of the handshake follow each other, and the
\* broker has the identifier while PUBREC or PUBREL is on its way.
CompGood(arg, rec, got) ==
  {p \in Pkt : /\ p \in Pub(2) => rec = {} /\ p.arg = arg
               /\ p.type = "PUBREL" => rec \subseteq {p.id} /\ arg \in got}
CompDone(arg, rec, got) ==
  {p \in Pkt : /\ p.type = "PUBREC" => rec \subseteq {p.id} /\ arg \in got
               /\ p.type = "PUBCOMP" => rec = {} /\ arg \in got}
CompAt(out, in, cl, late, rec, got) ==
  cl # Hung /\ "PUBCOMP" \notin late =>
    /\ Exch(out, in, CompOut, CompIn, CompGood(cl.arg, rec, got), CompDone(cl.arg, rec, got),
            W(cl, "PUBCOMP"))
    /\ ~W(cl, "PUBCOMP") => rec = {}

\* A topic has its handler, or SUBACK comes before the messages.
SubGood(arg) == {p \in Pkt : p \in SubOut => p.arg = arg}
Entered(t, handlers) == \E i \in DOMAIN handlers : handlers[i] = t
Coming(t, n, in, cl) == /\ W(cl, "SUBACK") /\ cl.arg = t
                        /\ \E i \in 1 .. n : in[i].type = "SUBACK" /\ in[i].arg = TRUE
Ordered(in, cl, subs, handlers) ==
  Len(handlers) < MaxHandlers =>
    /\ \A t \in subs : Entered(t, handlers) \/ Coming(t, Len(in), in, cl)
    /\ \A i \in DOMAIN in : in[i].type = "PUBLISH" =>
         Entered(in[i].arg, handlers) \/ Coming(in[i].arg, i - 1, in, cl)

SubExch ==
  call # Hung /\ "SUBACK" \notin hist.late =>
    Exch(net.out, net.in, SubOut, SubIn, SubGood(call.arg), Pkt, W(call, "SUBACK"))
SubOrder ==
  call # Hung /\ "SUBACK" \notin hist.late => Ordered(net.in, call, broker.subs, c.handlers)

AckInv == AckAt(net.out, net.in, call, hist.late, broker.got)
CompInv == CompAt(net.out, net.in, call, hist.late, broker.rec, broker.got)

Inv == Shape /\ PingInv /\ AckInv /\ CompInv /\ SubExch /\ SubOrder /\ HandlerFound /\ SentReceived

(***************************************************************************)
(* Part 3.  What the steps do to the connection.                           *)
(***************************************************************************)
\* A packet has its fields.
LEMMA PacketFields ==
    ASSUME NEW t \in Types, NEW id \in Nat
    PROVE  /\ Packet(t, id) \in Pkt
           /\ Packet(t, id).type = t /\ Packet(t, id).qos = 0 /\ Packet(t, id).id = id
           /\ Packet(t, id).arg = 0
BY DEF Packet, Pkt, Args

\* The outcomes of sendPacket.
LEMMA WriteEffect ==
    ASSUME NEW n \in [sock : {"open", "closed"}, up : BOOLEAN, out : Seq(Pkt), in : Seq(Pkt)],
           n.sock = "closed" => ~n.up, NEW x \in Pkt, NEW w \in Write(n, x)
    PROVE  /\ w.net \in [sock : {"open", "closed"}, up : BOOLEAN, out : Seq(Pkt), in : Seq(Pkt)]
           /\ w.net.sock = n.sock /\ w.net.up = n.up /\ w.net.in = n.in
           /\ w.net.out = n.out \/ (w.net.out = Append(n.out, x) /\ w.rc = "ok")
           /\ w.rc \in {"ok", "fail", "hang"}
           /\ w.rc = "hang" => n.sock = "closed"
           /\ w.rc = "ok" /\ n.up => w.net.out = Append(n.out, x)
           /\ w.rc = "fail" => ~n.up
<1>0. Append(n.out, x) \in Seq(Pkt)
  BY AppendSeq
<1>1. CASE n.sock = "closed"
  BY <1>1 DEF Write
<1>2. CASE n.sock # "closed" /\ n.up
  <2>1. PICK q \in Seq(Pkt) : q = Append(n.out, x)
    BY <1>0
  <2>2. w = [net |-> [n EXCEPT !.out = q], rc |-> "ok"]
    BY <1>2, <2>1 DEF Write
  <2> QED BY <1>2, <2>1, <2>2
<1>3. CASE n.sock # "closed" /\ ~n.up
  BY <1>3 DEF Write
<1> QED BY <1>1, <1>2, <1>3

\* One step of waitfor or MQTTYield: the packet p is read, an answer and a
\* ping are sent or not; done, the packet was awaited.
CycleEffect(p, done, late, out1) ==
  /\ Waiting /\ p \in Pkt /\ done \in BOOLEAN
  /\ net' \in Nets /\ net'.up = net.up
  /\ net'.sock = "closed" => ~net'.up
  /\ \/ p = Nothing /\ net'.in = net.in
     \/ net.in # << >> /\ p = Head(net.in) /\ net'.in = Tail(net.in)
  /\ out1 = net.out \/ \E a \in Answers(p) : out1 = Append(net.out, a)
  /\ net'.out = out1 \/ net'.out = Append(out1, Packet("PINGREQ", 0))
  /\ c'.ping \in BOOLEAN
  /\ c'.ping /\ net.up => \/ c.ping /\ p.type # "PINGRESP"
                          \/ net'.out = Append(out1, Packet("PINGREQ", 0))
  /\ c' = [(IF done THEN Completed(p) ELSE c) EXCEPT !.ping = c'.ping]
  /\ done => p.type = call.want
  /\ p.type = call.want /\ Answers(p) = {} => done
  /\ \/ call' = Hung /\ net'.sock = "closed"
     \/ call' = NoCall /\ (done \/ call.op = "yield")
     \/ ~done /\ call' = [call EXCEPT !.expired = late]
  /\ hist' = [hist EXCEPT
       !.ok = IF done /\ call.op = "publish" /\ call.want \notin hist.late
              THEN @ \cup {call.arg} ELSE @,
       !.missed = IF p.type = "PUBLISH" /\ p.arg \notin ToSet(c.handlers)
                  THEN @ \cup {p.arg} ELSE @]
  /\ UNCHANGED <<broker, app>>

\* What is sent back is one packet, of a type of its own.
LEMMA AnswerFields ==
    ASSUME NEW p \in Pkt
    PROVE  \A a \in Answers(p) :
             /\ a \in Pkt /\ a.id = p.id /\ a.type \in {"PUBACK", "PUBREC", "PUBREL"}
             /\ a.type = "PUBREL" <=> p.type = "PUBREC"
<1>1. p.id \in Nat
  BY DEF Pkt
<1>2. \A t \in {"PUBACK", "PUBREC", "PUBREL"} :
         Packet(t, p.id) \in Pkt /\ Packet(t, p.id).type = t /\ Packet(t, p.id).id = p.id
  BY <1>1, PacketFields DEF Types
<1>3. CASE p.type = "PUBLISH" /\ p.qos = 1
  BY <1>2, <1>3 DEF Answers
<1>4. CASE p.type = "PUBLISH" /\ p.qos = 2
  BY <1>2, <1>4 DEF Answers
<1>5. CASE p.type = "PUBREC"
  BY <1>2, <1>5 DEF Answers
<1>6. CASE p.type # "PUBREC" /\ ~(p.type = "PUBLISH" /\ p.qos = 1) /\ ~(p.type = "PUBLISH" /\ p.qos = 2)
  BY <1>6 DEF Answers
<1> QED BY <1>3, <1>4, <1>5, <1>6

\* cycle does that and nothing else.
LEMMA CycleDoes ==
    ASSUME Shape, NEW late \in BOOLEAN, NEW due \in BOOLEAN, Cycle(late, due)
    PROVE  \E p, done, out1 : CycleEffect(p, done, late, out1)
<1>0. net \in Nets /\ (net.sock = "closed" => ~net.up) /\ c.ping \in BOOLEAN
  BY DEF Shape, NetShape, Nets, ClientShape
<1>1. PICK r \in Read(late) : \E a \in Answer(r.net, r.packet, late) :
        \E k \in IF a.rc = "ok" THEN KeepAlive(a.net, c.ping /\ r.packet.type # "PINGRESP", due)
                 ELSE {[net |-> a.net, rc |-> "none"]} :
          LET p == r.packet
              done == a.rc = "ok" /\ Awaited(p)
          IN /\ net' = k.net
             /\ c' = [(IF done THEN Completed(p) ELSE c) EXCEPT !.ping = PingAfter(p, k)]
             /\ call' = IF "hang" \in {a.rc, k.rc} THEN Hung
                        ELSE IF done \/ (call.op = "yield" /\ a.rc = "fail") THEN NoCall
                        ELSE [call EXCEPT !.expired = late]
             /\ hist' = [hist EXCEPT
                  !.ok = IF done /\ call.op = "publish" /\ call.want \notin hist.late
                         THEN @ \cup {call.arg} ELSE @,
                  !.missed = IF p.type = "PUBLISH" /\ p.arg \notin ToSet(c.handlers)
                             THEN @ \cup {p.arg} ELSE @]
  BY DEF Cycle
<1>2. PICK a \in Answer(r.net, r.packet, late) :
        \E k \in IF a.rc = "ok" THEN KeepAlive(a.net, c.ping /\ r.packet.type # "PINGRESP", due)
                 ELSE {[net |-> a.net, rc |-> "none"]} :
          LET p == r.packet
              done == a.rc = "ok" /\ Awaited(p)
          IN /\ net' = k.net
             /\ c' = [(IF done THEN Completed(p) ELSE c) EXCEPT !.ping = PingAfter(p, k)]
             /\ call' = IF "hang" \in {a.rc, k.rc} THEN Hung
                        ELSE IF done \/ (call.op = "yield" /\ a.rc = "fail") THEN NoCall
                        ELSE [call EXCEPT !.expired = late]
             /\ hist' = [hist EXCEPT
                  !.ok = IF done /\ call.op = "publish" /\ call.want \notin hist.late
                         THEN @ \cup {call.arg} ELSE @,
                  !.missed = IF p.type = "PUBLISH" /\ p.arg \notin ToSet(c.handlers)
                             THEN @ \cup {p.arg} ELSE @]
  BY <1>1
<1> DEFINE done == a.rc = "ok" /\ r.packet.type = call.want
<1>3. PICK k \in IF a.rc = "ok" THEN KeepAlive(a.net, c.ping /\ r.packet.type # "PINGRESP", due)
                 ELSE {[net |-> a.net, rc |-> "none"]} :
        /\ net' = k.net
        /\ c' = [(IF done THEN Completed(r.packet) ELSE c) EXCEPT !.ping = PingAfter(r.packet, k)]
        /\ call' = IF "hang" \in {a.rc, k.rc} THEN Hung
                   ELSE IF done \/ (call.op = "yield" /\ a.rc = "fail") THEN NoCall
                   ELSE [call EXCEPT !.expired = late]
        /\ hist' = [hist EXCEPT
             !.ok = IF done /\ call.op = "publish" /\ call.want \notin hist.late
                    THEN @ \cup {call.arg} ELSE @,
             !.missed = IF r.packet.type = "PUBLISH" /\ r.packet.arg \notin ToSet(c.handlers)
                        THEN @ \cup {r.packet.arg} ELSE @]
  BY <1>2 DEF Awaited
<1>4. /\ r.packet \in Pkt /\ r.net \in Nets /\ r.net.up = net.up /\ r.net.out = net.out
      /\ r.net.sock = "closed" => ~r.net.up
      /\ \/ r.packet = Nothing /\ r.net.in = net.in
         \/ net.in # << >> /\ r.packet = Head(net.in) /\ r.net.in = Tail(net.in)
  <2>1. Nothing \in Pkt
    BY PacketFields DEF Nothing, Types
  <2>2. CASE net.sock = "open" /\ net.in # << >>
    <3>1. Head(net.in) \in Pkt /\ Tail(net.in) \in Seq(Pkt)
      BY <1>0, <2>2, TailSeq DEF Nets
    <3>2. r = [net |-> [net EXCEPT !.in = Tail(net.in)], packet |-> Head(net.in)]
      BY <2>2 DEF Read
    <3> QED BY <1>0, <2>2, <3>1, <3>2 DEF Nets
  <2>3. CASE ~(net.sock = "open" /\ net.in # << >>) /\ net.sock = "open" /\ ~net.up
    <3>1. r = [net |-> [net EXCEPT !.sock = "closed"], packet |-> Nothing]
      BY <2>3 DEF Read
    <3> QED BY <1>0, <2>1, <2>3, <3>1 DEF Nets
  <2>4. CASE ~(net.sock = "open" /\ net.in # << >>) /\ ~(net.sock = "open" /\ ~net.up)
    <3>1. r = [net |-> net, packet |-> Nothing]
      BY <2>4 DEF Read
    <3> QED BY <1>0, <2>1, <3>1 DEF Nets
  <2> QED BY <2>2, <2>3, <2>4
<1>5. /\ a.net \in Nets /\ a.net.sock = r.net.sock /\ a.net.up = r.net.up /\ a.net.in = r.net.in
      /\ a.net.out = r.net.out \/ \E x \in Answers(r.packet) : a.net.out = Append(r.net.out, x)
      /\ a.rc \in {"ok", "fail", "hang"}
      /\ a.rc = "hang" => r.net.sock = "closed"
      /\ Answers(r.packet) = {} => a.rc = "ok"
  <2>1. CASE Answers(r.packet) = {}
    BY <1>4, <2>1 DEF Answer
  <2>2. CASE Answers(r.packet) # {} /\ late
    BY <1>4, <2>2 DEF Answer
  <2>3. CASE Answers(r.packet) # {} /\ ~late
    <3>1. PICK x \in Answers(r.packet) : a \in Write(r.net, x)
      BY <2>3 DEF Answer
    <3>2. x \in Pkt
      BY <1>4, AnswerFields
    <3> QED BY <1>4, <2>3, <3>1, <3>2, WriteEffect DEF Nets
  <2> QED BY <2>1, <2>2, <2>3
<1>6. /\ k.net \in Nets /\ k.net.sock = a.net.sock /\ k.net.up = a.net.up /\ k.net.in = a.net.in
      /\ k.net.out = a.net.out \/ k.net.out = Append(a.net.out, Packet("PINGREQ", 0))
      /\ k.rc = "hang" => a.net.sock = "closed"
      /\ k.rc = "ok" /\ net.up => k.net.out = Append(a.net.out, Packet("PINGREQ", 0))
  <2>1. Packet("PINGREQ", 0) \in Pkt
    BY PacketFields DEF Types
  <2>2. k = [net |-> a.net, rc |-> "none"] \/ k \in Write(a.net, Packet("PINGREQ", 0))
    BY <1>3 DEF KeepAlive
  <2>3. CASE k = [net |-> a.net, rc |-> "none"]
    BY <1>5, <2>3
  <2>4. CASE k \in Write(a.net, Packet("PINGREQ", 0))
    BY <1>4, <1>5, <2>1, <2>4, WriteEffect DEF Nets
  <2> QED BY <2>2, <2>3, <2>4
<1>7. PingAfter(r.packet, k) \in BOOLEAN
  BY DEF PingAfter
<1>8. c'.ping = PingAfter(r.packet, k)
  <2>1. "ping" \in DOMAIN c /\ DOMAIN Completed(r.packet) = DOMAIN c
    BY DEF Shape, ClientShape, Completed
  <2> QED BY <1>3, <2>1
<1>9. CycleEffect(r.packet, done, late, a.net.out)
  <2>1. Waiting /\ UNCHANGED <<broker, app>>
    BY DEF Cycle
  <2>2. c' = [(IF done THEN Completed(r.packet) ELSE c) EXCEPT !.ping = c'.ping]
    BY <1>3, <1>8
  <2>3. \/ call' = Hung /\ net'.sock = "closed"
        \/ call' = NoCall /\ (done \/ call.op = "yield")
        \/ ~done /\ call' = [call EXCEPT !.expired = late]
    BY <1>3, <1>5, <1>6
  <2>4. c'.ping /\ net.up => \/ c.ping /\ r.packet.type # "PINGRESP"
                             \/ net'.out = Append(a.net.out, Packet("PINGREQ", 0))
    BY <1>3, <1>6, <1>8 DEF PingAfter
  <2>5. /\ net' \in Nets /\ net'.up = net.up
        /\ net'.sock = "closed" => ~net'.up
        /\ \/ r.packet = Nothing /\ net'.in = net.in
           \/ net.in # << >> /\ r.packet = Head(net.in) /\ net'.in = Tail(net.in)
        /\ a.net.out = net.out \/ \E x \in Answers(r.packet) : a.net.out = Append(net.out, x)
        /\ net'.out = a.net.out \/ net'.out = Append(a.net.out, Packet("PINGREQ", 0))
    BY <1>3, <1>4, <1>5, <1>6
  <2>6. done \in BOOLEAN /\ (r.packet.type = call.want /\ Answers(r.packet) = {} => done)
    BY <1>5
  <2> HIDE DEF done
  <2>7. done => r.packet.type = call.want
    BY DEF done
  <2> QED BY <1>3, <1>4, <1>7, <1>8, <2>1, <2>2, <2>3, <2>4, <2>5, <2>6, <2>7 DEF CycleEffect
<1> QED BY <1>9

\* What the packet was that the client has read.
LEMMA CycleRead ==
    ASSUME Shape, NEW p, NEW done, NEW late, NEW out1, CycleEffect(p, done, late, out1)
    PROVE  /\ p \in InPkt /\ net'.in \in Seq(InPkt)
           /\ call \in Calls /\ (p.type = call.want => p # Nothing)
           /\ p # Nothing => net.in # << >> /\ p = Head(net.in) /\ net'.in = Tail(net.in)
<1>1. Nothing \in InPkt /\ Nothing.type = "NOTHING"
  BY PacketFields DEF Nothing, Types, InPkt
<1>2. call \in Calls
  BY DEF CycleEffect, Waiting, Shape, ClientShape, NoCall, Hung
<1>3. call.want # "NOTHING"
  BY <1>2 DEF Calls
<1>4. net.in # << >> => Head(net.in) \in InPkt /\ Tail(net.in) \in Seq(InPkt)
  BY TailSeq DEF Shape, NetShape
<1> QED BY <1>1, <1>2, <1>3, <1>4 DEF CycleEffect, Shape, NetShape

\* What it has sent.
LEMMA CycleSent ==
    ASSUME Shape, NEW p, NEW done, NEW late, NEW out1, CycleEffect(p, done, late, out1)
    PROVE  /\ out1 \in Seq(OutPkt(hist.commands)) /\ net'.out \in Seq(OutPkt(hist.commands))
           /\ Packet("PINGREQ", 0) \in OutPkt(hist.commands)
           /\ Packet("PINGREQ", 0).type = "PINGREQ"
<1>1. \A a \in Answers(p) : a \in OutPkt(hist.commands)
  BY AnswerFields DEF CycleEffect, OutPkt
<1>2. Packet("PINGREQ", 0) \in OutPkt(hist.commands) /\ Packet("PINGREQ", 0).type = "PINGREQ"
  BY PacketFields DEF Types, OutPkt
<1>3. out1 \in Seq(OutPkt(hist.commands))
  <2>1. net.out \in Seq(OutPkt(hist.commands))
    BY DEF Shape, NetShape
  <2>2. \A a \in OutPkt(hist.commands) : Append(net.out, a) \in Seq(OutPkt(hist.commands))
    BY <2>1, AppendSeq
  <2>3. out1 = net.out \/ \E a \in Answers(p) : out1 = Append(net.out, a)
    BY DEF CycleEffect
  <2> QED BY <1>1, <2>1, <2>2, <2>3
<1>4. net'.out \in Seq(OutPkt(hist.commands))
  <2>1. Append(out1, Packet("PINGREQ", 0)) \in Seq(OutPkt(hist.commands))
    BY <1>2, <1>3, AppendSeq
  <2>2. net'.out = out1 \/ net'.out = Append(out1, Packet("PINGREQ", 0))
    BY DEF CycleEffect
  <2> QED BY <1>3, <2>1, <2>2
<1> QED BY <1>2, <1>3, <1>4

\* cycle keeps the shape.
LEMMA ShapeCycle ==
    ASSUME Shape, NEW p, NEW done, NEW late \in BOOLEAN, NEW out1,
           CycleEffect(p, done, late, out1)
    PROVE  Shape'
<1>0. /\ p \in InPkt /\ net'.in \in Seq(InPkt) /\ call \in Calls
      /\ net'.out \in Seq(OutPkt(hist.commands))
  BY CycleRead, CycleSent
<1>1. /\ done \in BOOLEAN
      /\ hist' = [hist EXCEPT
           !.ok = IF done /\ call.op = "publish" /\ call.want \notin hist.late
                  THEN @ \cup {call.arg} ELSE @,
           !.missed = IF p.type = "PUBLISH" /\ p.arg \notin ToSet(c.handlers)
                      THEN @ \cup {p.arg} ELSE @]
      /\ broker' = broker /\ app' = app
      /\ done => p.type = call.want
      /\ c' = [(IF done THEN Completed(p) ELSE c) EXCEPT !.ping = c'.ping] /\ c'.ping \in BOOLEAN
  BY DEF CycleEffect
<1>2. /\ call' \in {NoCall, Hung} \/ call' = [call EXCEPT !.expired = late]
  BY DEF CycleEffect
<1>3. call' \in Calls \cup {NoCall, Hung} /\ (Waiting' => call'.op = call.op /\ call'.arg = call.arg)
  <2>1. [call EXCEPT !.expired = late] \in Calls
    BY <1>0 DEF Calls
  <2>2. [call EXCEPT !.expired = late].op = call.op /\ [call EXCEPT !.expired = late].arg = call.arg
    BY <1>0 DEF Calls
  <2>3. CASE call' \in {NoCall, Hung}
    BY <2>3 DEF Waiting, NoCall, Hung
  <2>4. CASE call' = [call EXCEPT !.expired = late]
    BY <2>1, <2>2, <2>4
  <2> QED BY <1>2, <2>3, <2>4
<1>4. call.op = "publish" => call.arg \in 1 .. hist.commands
  BY <1>0 DEF Shape, HistShape, Waiting, CycleEffect
<1>5. HistShape'
  <2>1. p.type = "PUBLISH" => p.arg \in Topic
    BY <1>0 DEF InPkt
  <2>2. hist'.commands = hist.commands /\ hist'.ok \subseteq 1 .. hist.commands
    BY <1>1, <1>4 DEF Shape, HistShape
  <2>3. hist' \in [opens : Nat, commands : Nat, pushes : Nat, late : SUBSET WaitedFor, ok : SUBSET Nat,
                   missed : SUBSET Topic]
    <3>1. PICK o \in SUBSET Nat : o = IF done /\ call.op = "publish" /\ call.want \notin hist.late
                                     THEN hist.ok \cup {call.arg} ELSE hist.ok
      <4>1. hist.ok \subseteq Nat /\ (call.op = "publish" => call.arg \in Nat)
        BY <1>4 DEF Shape, HistShape
      <4>2. CASE done /\ call.op = "publish" /\ call.want \notin hist.late
        BY <4>1, <4>2
      <4>3. CASE ~(done /\ call.op = "publish" /\ call.want \notin hist.late)
        BY <4>1, <4>3
      <4> QED BY <4>2, <4>3
    <3>2. PICK m \in SUBSET Topic : m = IF p.type = "PUBLISH" /\ p.arg \notin ToSet(c.handlers)
                                       THEN hist.missed \cup {p.arg} ELSE hist.missed
      BY <2>1 DEF Shape, HistShape
    <3>3. hist' = [hist EXCEPT !.ok = o, !.missed = m]
      BY <1>1, <3>1, <3>2
    <3> QED BY <3>3 DEF Shape, HistShape
  <2>4. (Waiting /\ call.op = "publish" => call.arg \in 1 .. hist.commands)'
    BY <1>3, <1>4, <2>2
  <2> QED BY <1>1, <2>2, <2>3, <2>4 DEF Shape, HistShape
<1>6. ClientShape'
  <2>1. /\ Completed(p) = [c EXCEPT !.isconnected = IF p.type = "CONNACK" THEN p.arg ELSE @,
                                    !.handlers = IF p.type = "SUBACK" /\ p.arg /\ HasRoom
                                                 THEN Append(@, call.arg) ELSE @]
    BY DEF Completed
  <2>2. p.type = "CONNACK" => p.arg \in BOOLEAN
    BY <1>0 DEF InPkt
  <2>3. p.type = "SUBACK" /\ done => call.arg \in Topic
    BY <1>0, <1>1 DEF Calls
  <2>4. PICK h : h = IF p.type = "SUBACK" /\ p.arg /\ HasRoom
                     THEN Append(c.handlers, call.arg) ELSE c.handlers
    OBVIOUS
  <2>5. done => h \in Seq(Topic) /\ Len(h) <= MaxHandlers
    <3>1. c.handlers \in Seq(Topic) /\ Len(c.handlers) <= MaxHandlers /\ MaxHandlers \in Nat
      BY MqttAssumption DEF Shape, ClientShape
    <3>2. CASE p.type = "SUBACK" /\ p.arg /\ HasRoom /\ done
      <4>1. Append(c.handlers, call.arg) \in Seq(Topic)
            /\ Len(Append(c.handlers, call.arg)) = Len(c.handlers) + 1 /\ Len(c.handlers) \in Nat
        BY <2>3, <3>1, <3>2, AppendSeq
      <4> QED BY <2>4, <3>1, <3>2, <4>1 DEF HasRoom
    <3>3. CASE ~(p.type = "SUBACK" /\ p.arg /\ HasRoom)
      BY <2>4, <3>1, <3>3
    <3> QED BY <3>2, <3>3
  <2>6. done => c' = [c EXCEPT !.isconnected = IF p.type = "CONNACK" THEN p.arg ELSE @,
                               !.handlers = h, !.ping = c'.ping]
    BY <1>1, <2>1, <2>4
  <2>7. ~done => c' = [c EXCEPT !.ping = c'.ping]
    BY <1>1
  <2>8. /\ c' \in [isconnected : BOOLEAN, ping : BOOLEAN, next : 0 .. MaxPacketId,
                   handlers : Seq(Topic)]
        /\ Len(c'.handlers) <= MaxHandlers
    <3>1. CASE done
      BY <1>1, <2>2, <2>5, <2>6, <3>1 DEF Shape, ClientShape
    <3>2. CASE ~done
      BY <1>1, <2>7, <3>2 DEF Shape, ClientShape
    <3> QED BY <3>1, <3>2
  <2> QED BY <1>1, <1>3, <2>8 DEF Shape, ClientShape
<1>7. NetShape'
  <2>1. hist'.commands = hist.commands
    BY <1>1 DEF Shape, HistShape
  <2>2. /\ net' \in Nets
        /\ net'.sock = "closed" => ~net'.up
        /\ call' = Hung => net'.sock = "closed"
    BY <1>0 DEF CycleEffect, Hung, NoCall, Calls
  <2> QED BY <1>0, <2>1, <2>2 DEF NetShape
<1> QED BY <1>5, <1>6, <1>7 DEF Shape

\* A command sends the packet p and goes on with then, or fails.
CommandEffect(p, then) ==
  /\ call = NoCall
  /\ p \in OutPkt(hist.commands + 1) /\ p.id \in 0 .. MaxPacketId
  /\ then \in Calls \cup {NoCall}
  /\ then.op = "publish" => then.arg \in 1 .. hist.commands + 1
  /\ p \in AckOut => W(then, "PUBACK") /\ p.arg = then.arg
  /\ p \in CompOut => W(then, "PUBCOMP") /\ p.arg = then.arg /\ p \in Pub(2)
  /\ p \in SubOut => W(then, "SUBACK") /\ p.arg = then.arg
  /\ net' \in Nets /\ net'.up = net.up /\ net'.in = net.in /\ net'.sock = net.sock
  /\ \/ net'.out = net.out /\ call' \in {then, NoCall, Hung}
     \/ net'.out = Append(net.out, p) /\ call' = then
  /\ call' = Hung => net.sock = "closed"
  /\ c' = [c EXCEPT !.next = p.id]
  /\ hist' = [hist EXCEPT !.commands = @ + 1]
  /\ UNCHANGED <<broker, app>>

\* The next identifier is never 0.
LEMMA NextId == ASSUME Shape PROVE NextPacketId \in 1 .. MaxPacketId
BY MqttAssumption DEF Shape, ClientShape, NextPacketId

\* A command does that and nothing else.
LEMMA CommandDoes ==
    ASSUME Shape, NEW p, NEW then, Command(p, then),
           p \in OutPkt(hist.commands + 1), p.id \in 0 .. MaxPacketId,
           then \in Calls \cup {NoCall},
           then.op = "publish" => then.arg \in 1 .. hist.commands + 1,
           p \in AckOut => W(then, "PUBACK") /\ p.arg = then.arg,
           p \in CompOut => W(then, "PUBCOMP") /\ p.arg = then.arg /\ p \in Pub(2),
           p \in SubOut => W(then, "SUBACK") /\ p.arg = then.arg
    PROVE  CommandEffect(p, then)
<1>1. PICK w \in Write(net, p) :
        /\ net' = w.net
        /\ call' = CASE w.rc = "ok" -> then [] w.rc = "hang" -> Hung [] OTHER -> NoCall
  BY DEF Command
<1>2. p \in Pkt /\ net \in Nets /\ (net.sock = "closed" => ~net.up)
  BY DEF OutPkt, Shape, NetShape
<1>3. /\ w.net \in Nets
      /\ w.net.sock = net.sock /\ w.net.up = net.up /\ w.net.in = net.in
      /\ w.net.out = net.out \/ (w.net.out = Append(net.out, p) /\ w.rc = "ok")
      /\ w.rc \in {"ok", "fail", "hang"}
      /\ w.rc = "hang" => net.sock = "closed"
  BY <1>2, WriteEffect DEF Nets
<1>4. then # Hung
  BY DEF Calls, NoCall, Hung
<1>5. call' \in {then, NoCall, Hung} /\ (w.rc = "ok" => call' = then) /\ (call' = Hung => w.rc = "hang")
  BY <1>1, <1>3, <1>4 DEF NoCall, Hung
<1> QED BY <1>1, <1>3, <1>5 DEF CommandEffect, Command

\* The commands send packets of their own.
LEMMA CommandsDo ==
    ASSUME Shape,
           \/ \E t \in Topic : MQTTSubscribe(t) \/ MQTTUnsubscribe(t)
           \/ \E q \in 0 .. 2 : MQTTPublish(q)
    PROVE  \E p, then : CommandEffect(p, then)
<1>0. /\ NextPacketId \in 1 .. MaxPacketId /\ NextPacketId \in Nat /\ MaxPacketId \in Nat
      /\ c.next \in 0 .. MaxPacketId /\ c.next \in Nat
      /\ hist.commands \in Nat
  BY NextId, MqttAssumption DEF Shape, ClientShape, HistShape
<1>1. ASSUME NEW t \in Topic, NEW x \in {"SUBSCRIBE", "UNSUBSCRIBE"}
      PROVE  /\ [Packet(x, NextPacketId) EXCEPT !.arg = t] \in Pkt
             /\ [Packet(x, NextPacketId) EXCEPT !.arg = t].type = x
             /\ [Packet(x, NextPacketId) EXCEPT !.arg = t].arg = t
             /\ [Packet(x, NextPacketId) EXCEPT !.arg = t].id = NextPacketId
  BY <1>0 DEF Packet, Pkt, Types, Args
<1>2. ASSUME NEW t \in Topic, MQTTSubscribe(t)
      PROVE  \E p, then : CommandEffect(p, then)
  <2>1. PICK p : p = [Packet("SUBSCRIBE", NextPacketId) EXCEPT !.arg = t]
    OBVIOUS
  <2>2. p \in Pkt /\ p.type = "SUBSCRIBE" /\ p.arg = t /\ p.id = NextPacketId
    BY <1>1, <2>1
  <2>3. PICK then : then = [op |-> "subscribe", want |-> "SUBACK", arg |-> t, expired |-> FALSE]
    OBVIOUS
  <2>4. Command(p, then)
    BY <1>2, <2>1, <2>3 DEF MQTTSubscribe, Begin
  <2>5. /\ then \in Calls /\ then.op = "subscribe" /\ W(then, "SUBACK") /\ then.arg = t
    BY <2>3 DEF Calls, W
  <2>6. p \in OutPkt(hist.commands + 1) /\ p \notin AckOut /\ p \notin CompOut
    BY <2>2 DEF OutPkt, AckOut, CompOut, Pub, OfType
  <2> QED BY <1>0, <2>2, <2>4, <2>5, <2>6, CommandDoes
<1>3. ASSUME NEW t \in Topic, MQTTUnsubscribe(t)
      PROVE  \E p, then : CommandEffect(p, then)
  <2>1. PICK p : p = [Packet("UNSUBSCRIBE", NextPacketId) EXCEPT !.arg = t]
    OBVIOUS
  <2>2. p \in Pkt /\ p.type = "UNSUBSCRIBE" /\ p.arg = t /\ p.id = NextPacketId
    BY <1>1, <2>1
  <2>3. PICK then : then = [op |-> "unsubscribe", want |-> "UNSUBACK", arg |-> t, expired |-> FALSE]
    OBVIOUS
  <2>4. Command(p, then)
    BY <1>3, <2>1, <2>3 DEF MQTTUnsubscribe, Begin
  <2>5. then \in Calls /\ then.op = "unsubscribe"
    BY <2>3 DEF Calls
  <2>6. p \in OutPkt(hist.commands + 1) /\ p \notin AckOut /\ p \notin CompOut /\ p \notin SubOut
    BY <2>2 DEF OutPkt, AckOut, CompOut, SubOut, Pub, OfType
  <2> QED BY <1>0, <2>2, <2>4, <2>5, <2>6, CommandDoes
<1>4. ASSUME NEW q \in 0 .. 2, MQTTPublish(q)
      PROVE  \E p, then : CommandEffect(p, then)
  <2>1. PICK id \in 0 .. MaxPacketId : id = IF q = 0 THEN c.next ELSE NextPacketId
    BY <1>0
  <2>2. PICK m \in Nat : m = hist.commands + 1
    BY <1>0
  <2>3. PICK p : p = [type |-> "PUBLISH", qos |-> q, id |-> id, arg |-> m]
    OBVIOUS
  <2>4. p \in Pkt /\ p.type = "PUBLISH" /\ p.qos = q /\ p.arg = m /\ p.id = id
    BY <1>0, <2>3 DEF Pkt, Types, Args
  <2>5. PICK then : then = IF q = 0 THEN NoCall ELSE Begin("publish", PublishWant(q), m)
    OBVIOUS
  <2>6. Command(p, then)
    BY <1>4, <2>1, <2>2, <2>3, <2>5 DEF MQTTPublish
  <2>7. p \in OutPkt(hist.commands + 1) /\ p \notin SubOut
    BY <1>0, <2>1, <2>2, <2>4 DEF OutPkt, SubOut, OfType
  <2>8. CASE q = 0
    <3>1. p \notin AckOut /\ p \notin CompOut /\ then = NoCall /\ then.op = "none"
      BY <2>4, <2>5, <2>8 DEF AckOut, CompOut, Pub, OfType, NoCall
    <3> QED BY <2>4, <2>6, <2>7, <3>1, CommandDoes
  <2>9. CASE q = 1
    <3>1. then = [op |-> "publish", want |-> "PUBACK", arg |-> m, expired |-> FALSE]
      BY <2>5, <2>9 DEF Begin, PublishWant
    <3>2. then \in Calls /\ W(then, "PUBACK") /\ then.arg = m
      BY <3>1 DEF Calls, W
    <3>3. p \notin CompOut
      BY <2>4, <2>9 DEF CompOut, Pub, OfType
    <3>4. m \in 1 .. hist.commands + 1
      BY <1>0, <2>2
    <3> QED BY <2>4, <2>6, <2>7, <3>2, <3>3, <3>4, CommandDoes
  <2>10. CASE q = 2
    <3>1. then = [op |-> "publish", want |-> "PUBCOMP", arg |-> m, expired |-> FALSE]
      BY <2>5, <2>10 DEF Begin, PublishWant
    <3>2. then \in Calls /\ W(then, "PUBCOMP") /\ then.arg = m
      BY <3>1 DEF Calls, W
    <3>3. p \notin AckOut /\ p \in Pub(2)
      BY <2>4, <2>10 DEF AckOut, Pub
    <3>4. m \in 1 .. hist.commands + 1
      BY <1>0, <2>2
    <3> QED BY <2>4, <2>6, <2>7, <3>2, <3>3, <3>4, CommandDoes
  <2> QED BY <2>8, <2>9, <2>10
<1> QED BY <1>2, <1>3, <1>4

\* More commands, more messages.
LEMMA OutPktGrows ==
    ASSUME NEW n \in Nat, NEW s \in Seq(OutPkt(n))
    PROVE  s \in Seq(OutPkt(n + 1))
<1>1. OutPkt(n) \subseteq OutPkt(n + 1)
  BY DEF OutPkt
<1> QED BY <1>1, SeqMonotonic

\* The commands keep the shape.
LEMMA ShapeCommand ==
    ASSUME Shape, NEW p, NEW then, CommandEffect(p, then)
    PROVE  Shape'
<1>1. /\ p \in OutPkt(hist.commands + 1) /\ p.id \in 0 .. MaxPacketId
      /\ then \in Calls \cup {NoCall} /\ (then.op = "publish" => then.arg \in 1 .. hist.commands + 1)
      /\ net' \in Nets /\ net'.up = net.up /\ net'.in = net.in /\ net'.sock = net.sock
      /\ net'.out = net.out \/ net'.out = Append(net.out, p)
      /\ call' \in {then, NoCall, Hung} /\ (call' = Hung => net.sock = "closed")
      /\ c' = [c EXCEPT !.next = p.id]
      /\ hist' = [hist EXCEPT !.commands = @ + 1]
      /\ broker' = broker /\ app' = app
  BY DEF CommandEffect
<1>2. ClientShape'
  BY <1>1 DEF Shape, ClientShape
<1>3. hist.commands \in Nat /\ hist'.commands = hist.commands + 1
  BY <1>1 DEF Shape, HistShape
<1>4. HistShape'
  <2>1. hist' \in [opens : Nat, commands : Nat, pushes : Nat, late : SUBSET WaitedFor, ok : SUBSET Nat,
                   missed : SUBSET Topic] /\ hist'.ok = hist.ok
    BY <1>1 DEF Shape, HistShape
  <2>2. broker'.got \subseteq 1 .. hist'.commands /\ hist'.ok \subseteq 1 .. hist'.commands
    BY <1>1, <1>3, <2>1 DEF Shape, HistShape
  <2>3. (Waiting /\ call.op = "publish" => call.arg \in 1 .. hist.commands)'
    BY <1>1, <1>3 DEF Waiting, NoCall, Hung
  <2> QED BY <1>1, <2>1, <2>2, <2>3 DEF Shape, HistShape
<1>5. net'.out \in Seq(OutPkt(hist.commands + 1))
  <2>1. net.out \in Seq(OutPkt(hist.commands + 1))
    BY <1>3, OutPktGrows DEF Shape, NetShape
  <2>2. Append(net.out, p) \in Seq(OutPkt(hist.commands + 1))
    BY <1>1, <2>1, AppendSeq
  <2> QED BY <1>1, <2>1, <2>2
<1>6. NetShape'
  BY <1>1, <1>3, <1>5 DEF Shape, NetShape
<1> QED BY <1>2, <1>4, <1>6 DEF Shape

\* What the broker replies.
LEMMA ReplyFields ==
    ASSUME NEW p \in Pkt, NEW accept \in BOOLEAN
    PROVE  \/ /\ Reply(p, accept) = << >>
              /\ p.type \notin {"SUBSCRIBE", "PUBREL", "PINGREQ"} /\ p \notin Pub(1) /\ p \notin Pub(2)
           \/ \E y \in InPkt :
                /\ Reply(p, accept) = <<y>> /\ y.id = p.id /\ y.arg = accept /\ y.type # "PUBLISH"
                /\ y.type = "PUBACK" <=> p \in Pub(1)
                /\ y.type = "PUBREC" <=> p \in Pub(2)
                /\ y.type = "PUBCOMP" <=> p.type = "PUBREL"
                /\ y.type = "SUBACK" <=> p.type = "SUBSCRIBE"
                /\ y.type = "PINGRESP" <=> p.type = "PINGREQ"
<1> USE DEF Pub
<1>0. p.id \in Nat
  BY DEF Pkt
<1>1. ASSUME NEW t \in {"CONNACK", "SUBACK", "UNSUBACK", "PUBACK", "PUBREC", "PUBCOMP", "PUBREL",
                        "PINGRESP"}
      PROVE  /\ [Packet(t, p.id) EXCEPT !.arg = accept] \in InPkt
             /\ [Packet(t, p.id) EXCEPT !.arg = accept].type = t
             /\ [Packet(t, p.id) EXCEPT !.arg = accept].id = p.id
             /\ [Packet(t, p.id) EXCEPT !.arg = accept].arg = accept
  BY <1>0 DEF Packet, Pkt, InPkt, Types, Args
<1>2. CASE p.type \in {"CONNECT", "SUBSCRIBE", "UNSUBSCRIBE"}
  BY <1>1, <1>2 DEF Reply
<1>3. CASE p.type = "PUBLISH" /\ p.qos = 1
  <2>1. PICK y \in InPkt : y = [Packet("PUBACK", p.id) EXCEPT !.arg = accept]
    BY <1>1
  <2>2. Reply(p, accept) = <<y>>
    BY <1>3, <2>1 DEF Reply
  <2>3. y.type = "PUBACK" /\ y.id = p.id /\ y.arg = accept
    BY <1>1, <2>1
  <2>4. p \in Pub(1) /\ p \notin Pub(2) /\ p.type = "PUBLISH"
    BY <1>3
  <2> HIDE DEF Pub
  <2> QED BY <2>2, <2>3, <2>4
<1>4. CASE p.type = "PUBLISH" /\ p.qos = 2
  <2>1. PICK y \in InPkt : y = [Packet("PUBREC", p.id) EXCEPT !.arg = accept]
    BY <1>1
  <2>2. Reply(p, accept) = <<y>>
    BY <1>4, <2>1 DEF Reply
  <2>3. y.type = "PUBREC" /\ y.id = p.id /\ y.arg = accept
    BY <1>1, <2>1
  <2>4. p \in Pub(2) /\ p \notin Pub(1) /\ p.type = "PUBLISH"
    BY <1>4
  <2> HIDE DEF Pub
  <2> QED BY <2>2, <2>3, <2>4
<1>5. CASE p.type \in {"PUBREL", "PUBREC", "PINGREQ"}
  BY <1>1, <1>5 DEF Reply
<1>6. CASE /\ p.type \notin {"CONNECT", "SUBSCRIBE", "UNSUBSCRIBE", "PUBREL", "PUBREC", "PINGREQ"}
           /\ ~(p.type = "PUBLISH" /\ p.qos = 1) /\ ~(p.type = "PUBLISH" /\ p.qos = 2)
  BY <1>6 DEF Reply
<1> QED BY <1>2, <1>3, <1>4, <1>5, <1>6

\* What the broker keeps of a packet.
LEMMA RememberFields ==
    ASSUME Shape, NEW p \in OutPkt(hist.commands), NEW accept \in BOOLEAN
    PROVE  /\ Remember(p, accept) \in
                [subs : SUBSET Topic, rec : SUBSET (1 .. MaxPacketId), got : SUBSET Nat]
           /\ Remember(p, accept).got \subseteq 1 .. hist.commands
           /\ broker.got \subseteq Remember(p, accept).got
           /\ p \in Pub(1) => p.arg \in Remember(p, accept).got
           /\ p \in Pub(2) /\ broker.rec = {} =>
                p.arg \in Remember(p, accept).got /\ Remember(p, accept).rec = {p.id}
           /\ p.type = "PUBREL" => Remember(p, accept).rec = broker.rec \ {p.id}
           /\ p \notin Pub(2) /\ p.type # "PUBREL" => Remember(p, accept).rec = broker.rec
           /\ ~(p.type = "SUBSCRIBE" /\ accept) => Remember(p, accept).subs \subseteq broker.subs
           /\ Remember(p, accept).subs \subseteq broker.subs \cup {p.arg}
<1> USE DEF Pub, OutPkt
<1>0. /\ broker \in [subs : SUBSET Topic, rec : SUBSET (1 .. MaxPacketId), got : SUBSET Nat]
      /\ broker.got \subseteq 1 .. hist.commands /\ hist.commands \in Nat
  BY DEF Shape, HistShape
<1>1. CASE p.type = "SUBSCRIBE" /\ accept
  <2>1. Remember(p, accept) = [broker EXCEPT !.subs = broker.subs \cup {p.arg}]
    BY <1>1 DEF Remember
  <2>2. PICK u \in SUBSET Topic : u = broker.subs \cup {p.arg}
    BY <1>0, <1>1
  <2>3. Remember(p, accept) = [broker EXCEPT !.subs = u]
    BY <2>1, <2>2
  <2> QED BY <1>0, <1>1, <2>2, <2>3
<1>2. CASE p.type = "UNSUBSCRIBE"
  <2>1. Remember(p, accept) = [broker EXCEPT !.subs = broker.subs \ {p.arg}]
    BY <1>2 DEF Remember
  <2> QED BY <1>0, <1>2, <2>1
<1>3. CASE p.type = "PUBLISH" /\ (p.qos < 2 \/ p.id \notin broker.rec)
  <2>0. p.qos \in 0 .. 2 /\ p.arg \in 1 .. hist.commands /\ p \in Pkt
        /\ (p.qos = 2 => p.id \in 1 .. MaxPacketId)
    BY <1>3 DEF Pkt
  <2>1. PICK r \in SUBSET (1 .. MaxPacketId) :
          r = IF p.qos = 2 THEN broker.rec \cup {p.id} ELSE broker.rec
    BY <1>0, <2>0
  <2>2. Remember(p, accept) = [broker EXCEPT !.got = broker.got \cup {p.arg}, !.rec = r]
    BY <1>3, <2>1 DEF Remember
  <2>3. PICK g \in SUBSET Nat : g = broker.got \cup {p.arg} /\ g \subseteq 1 .. hist.commands
    <3>1. broker.got \cup {p.arg} \subseteq 1 .. hist.commands
      BY <1>0, <2>0
    <3>2. 1 .. hist.commands \subseteq Nat
      BY <1>0
    <3> QED BY <3>1, <3>2
  <2>4. Remember(p, accept) = [broker EXCEPT !.got = g, !.rec = r]
    BY <2>2, <2>3
  <2>5. /\ Remember(p, accept).got = g /\ Remember(p, accept).rec = r
        /\ Remember(p, accept).subs = broker.subs
        /\ Remember(p, accept) \in
                [subs : SUBSET Topic, rec : SUBSET (1 .. MaxPacketId), got : SUBSET Nat]
    BY <1>0, <2>4
  <2>6. p \in Pub(2) /\ broker.rec = {} => r = {p.id}
    BY <2>1
  <2>7. p \notin Pub(2) => r = broker.rec
    BY <1>3, <2>0, <2>1
  <2> HIDE DEF Pub, OutPkt
  <2> QED BY <1>3, <2>3, <2>5, <2>6, <2>7
<1>4. CASE p.type = "PUBREL"
  <2>1. Remember(p, accept) = [broker EXCEPT !.rec = broker.rec \ {p.id}]
    BY <1>4 DEF Remember
  <2> QED BY <1>0, <1>4, <2>1
<1>5. CASE /\ ~(p.type = "SUBSCRIBE" /\ accept) /\ p.type \notin {"UNSUBSCRIBE", "PUBREL"}
           /\ ~(p.type = "PUBLISH" /\ (p.qos < 2 \/ p.id \notin broker.rec))
  <2>1. Remember(p, accept) = broker
    BY <1>5 DEF Remember
  <2> QED BY <1>0, <1>5, <2>1
<1> QED BY <1>1, <1>2, <1>3, <1>4, <1>5

\* The broker closes the connection: what was sent to it is lost.
CloseEffect ==
  /\ net' \in Nets /\ ~net'.up /\ net'.sock = net.sock /\ net'.in = net.in /\ net'.out = << >>
  /\ UNCHANGED <<c, call, app, hist>>

\* The broker takes the packet p from the connection and replies y to it,
\* or nothing.
TakeEffect(p, accept) ==
  /\ net.out # << >> /\ p = Head(net.out) /\ p \in OutPkt(hist.commands)
  /\ net' \in Nets /\ net'.up = net.up /\ net'.sock = net.sock /\ net'.out = Tail(net.out)
  /\ \/ /\ net'.in = net.in
        /\ p.type \notin {"SUBSCRIBE", "PUBREL", "PINGREQ"} /\ p \notin Pub(1) /\ p \notin Pub(2)
     \/ \E y \in InPkt :
          /\ net'.in = Append(net.in, y) /\ y.id = p.id /\ y.arg = accept /\ y.type # "PUBLISH"
          /\ y.type = "PUBACK" <=> p \in Pub(1)
          /\ y.type = "PUBREC" <=> p \in Pub(2)
          /\ y.type = "PUBCOMP" <=> p.type = "PUBREL"
          /\ y.type = "SUBACK" <=> p.type = "SUBSCRIBE"
          /\ y.type = "PINGRESP" <=> p.type = "PINGREQ"
  /\ broker' = Remember(p, accept)
  /\ UNCHANGED <<c, call, app, hist>>

\* An empty reply and a reply of one packet.
LEMMA ReplyAppended ==
    ASSUME NEW s \in Seq(Pkt)
    PROVE  s \o << >> = s /\ \A y \in Pkt : s \o <<y>> = Append(s, y)
OBVIOUS

\* The broker does one or the other with what it receives.
LEMMA BrokerDoes ==
    ASSUME Shape, NEW accept \in BOOLEAN, BrokerReceives(accept)
    PROVE  \/ CloseEffect /\ broker' = broker
           \/ TakeEffect(Head(net.out), accept)
<1>0. /\ net \in Nets /\ net.up /\ net.out # << >>
      /\ net.out \in Seq(OutPkt(hist.commands)) /\ net.in \in Seq(InPkt)
      /\ net.out \in Seq(Pkt) /\ net.in \in Seq(Pkt)
  BY DEF BrokerReceives, Shape, NetShape, Nets
<1>1. PICK p \in OutPkt(hist.commands) : p = Head(net.out)
  BY <1>0, TailSeq
<1>2. /\ broker' = Remember(p, accept)
      /\ net' = IF p.type = "DISCONNECT" THEN [net EXCEPT !.up = FALSE, !.out = << >>]
                ELSE [net EXCEPT !.out = Tail(@), !.in = @ \o Reply(p, accept)]
      /\ UNCHANGED <<c, call, app, hist>>
  BY <1>1 DEF BrokerReceives
<1>3. CASE p.type = "DISCONNECT"
  <2>1. net' = [net EXCEPT !.up = FALSE, !.out = << >>] /\ << >> \in Seq(Pkt)
    BY <1>2, <1>3, EmptySeq
  <2>2. Remember(p, accept) = broker
    BY <1>3 DEF Remember
  <2> QED BY <1>0, <1>2, <2>1, <2>2 DEF CloseEffect, Nets
<1>4. CASE p.type # "DISCONNECT"
  <2>1. p \in Pkt /\ Tail(net.out) \in Seq(Pkt) /\ InPkt \subseteq Pkt
    BY <1>0, TailSeq DEF OutPkt, InPkt
  <2>2. \/ /\ Reply(p, accept) = << >>
           /\ p.type \notin {"SUBSCRIBE", "PUBREL", "PINGREQ"} /\ p \notin Pub(1) /\ p \notin Pub(2)
        \/ \E y \in InPkt :
             /\ Reply(p, accept) = <<y>> /\ y.id = p.id /\ y.arg = accept /\ y.type # "PUBLISH"
             /\ y.type = "PUBACK" <=> p \in Pub(1)
             /\ y.type = "PUBREC" <=> p \in Pub(2)
             /\ y.type = "PUBCOMP" <=> p.type = "PUBREL"
             /\ y.type = "SUBACK" <=> p.type = "SUBSCRIBE"
             /\ y.type = "PINGRESP" <=> p.type = "PINGREQ"
    BY <2>1, ReplyFields
  <2>3. PICK u \in Seq(Pkt) : u = net.in \o Reply(p, accept)
    <3>1. Reply(p, accept) = << >> \/ \E y \in InPkt : Reply(p, accept) = <<y>>
      BY <2>2
    <3>2. \A y \in Pkt : Append(net.in, y) \in Seq(Pkt)
      BY <1>0, AppendSeq
    <3>3. net.in \o << >> = net.in /\ \A y \in Pkt : net.in \o <<y>> = Append(net.in, y)
      BY <1>0, ReplyAppended
    <3> QED BY <1>0, <2>1, <3>1, <3>2, <3>3
  <2>4. net' = [net EXCEPT !.out = Tail(net.out), !.in = u]
    BY <1>2, <1>4, <2>3
  <2>5. /\ net' \in Nets /\ net'.up = net.up /\ net'.sock = net.sock /\ net'.out = Tail(net.out)
        /\ net'.in = u
    BY <1>0, <2>1, <2>4 DEF Nets
  <2>6. CASE Reply(p, accept) = << >>
              /\ p.type \notin {"SUBSCRIBE", "PUBREL", "PINGREQ"} /\ p \notin Pub(1) /\ p \notin Pub(2)
    <3>1. u = net.in
      BY <1>0, <2>3, <2>6, ReplyAppended
    <3> QED BY <1>0, <1>1, <1>2, <2>5, <2>6, <3>1 DEF TakeEffect
  <2>7. ASSUME NEW y \in InPkt,
             /\ Reply(p, accept) = <<y>> /\ y.id = p.id /\ y.arg = accept /\ y.type # "PUBLISH"
             /\ y.type = "PUBACK" <=> p \in Pub(1)
             /\ y.type = "PUBREC" <=> p \in Pub(2)
             /\ y.type = "PUBCOMP" <=> p.type = "PUBREL"
             /\ y.type = "SUBACK" <=> p.type = "SUBSCRIBE"
             /\ y.type = "PINGRESP" <=> p.type = "PINGREQ"
        PROVE  TakeEffect(p, accept)
    <3>1. u = Append(net.in, y)
      BY <1>0, <2>1, <2>3, <2>7, ReplyAppended
    <3> QED BY <1>0, <1>1, <1>2, <2>5, <2>7, <3>1 DEF TakeEffect
  <2> QED BY <1>1, <2>2, <2>6, <2>7
<1> QED BY <1>3, <1>4

\* The broker keeps the shape.
LEMMA ShapeBroker ==
    ASSUME Shape, NEW accept \in BOOLEAN,
           \/ CloseEffect /\ broker' = broker
           \/ \E p : TakeEffect(p, accept)
    PROVE  Shape'
<1>1. CASE CloseEffect /\ broker' = broker
  <2>1. << >> \in Seq(OutPkt(hist.commands))
    BY EmptySeq
  <2>2. ClientShape' /\ HistShape'
    BY <1>1 DEF CloseEffect, Shape, ClientShape, HistShape, Waiting
  <2>3. NetShape'
    BY <1>1, <2>1 DEF CloseEffect, Shape, NetShape
  <2> QED BY <2>2, <2>3 DEF Shape
<1>2. ASSUME NEW p, TakeEffect(p, accept) PROVE Shape'
  <2>1. /\ p \in OutPkt(hist.commands) /\ broker' = Remember(p, accept)
        /\ UNCHANGED <<c, call, app, hist>>
    BY <1>2 DEF TakeEffect
  <2>2. /\ broker' \in [subs : SUBSET Topic, rec : SUBSET (1 .. MaxPacketId), got : SUBSET Nat]
        /\ broker'.got \subseteq 1 .. hist.commands
    BY <2>1, RememberFields
  <2>3. ClientShape' /\ HistShape'
    BY <2>1, <2>2 DEF Shape, ClientShape, HistShape, Waiting
  <2>4. net'.out \in Seq(OutPkt(hist.commands)) /\ net'.in \in Seq(InPkt)
    <3>1. /\ net.out \in Seq(OutPkt(hist.commands)) /\ net.in \in Seq(InPkt) /\ net.out # << >>
          /\ net'.out = Tail(net.out)
          /\ net'.in = net.in \/ \E y \in InPkt : net'.in = Append(net.in, y)
      BY <1>2 DEF Shape, NetShape, TakeEffect
    <3>2. Tail(net.out) \in Seq(OutPkt(hist.commands))
      BY <3>1, TailSeq
    <3>3. \A y \in InPkt : Append(net.in, y) \in Seq(InPkt)
      BY <3>1, AppendSeq
    <3> QED BY <3>1, <3>2, <3>3
  <2>5. NetShape'
    BY <1>2, <2>1, <2>4 DEF Shape, NetShape, TakeEffect
  <2> QED BY <2>3, <2>5 DEF Shape
<1> QED BY <1>1, <1>2

\* The other steps: a message of the broker, and those that send at most one
\* packet of no exchange, or begin a new connection.
PushEffect(y) ==
  /\ y \in InPkt /\ y.type = "PUBLISH" /\ y.arg \in broker.subs
  /\ net' \in Nets /\ net'.up = net.up /\ net'.sock = net.sock /\ net'.out = net.out
  /\ net'.in = Append(net.in, y)
  /\ hist' = [hist EXCEPT !.pushes = @ + 1]
  /\ UNCHANGED <<c, call, broker, app>>

\* The broker publishes a message.
LEMMA PushDoes ==
    ASSUME Shape, NEW t \in Topic, NEW q \in 0 .. 2, BrokerPublishes(t, q)
    PROVE  \E y : PushEffect(y)
<1>0. net \in Nets /\ hist.pushes \in Nat /\ net.in \in Seq(Pkt)
  BY DEF Shape, NetShape, HistShape, Nets
<1>1. PICK y : y = [type |-> "PUBLISH", qos |-> q, id |-> hist.pushes + 1, arg |-> t]
  OBVIOUS
<1>2. y \in InPkt /\ y.type = "PUBLISH" /\ y.arg = t /\ y \in Pkt
  BY <1>0, <1>1 DEF InPkt, Pkt, Types, Args
<1>3. PICK u \in Seq(Pkt) : u = Append(net.in, y)
  BY <1>0, <1>2, AppendSeq
<1>4. net' = [net EXCEPT !.in = u]
  BY <1>1, <1>3 DEF BrokerPublishes
<1>5. /\ net' \in Nets /\ net'.up = net.up /\ net'.sock = net.sock /\ net'.out = net.out
      /\ net'.in = u
  BY <1>0, <1>4 DEF Nets
<1> QED BY <1>2, <1>3, <1>5 DEF BrokerPublishes, PushEffect

\* A message keeps the shape.
LEMMA ShapePush ==
    ASSUME Shape, NEW y, PushEffect(y)
    PROVE  Shape'
<1>1. /\ y \in InPkt /\ net' \in Nets /\ net'.up = net.up /\ net'.sock = net.sock /\ net'.out = net.out
      /\ net'.in = Append(net.in, y)
      /\ hist' = [hist EXCEPT !.pushes = @ + 1]
      /\ UNCHANGED <<c, call, broker, app>>
  BY DEF PushEffect
<1>2. /\ hist' \in [opens : Nat, commands : Nat, pushes : Nat, late : SUBSET WaitedFor, ok : SUBSET Nat,
                    missed : SUBSET Topic]
      /\ hist'.commands = hist.commands /\ hist'.ok = hist.ok
  BY <1>1 DEF Shape, HistShape
<1>3. ClientShape' /\ HistShape'
  BY <1>1, <1>2 DEF Shape, ClientShape, HistShape, Waiting
<1>4. net'.in \in Seq(InPkt)
  BY <1>1, AppendSeq DEF Shape, NetShape
<1>5. NetShape'
  BY <1>1, <1>2, <1>4 DEF Shape, NetShape
<1> QED BY <1>3, <1>5 DEF Shape

\* mqtt_close_connection.
LeaveEffect ==
  /\ call = NoCall
  /\ net' \in Nets /\ net'.up = net.up /\ net'.in = net.in /\ net'.sock = net.sock
  /\ net'.out = net.out \/ net'.out = Append(net.out, Packet("DISCONNECT", 0))
  /\ call' = NoCall \/ (call' = Hung /\ net.sock = "closed")
  /\ c' = [c EXCEPT !.isconnected = FALSE] /\ app' = FALSE
  /\ UNCHANGED <<broker, hist>>

\* MQTTDisconnect does that and nothing else.
LEMMA LeaveDoes ==
    ASSUME Shape, MQTTDisconnect
    PROVE  LeaveEffect
<1>0. net \in Nets /\ (net.sock = "closed" => ~net.up)
  BY DEF Shape, NetShape
<1>1. PICK w \in Write(net, Packet("DISCONNECT", 0)) :
        net' = w.net /\ call' = IF w.rc = "hang" THEN Hung ELSE NoCall
  BY DEF MQTTDisconnect
<1>2. Packet("DISCONNECT", 0) \in Pkt
  BY PacketFields DEF Types
<1>3. /\ w.net \in Nets
      /\ w.net.sock = net.sock /\ w.net.up = net.up /\ w.net.in = net.in
      /\ w.net.out = net.out \/ w.net.out = Append(net.out, Packet("DISCONNECT", 0))
      /\ w.rc = "hang" => net.sock = "closed"
  BY <1>0, <1>2, WriteEffect DEF Nets
<1> QED BY <1>1, <1>3 DEF LeaveEffect, MQTTDisconnect

\* MQTTDisconnect keeps the shape.
LEMMA ShapeLeave ==
    ASSUME Shape, LeaveEffect
    PROVE  Shape'
<1>1. Packet("DISCONNECT", 0) \in OutPkt(hist.commands)
  BY PacketFields DEF Types, OutPkt
<1>2. net'.out \in Seq(OutPkt(hist.commands))
  <2>1. net.out \in Seq(OutPkt(hist.commands))
    BY DEF Shape, NetShape
  <2>2. Append(net.out, Packet("DISCONNECT", 0)) \in Seq(OutPkt(hist.commands))
    BY <1>1, <2>1, AppendSeq
  <2> QED BY <2>1, <2>2 DEF LeaveEffect
<1>3. ClientShape'
  BY DEF LeaveEffect, Shape, ClientShape
<1>4. HistShape'
  BY DEF LeaveEffect, Shape, HistShape, Waiting, NoCall, Hung
<1>5. NetShape'
  BY <1>2 DEF LeaveEffect, Shape, NetShape, NoCall, Hung
<1> QED BY <1>3, <1>4, <1>5 DEF Shape

\* A new connection, with CONNECT on its way.
LEMMA OpenDoes ==
    ASSUME Shape, NEW connected \in BOOLEAN, Open(connected)
    PROVE  /\ Shape'
           /\ net'.in = << >>
           /\ net'.out = << >> \/ net'.out = <<Packet("CONNECT", 0)>>
           /\ call' = Hung \/ call' = Begin("connect", "CONNACK", 0)
           /\ ~c'.ping /\ c'.handlers = << >> /\ ~c'.isconnected
           /\ broker'.rec = {} /\ broker'.subs = {} /\ broker'.got = broker.got
           /\ hist'.ok = hist.ok /\ hist'.missed = {} /\ hist'.late = {}
<1>1. /\ Packet("CONNECT", 0) \in Pkt /\ Packet("CONNECT", 0) \in OutPkt(hist.commands)
      /\ << >> \in Seq(Pkt) /\ << >> \in Seq(OutPkt(hist.commands)) /\ << >> \in Seq(InPkt)
      /\ << >> \in Seq(Topic)
  BY PacketFields, EmptySeq DEF Types, OutPkt
<1>2. /\ c' = NewClient /\ app' = TRUE
      /\ net' = [sock |-> IF connected THEN "open" ELSE "closed", up |-> connected,
                 out |-> IF connected THEN <<Packet("CONNECT", 0)>> ELSE << >>, in |-> << >>]
      /\ call' = IF connected THEN Begin("connect", "CONNACK", 0) ELSE Hung
      /\ hist' = [hist EXCEPT !.opens = @ + 1, !.late = {}, !.missed = {}]
      /\ broker' = [broker EXCEPT !.subs = {}, !.rec = {}]
  BY DEF Open
<1>3. Begin("connect", "CONNACK", 0) \in Calls /\ Begin("connect", "CONNACK", 0).op = "connect"
  BY DEF Begin, Calls
<1>4. /\ ClientShape' /\ ~c'.ping /\ c'.handlers = << >> /\ ~c'.isconnected
  <2>1. Len(<< >>) = 0 /\ 0 <= MaxHandlers
    BY MqttAssumption
  <2>2. c' = [c EXCEPT !.isconnected = FALSE, !.ping = FALSE, !.handlers = << >>]
    BY <1>2 DEF NewClient
  <2>3. /\ c' \in [isconnected : BOOLEAN, ping : BOOLEAN, next : 0 .. MaxPacketId, handlers : Seq(Topic)]
        /\ ~c'.ping /\ c'.handlers = << >> /\ ~c'.isconnected
    BY <1>1, <2>2 DEF Shape, ClientShape
  <2>4. call' \in Calls \cup {NoCall, Hung} /\ app' \in BOOLEAN
    BY <1>2, <1>3
  <2> QED BY <2>1, <2>3, <2>4 DEF ClientShape
<1>5. /\ hist' \in [opens : Nat, commands : Nat, pushes : Nat, late : SUBSET WaitedFor, ok : SUBSET Nat,
                    missed : SUBSET Topic]
      /\ hist'.ok = hist.ok /\ hist'.missed = {} /\ hist'.late = {} /\ hist'.commands = hist.commands
  <2>1. PICK e \in SUBSET WaitedFor : e = {}
    OBVIOUS
  <2>2. PICK f \in SUBSET Topic : f = {}
    OBVIOUS
  <2>3. PICK o \in Nat : o = hist.opens + 1
    BY DEF Shape, HistShape
  <2>4. hist' = [hist EXCEPT !.opens = o, !.late = e, !.missed = f]
    BY <1>2, <2>1, <2>2, <2>3
  <2>5. hist \in [opens : Nat, commands : Nat, pushes : Nat, late : SUBSET WaitedFor, ok : SUBSET Nat,
                  missed : SUBSET Topic]
    BY DEF Shape, HistShape
  <2> QED BY <2>1, <2>2, <2>4, <2>5
<1>6. /\ broker' \in [subs : SUBSET Topic, rec : SUBSET (1 .. MaxPacketId), got : SUBSET Nat]
      /\ broker'.rec = {} /\ broker'.subs = {} /\ broker'.got = broker.got
  BY <1>2 DEF Shape, HistShape
<1>7. HistShape'
  BY <1>2, <1>3, <1>5, <1>6 DEF Shape, HistShape, Waiting, Hung
<1>8. PICK u : u = IF connected THEN <<Packet("CONNECT", 0)>> ELSE << >>
  OBVIOUS
<1>9. u \in Seq(Pkt) /\ u \in Seq(OutPkt(hist.commands))
  <2>1. \A S : Packet("CONNECT", 0) \in S => <<Packet("CONNECT", 0)>> \in Seq(S)
    OBVIOUS
  <2> QED BY <1>1, <1>8, <2>1
<1>10. net'.in = << >> /\ net'.out = u /\ net' \in Nets /\ (net'.sock = "closed" => ~net'.up)
       /\ (~connected => net'.sock = "closed")
  BY <1>1, <1>2, <1>8, <1>9 DEF Nets
<1>11. connected => call' # Hung
  BY <1>2, <1>3 DEF Hung
<1>12. NetShape'
  BY <1>1, <1>5, <1>9, <1>10, <1>11 DEF NetShape
<1> QED BY <1>2, <1>4, <1>5, <1>6, <1>7, <1>8, <1>10, <1>12 DEF Shape

\* What Open does.
OpenEffect ==
  /\ net'.in = << >> /\ (net'.out = << >> \/ net'.out = <<Packet("CONNECT", 0)>>)
  /\ call' = Hung \/ call' = Begin("connect", "CONNACK", 0)
  /\ ~c'.ping /\ c'.handlers = << >> /\ ~c'.isconnected
  /\ broker'.rec = {} /\ broker'.subs = {} /\ broker'.got = broker.got
  /\ hist'.ok = hist.ok /\ hist'.missed = {} /\ hist'.late = {}

Effects ==
  \/ \E p, done, out1 : \E late \in BOOLEAN : CycleEffect(p, done, late, out1)
  \/ TimedOut
  \/ OpenEffect
  \/ \E p, then : CommandEffect(p, then)
  \/ MQTTYield
  \/ LeaveEffect
  \/ CloseEffect /\ broker' = broker
  \/ \E p : \E accept \in BOOLEAN : TakeEffect(p, accept)
  \/ \E y : PushEffect(y)
  \/ UNCHANGED vars

\* Every step has one of these effects, and keeps the shape.
LEMMA StepEffects == Shape /\ [Next]_vars => Shape' /\ Effects
<1> SUFFICES ASSUME Shape, [Next]_vars PROVE Shape' /\ Effects
  OBVIOUS
<1>1. ASSUME NEW late \in BOOLEAN, NEW due \in BOOLEAN, Cycle(late, due) PROVE Shape' /\ Effects
  <2>1. PICK p, done, out1 : CycleEffect(p, done, late, out1)
    BY <1>1, CycleDoes
  <2> QED BY <2>1, ShapeCycle DEF Effects
<1>2. CASE TimedOut
  <2>1. /\ call' = NoCall /\ UNCHANGED <<c, net, broker, app>> /\ call \in Calls
        /\ hist' = [hist EXCEPT !.late = @ \cup {call.want}]
    BY <1>2 DEF TimedOut, Shape, ClientShape, Waiting, NoCall, Hung
  <2>2. call.want \in WaitedFor
    BY <2>1 DEF Calls, WaitedFor
  <2>3. PICK e \in SUBSET WaitedFor : e = hist.late \cup {call.want}
    BY <2>2 DEF Shape, HistShape
  <2>4. hist' = [hist EXCEPT !.late = e]
    BY <2>1, <2>3
  <2>5. /\ hist' \in [opens : Nat, commands : Nat, pushes : Nat, late : SUBSET WaitedFor,
                      ok : SUBSET Nat, missed : SUBSET Topic]
        /\ hist'.commands = hist.commands /\ hist'.ok = hist.ok
    BY <2>3, <2>4 DEF Shape, HistShape
  <2>6. ClientShape' /\ HistShape'
    BY <2>1, <2>5 DEF Shape, ClientShape, HistShape, Waiting, NoCall
  <2>7. NetShape'
    BY <2>1, <2>5 DEF Shape, NetShape, NoCall, Hung
  <2> QED BY <1>2, <2>6, <2>7 DEF Shape, Effects
<1>3. ASSUME NEW b \in BOOLEAN, Open(b) PROVE Shape' /\ Effects
  BY <1>3, OpenDoes DEF OpenEffect, Effects
<1>4. ASSUME NEW b \in BOOLEAN, BrokerReceives(b) PROVE Shape' /\ Effects
  BY <1>4, BrokerDoes, ShapeBroker DEF Effects
<1>5. CASE \/ \E t \in Topic : MQTTSubscribe(t) \/ MQTTUnsubscribe(t)
           \/ \E q \in 0 .. 2 : MQTTPublish(q)
  <2>1. PICK p, then : CommandEffect(p, then)
    BY <1>5, CommandsDo
  <2> QED BY <2>1, ShapeCommand DEF Effects
<1>6. ASSUME NEW t \in Topic, NEW q \in 0 .. 2, BrokerPublishes(t, q) PROVE Shape' /\ Effects
  BY <1>6, PushDoes, ShapePush DEF Effects
<1>7. CASE MQTTYield
  <2>1. /\ call' = [op |-> "yield", want |-> "NEVER", arg |-> 0, expired |-> FALSE]
        /\ UNCHANGED <<c, net, broker, app, hist>>
    BY <1>7 DEF MQTTYield, Begin
  <2>2. call' \in Calls /\ call'.op = "yield" /\ call' # Hung
    BY <2>1 DEF Calls, Hung
  <2>3. ClientShape' /\ HistShape' /\ NetShape'
    BY <2>1, <2>2 DEF Shape, ClientShape, HistShape, NetShape, Waiting
  <2> QED BY <1>7, <2>3 DEF Shape, Effects
<1>8. CASE MQTTDisconnect
  BY <1>8, LeaveDoes, ShapeLeave DEF Effects
<1>9. CASE BrokerCloses
  <2>1. << >> \in Seq(Pkt)
    BY EmptySeq
  <2>2. CloseEffect /\ broker' = broker
    BY <1>9, <2>1 DEF BrokerCloses, CloseEffect, Shape, NetShape, Nets
  <2> QED BY <2>2, ShapeBroker DEF Effects
<1>10. CASE UNCHANGED vars
  BY <1>10 DEF vars, Shape, ClientShape, HistShape, NetShape, Waiting, Effects
<1> QED BY <1>1, <1>2, <1>3, <1>4, <1>5, <1>6, <1>7, <1>8, <1>9, <1>10 DEF Next

(***************************************************************************)
(* Part 4.  Pings.                                                         *)
(***************************************************************************)
\* What is on its way stays there until it is read.
LEMMA SomeKept ==
    ASSUME NEW S, NEW s \in Seq(S), NEW T
    PROVE  /\ \A x \in S : ~None(s, T) \/ x \in T => ~None(Append(s, x), T)
           /\ s # << >> /\ ~None(s, T) /\ Head(s) \notin T => ~None(Tail(s), T)
<1>1. ASSUME NEW x \in S, ~None(s, T) \/ x \in T PROVE ~None(Append(s, x), T)
  BY <1>1, AppendSeq DEF None
<1>2. ASSUME s # << >>, ~None(s, T), Head(s) \notin T PROVE ~None(Tail(s), T)
  <2>1. PICK i \in DOMAIN s : s[i] \in T
    BY <1>2 DEF None
  <2>2. i # 1 /\ i \in 1 .. Len(s) /\ Len(s) \in Nat
    BY <1>2, <2>1, TailSeq
  <2>3. i - 1 \in 1 .. Len(s) - 1 /\ (i - 1) + 1 = i
    BY <2>2
  <2>4. i - 1 \in DOMAIN Tail(s) /\ Tail(s)[i - 1] = s[i]
    BY <1>2, <2>3, TailSeq
  <2> QED BY <2>1, <2>4 DEF None
<1> QED BY <1>1, <1>2

\* ping_outstanding stands for a request or its answer on the way.
LEMMA PingStep ==
    ASSUME Shape, Shape', PingInv, Effects
    PROVE  PingInv'
<1>0. /\ net.out \in Seq(Pkt) /\ net.in \in Seq(Pkt) /\ net'.out \in Seq(Pkt)
  BY DEF Shape, NetShape, Nets
<1> DEFINE Rq == OfType({"PINGREQ"})
           Rs == OfType({"PINGRESP"})
<1>1. ASSUME NEW p, NEW done, NEW out1, NEW late, CycleEffect(p, done, late, out1) PROVE PingInv'
  <2>1. Packet("PINGREQ", 0) \in Rq /\ Packet("PINGREQ", 0) \in Pkt
    BY PacketFields DEF Types, OfType
  <2>2. out1 \in Seq(Pkt) /\ (~None(net.out, Rq) => ~None(out1, Rq))
    <3>1. \A a \in Answers(p) : a \in Pkt
      BY <1>1, AnswerFields DEF CycleEffect
    <3>2. out1 = net.out \/ \E a \in Answers(p) : out1 = Append(net.out, a)
      BY <1>1 DEF CycleEffect
    <3>3. \A a \in Pkt : Append(net.out, a) \in Seq(Pkt)
      BY <1>0, AppendSeq
    <3>4. \A a \in Pkt : ~None(net.out, Rq) => ~None(Append(net.out, a), Rq)
      BY <1>0, SomeKept
    <3> QED BY <1>0, <3>1, <3>2, <3>3, <3>4
  <2>3. /\ ~None(Append(out1, Packet("PINGREQ", 0)), Rq)
        /\ ~None(out1, Rq) => ~None(net'.out, Rq)
    <3>1. ~None(Append(out1, Packet("PINGREQ", 0)), Rq)
      BY <2>1, <2>2, SomeKept
    <3>2. net'.out = out1 \/ net'.out = Append(out1, Packet("PINGREQ", 0))
      BY <1>1 DEF CycleEffect
    <3> QED BY <3>1, <3>2
  <2>4. p.type # "PINGRESP" /\ ~None(net.in, Rs) => ~None(net'.in, Rs)
    <3>1. \/ net'.in = net.in
          \/ net.in # << >> /\ p = Head(net.in) /\ net'.in = Tail(net.in)
      BY <1>1 DEF CycleEffect
    <3>2. p.type # "PINGRESP" => p \notin Rs
      BY DEF OfType
    <3>3. net.in # << >> /\ ~None(net.in, Rs) /\ Head(net.in) \notin Rs => ~None(Tail(net.in), Rs)
      BY <1>0, SomeKept
    <3> QED BY <3>1, <3>2, <3>3
  <2>5. /\ net'.up = net.up
        /\ c'.ping /\ net.up => \/ c.ping /\ p.type # "PINGRESP"
                                \/ net'.out = Append(out1, Packet("PINGREQ", 0))
    BY <1>1 DEF CycleEffect
  <2> HIDE DEF Rq, Rs
  <2>6. c'.ping /\ net'.up => ~None(net'.out, Rq) \/ ~None(net'.in, Rs)
    <3>1. c.ping /\ net.up => ~None(net.out, Rq) \/ ~None(net.in, Rs)
      BY DEF PingInv, Rq, Rs
    <3> QED BY <2>2, <2>3, <2>4, <2>5, <3>1
  <2> QED BY <2>6 DEF PingInv, Rq, Rs
<1>2. CASE TimedOut \/ MQTTYield \/ UNCHANGED vars
  BY <1>2 DEF TimedOut, MQTTYield, vars, PingInv
<1>3. CASE OpenEffect \/ (CloseEffect /\ broker' = broker)
  BY <1>3 DEF OpenEffect, CloseEffect, PingInv
<1>4. ASSUME net'.up = net.up, net'.in = net.in, c'.ping = c.ping,
             net'.out = net.out \/ \E x \in Pkt : net'.out = Append(net.out, x)
      PROVE  PingInv'
  <2>1. \A x \in Pkt : ~None(net.out, Rq) => ~None(Append(net.out, x), Rq)
    BY <1>0, SomeKept
  <2> QED BY <1>4, <2>1 DEF PingInv
<1>5. ASSUME NEW p, NEW then, CommandEffect(p, then) PROVE PingInv'
  <2>1. p \in Pkt /\ c'.ping = c.ping
    BY <1>5 DEF CommandEffect, OutPkt, Shape, ClientShape
  <2> QED BY <1>4, <1>5, <2>1 DEF CommandEffect
<1>6. CASE LeaveEffect
  <2>1. Packet("DISCONNECT", 0) \in Pkt /\ c'.ping = c.ping
    BY <1>6, PacketFields DEF LeaveEffect, Types, Shape, ClientShape
  <2> QED BY <1>4, <1>6, <2>1 DEF LeaveEffect
<1>7. ASSUME NEW p, NEW accept \in BOOLEAN, TakeEffect(p, accept) PROVE PingInv'
  <2>1. /\ net.out # << >> /\ p = Head(net.out) /\ net'.out = Tail(net.out)
        /\ net'.up = net.up /\ c' = c
        /\ \/ net'.in = net.in /\ p.type # "PINGREQ"
           \/ \E y \in Pkt : net'.in = Append(net.in, y) /\ (y.type = "PINGRESP" <=> p.type = "PINGREQ")
    BY <1>7 DEF TakeEffect, InPkt
  <2>2. p \notin Rq /\ ~None(net.out, Rq) => ~None(net'.out, Rq)
    BY <1>0, <2>1, SomeKept
  <2>3. ~None(net.in, Rs) => ~None(net'.in, Rs)
    <3>1. \A y \in Pkt : ~None(net.in, Rs) => ~None(Append(net.in, y), Rs)
      BY <1>0, SomeKept
    <3> QED BY <2>1, <3>1
  <2>4. p \in Rq => ~None(net'.in, Rs)
    <3>1. \A y \in Pkt : y \in Rs => ~None(Append(net.in, y), Rs)
      BY <1>0, SomeKept
    <3>2. \A y \in Pkt : y.type = "PINGRESP" => y \in Rs
      BY DEF OfType
    <3>3. p \in Rq => p.type = "PINGREQ"
      BY DEF OfType
    <3> QED BY <2>1, <3>1, <3>2, <3>3
  <2> HIDE DEF Rq, Rs
  <2>5. c.ping /\ net.up => ~None(net.out, Rq) \/ ~None(net.in, Rs)
    BY DEF PingInv, Rq, Rs
  <2>6. c'.ping /\ net'.up => ~None(net'.out, Rq) \/ ~None(net'.in, Rs)
    BY <2>1, <2>2, <2>3, <2>4, <2>5
  <2> QED BY <2>6 DEF PingInv, Rq, Rs
<1>8. ASSUME NEW y, PushEffect(y) PROVE PingInv'
  <2>1. y \in Pkt /\ net'.in = Append(net.in, y) /\ net'.out = net.out /\ net'.up = net.up /\ c' = c
    BY <1>8 DEF PushEffect, InPkt
  <2>2. ~None(net.in, Rs) => ~None(net'.in, Rs)
    BY <1>0, <2>1, SomeKept
  <2> QED BY <2>1, <2>2 DEF PingInv
<1> QED BY <1>1, <1>2, <1>3, <1>5, <1>6, <1>7, <1>8 DEF Effects

(***************************************************************************)
(* Part 5.  The exchanges, whatever they are.                              *)
(***************************************************************************)
\* cycle reads a packet and answers it.
LEMMA CycleExch ==
    ASSUME Shape, NEW p, NEW done, NEW late, NEW out1, CycleEffect(p, done, late, out1),
           NEW O, NEW I, NEW GO \in SUBSET Pkt, NEW GI \in SUBSET Pkt, NEW b \in BOOLEAN,
           Exch(net.out, net.in, O, I, GO, GI, b), Nothing \notin I,
           Packet("PINGREQ", 0) \in GO \ O,
           \A a \in Answers(p) : a \in GO /\ (a \notin O \/ p \in I)
    PROVE  /\ Exch(net'.out, net'.in, O, I, GO, GI, b)
           /\ p \in I /\ (\A a \in Answers(p) : a \notin O) => Clear(net'.out, net'.in, O, I)
           /\ p \in I => p \in GI /\ b
<1>1. /\ p # Nothing => net.in # << >> /\ p = Head(net.in) /\ net'.in = Tail(net.in)
      /\ p = Nothing => net'.in = net.in \/ (net.in # << >> /\ p = Head(net.in) /\ net'.in = Tail(net.in))
      /\ out1 = net.out \/ \E a \in Answers(p) : out1 = Append(net.out, a)
      /\ net'.out = out1 \/ net'.out = Append(out1, Packet("PINGREQ", 0))
  BY CycleRead DEF CycleEffect
<1>2. net.in # << >> => /\ Exch(net.out, Tail(net.in), O, I, GO, GI, b)
                        /\ Head(net.in) \in I => Clear(net.out, Tail(net.in), O, I)
                        /\ Head(net.in) \in GI
  BY ExchRead
<1>3. /\ Exch(net.out, net'.in, O, I, GO, GI, b)
      /\ p \in I => Clear(net.out, net'.in, O, I) /\ p \in GI
  BY <1>1, <1>2
<1>4. p \in I => b
  <2> SUFFICES ASSUME p \in I, ~b PROVE FALSE
    OBVIOUS
  <2>1. None(net.in, I)
    BY DEF Exch, Clear
  <2>2. net.in # << >> /\ net.in[1] = p /\ 1 \in DOMAIN net.in
    BY <1>1, TailSeq DEF Shape, NetShape
  <2> QED BY <2>1, <2>2 DEF None
<1>5. out1 \in Seq(Pkt) /\ net.out \in Seq(Pkt) /\ Packet("PINGREQ", 0) \in Pkt
  <2>1. net.out \in Seq(Pkt)
    BY DEF Shape, NetShape, Nets
  <2>2. \A a \in Answers(p) : Append(net.out, a) \in Seq(Pkt)
    BY <2>1, AppendSeq
  <2> QED BY <1>1, <2>1, <2>2
<1>6. Exch(out1, net'.in, O, I, GO, GI, b)
  <2>1. ASSUME NEW a \in Answers(p), out1 = Append(net.out, a)
        PROVE  Exch(out1, net'.in, O, I, GO, GI, b)
    BY <1>3, <1>4, <2>1, ExchSend
  <2> QED BY <1>1, <1>3, <2>1
<1>7. Exch(net'.out, net'.in, O, I, GO, GI, b)
  <2>1. Exch(Append(out1, Packet("PINGREQ", 0)), net'.in, O, I, GO, GI, b)
    BY <1>6, ExchSend
  <2> QED BY <1>1, <1>6, <2>1
<1>8. ASSUME p \in I, \A a \in Answers(p) : a \notin O
      PROVE  Clear(net'.out, net'.in, O, I)
  <2>1. Clear(out1, net'.in, O, I)
    <3>1. \A a \in Answers(p) : Clear(Append(net.out, a), net'.in, O, I)
      BY <1>3, <1>5, <1>8, FlightSend
    <3> QED BY <1>1, <1>3, <1>8, <3>1
  <2>2. Clear(Append(out1, Packet("PINGREQ", 0)), net'.in, O, I)
    BY <1>5, <2>1, FlightSend
  <2> QED BY <1>1, <2>1, <2>2
<1> QED BY <1>3, <1>4, <1>7, <1>8

\* A packet is sent when no exchange is under way, perhaps the first of one.
LEMMA ExchBegin ==
    ASSUME NEW out \in Seq(Pkt), NEW in \in Seq(Pkt), NEW O, NEW I, NEW GO \in SUBSET Pkt,
           NEW GI \in SUBSET Pkt, NEW b \in BOOLEAN, Clear(out, in, O, I), NEW x \in Pkt, NEW out2,
           out2 = out \/ (out2 = Append(out, x) /\ (x \in O => b /\ x \in GO)),
           Pkt \ O \subseteq GO, Pkt \ I \subseteq GI
    PROVE  Exch(out2, in, O, I, GO, GI, b)
<1>1. Exch(out, in, O, I, GO, GI, b)
  BY ExchClear
<1>2. out2 = Append(out, x) => Exch(out2, in, O, I, GO, GI, b)
  BY <1>1, ExchSend
<1> QED BY <1>1, <1>2

\* Nothing of an exchange is on its way on a new connection.
LEMMA OpenClear ==
    ASSUME OpenEffect, NEW O, NEW I, Packet("CONNECT", 0) \notin O
    PROVE  Clear(net'.out, net'.in, O, I)
<1>1. CASE net'.out = << >>
  BY <1>1 DEF OpenEffect, Clear, None
<1>2. CASE net'.out = <<Packet("CONNECT", 0)>>
  BY <1>2 DEF OpenEffect, Clear, None
<1> QED BY <1>1, <1>2 DEF OpenEffect

\* Which packets belong to which exchange.
LEMMA Members ==
    ASSUME NEW p \in Pkt
    PROVE  /\ p \in AckOut <=> p.type = "PUBLISH" /\ p.qos = 1
           /\ p \in AckIn <=> p.type = "PUBACK"
           /\ p \in CompOut <=> (p.type = "PUBLISH" /\ p.qos = 2) \/ p.type = "PUBREL"
           /\ p \in CompIn <=> p.type \in {"PUBREC", "PUBCOMP"}
           /\ p \in SubOut <=> p.type = "SUBSCRIBE"
           /\ p \in SubIn <=> p.type = "SUBACK"
           /\ p \in Pub(1) <=> p.type = "PUBLISH" /\ p.qos = 1
           /\ p \in Pub(2) <=> p.type = "PUBLISH" /\ p.qos = 2
BY DEF AckOut, AckIn, CompOut, CompIn, SubOut, SubIn, Pub, OfType

\* The packets of the connection itself belong to none.
LEMMA Strangers ==
    /\ Nothing \in Pkt /\ Nothing \notin AckIn /\ Nothing \notin CompIn /\ Nothing \notin SubIn
    /\ \A t \in {"PINGREQ", "CONNECT", "DISCONNECT"} :
         /\ Packet(t, 0) \in Pkt /\ Packet(t, 0) \notin AckOut
         /\ Packet(t, 0) \notin CompOut /\ Packet(t, 0) \notin SubOut
<1>1. \A t \in {"NOTHING", "PINGREQ", "CONNECT", "DISCONNECT"} :
         Packet(t, 0) \in Pkt /\ Packet(t, 0).type = t
  BY PacketFields DEF Types
<1> QED BY <1>1, Members DEF Nothing

(***************************************************************************)
(* Part 6.  QoS 1.                                                         *)
(***************************************************************************)
\* What a step of cycle leaves of the call and the history.
LEMMA CycleKeeps ==
    ASSUME Shape, NEW p, NEW done, NEW late \in BOOLEAN, NEW out1, CycleEffect(p, done, late, out1)
    PROVE  /\ call \in Calls /\ call # Hung /\ p \in Pkt /\ broker' = broker
           /\ done => p.type = call.want
           /\ hist'.late = hist.late
           /\ call' = [call EXCEPT !.expired = late] =>
                call'.arg = call.arg /\ \A w : W(call', w) = W(call, w)
<1>1. call \in Calls /\ p \in Pkt
  BY CycleRead DEF InPkt
<1>2. call # Hung
  BY <1>1 DEF Calls, Hung
<1>3. broker' = broker /\ (done => p.type = call.want)
  BY DEF CycleEffect
<1>4. hist'.late = hist.late
  <2>1. hist \in [opens : Nat, commands : Nat, pushes : Nat, late : SUBSET WaitedFor, ok : SUBSET Nat,
                  missed : SUBSET Topic]
    BY DEF Shape, HistShape
  <2> QED BY <2>1 DEF CycleEffect
<1>5. ASSUME call' = [call EXCEPT !.expired = late]
      PROVE  call'.arg = call.arg /\ \A w : W(call', w) = W(call, w)
  <2>1. call'.arg = call.arg /\ call'.op = call.op /\ call'.want = call.want
    BY <1>1, <1>5 DEF Calls
  <2> QED BY <2>1 DEF W
<1> QED BY <1>1, <1>2, <1>3, <1>4, <1>5

\* A command that has timed out.
LEMMA TimedOutKeeps ==
    ASSUME Shape, TimedOut
    PROVE  /\ call' = NoCall /\ net' = net /\ call \in Calls /\ call # Hung /\ broker' = broker
           /\ c' = c
           /\ hist'.late = hist.late \cup {call.want} /\ hist'.missed = hist.missed
           /\ hist'.ok = hist.ok
           /\ \A w : w \notin hist'.late => w \notin hist.late /\ ~W(call, w)
<1>1. call \in Calls /\ call # Hung
  BY DEF TimedOut, Shape, ClientShape, Waiting, NoCall, Hung
<1>2. /\ hist'.late = hist.late \cup {call.want} /\ hist'.missed = hist.missed
      /\ hist'.ok = hist.ok
  BY DEF TimedOut, Shape, HistShape
<1> QED BY <1>1, <1>2 DEF TimedOut, W

\* What is waited for between two calls.
LEMMA Idle == NoCall # Hung /\ \A w : ~W(NoCall, w) /\ \A cl : W(cl, w) \in BOOLEAN
BY DEF NoCall, Hung, W

\* Every step keeps the exchange of QoS 1.
LEMMA AckStep ==
    ASSUME Shape, Shape', AckInv, Effects
    PROVE  AckInv'
<1> SUFFICES ASSUME call' # Hung, "PUBACK" \notin hist'.late
             PROVE  Exch(net'.out, net'.in, AckOut, AckIn, AckGood(call'.arg),
                         AckDone(call'.arg, broker'.got), W(call', "PUBACK"))
  BY DEF AckInv, AckAt
<1>a. PICK GO \in SUBSET Pkt, GI \in SUBSET Pkt, b \in BOOLEAN :
        GO = AckGood(call.arg) /\ GI = AckDone(call.arg, broker.got) /\ b = W(call, "PUBACK")
  BY Idle DEF AckGood, AckDone
<1>b. PICK HO \in SUBSET Pkt, HI \in SUBSET Pkt, d \in BOOLEAN :
        HO = AckGood(call'.arg) /\ HI = AckDone(call'.arg, broker'.got) /\ d = W(call', "PUBACK")
  BY Idle DEF AckGood, AckDone
<1> DEFINE Was == Exch(net.out, net.in, AckOut, AckIn, GO, GI, b)
           Goal == Exch(net'.out, net'.in, AckOut, AckIn, HO, HI, d)
<1> SUFFICES Goal
  BY <1>b
<1>0. /\ net.out \in Seq(Pkt) /\ net.in \in Seq(Pkt) /\ net'.out \in Seq(Pkt) /\ net'.in \in Seq(Pkt)
  BY DEF Shape, NetShape, Nets
<1>c. /\ Pkt \ AckOut \subseteq GO /\ Pkt \ AckOut \subseteq HO
      /\ Pkt \ AckIn \subseteq GI /\ Pkt \ AckIn \subseteq HI
  BY <1>a, <1>b DEF AckGood, AckDone
<1>1. call # Hung /\ "PUBACK" \notin hist.late => Was
  BY <1>a DEF AckInv, AckAt
<1>2. ASSUME Clear(net'.out, net'.in, AckOut, AckIn) PROVE Goal
  BY <1>0, <1>c, <1>2, ExchClear
<1>3. ASSUME Was, ~b PROVE Clear(net.out, net.in, AckOut, AckIn)
  BY <1>3 DEF Exch
<1>d. ASSUME call'.arg = call.arg, W(call', "PUBACK") = W(call, "PUBACK"), broker'.got = broker.got
      PROVE  GO = HO /\ GI = HI /\ b = d
  BY <1>a, <1>b, <1>d
<1>4. ASSUME NEW p, NEW done, NEW out1, NEW late \in BOOLEAN, CycleEffect(p, done, late, out1)
      PROVE  Goal
  <2>1. /\ call \in Calls /\ call # Hung /\ p \in Pkt /\ broker' = broker
        /\ done => p.type = call.want
        /\ hist'.late = hist.late
        /\ call' = [call EXCEPT !.expired = late] =>
             call'.arg = call.arg /\ W(call', "PUBACK") = W(call, "PUBACK")
    BY <1>4, CycleKeeps
  <2>2. Was
    BY <1>1, <2>1
  <2>3. \A a \in Answers(p) : a \in GO /\ a \notin AckOut
    BY <1>c, <2>1, AnswerFields, Members
  <2>4. /\ Exch(net'.out, net'.in, AckOut, AckIn, GO, GI, b)
        /\ p \in AckIn => Clear(net'.out, net'.in, AckOut, AckIn)
    <3>1. Packet("PINGREQ", 0) \in GO \ AckOut /\ Nothing \notin AckIn
      BY <1>c, Strangers
    <3> QED BY <1>4, <2>2, <2>3, <3>1, CycleExch
  <2>5. CASE call' = [call EXCEPT !.expired = late]
    BY <1>d, <2>1, <2>4, <2>5
  <2>6. CASE call' = NoCall /\ (done \/ call.op = "yield")
    <3>1. CASE b
      <4>1. p.type = "PUBACK"
        BY <1>a, <2>1, <2>6, <3>1 DEF W, Calls
      <4> QED BY <1>2, <2>1, <2>4, <4>1, Members
    <3>2. CASE ~b
      BY <1>2, <2>4, <3>2 DEF Exch
    <3> QED BY <3>1, <3>2
  <2> QED BY <1>4, <2>5, <2>6 DEF CycleEffect
<1>5. CASE TimedOut
  <2>1. net' = net /\ call # Hung /\ "PUBACK" \notin hist.late /\ ~W(call, "PUBACK")
    BY <1>5, TimedOutKeeps
  <2> QED BY <1>a, <1>1, <1>2, <1>3, <2>1
<1>6. CASE OpenEffect
  <2>1. Packet("CONNECT", 0) \notin AckOut
    BY Strangers
  <2> QED BY <1>2, <1>6, <2>1, OpenClear
<1>7. ASSUME NEW p \in Pkt, call = NoCall, net'.in = net.in, hist'.late = hist.late,
             \/ net'.out = net.out
             \/ net'.out = Append(net.out, p) /\ (p \in AckOut => W(call', "PUBACK") /\ p.arg = call'.arg)
      PROVE  Goal
  <2>1. Clear(net.out, net.in, AckOut, AckIn)
    BY <1>a, <1>1, <1>3, <1>7, Idle
  <2>2. p.arg = call'.arg => p \in HO
    BY <1>b DEF AckGood
  <2>3. net'.out = net.out \/ (net'.out = Append(net.out, p) /\ (p \in AckOut => d /\ p \in HO))
    BY <1>b, <1>7, <2>2
  <2> QED BY <1>0, <1>c, <1>7, <2>1, <2>3, ExchBegin
<1>8. ASSUME NEW p, NEW then, CommandEffect(p, then) PROVE Goal
  BY <1>7, <1>8 DEF CommandEffect, OutPkt, Shape, HistShape
<1>9. CASE LeaveEffect
  BY <1>7, <1>9, Strangers DEF LeaveEffect
<1>10. CASE MQTTYield
  BY <1>7, <1>10, Strangers DEF MQTTYield
<1>11. CASE UNCHANGED vars
  BY <1>1, <1>d, <1>11 DEF vars
<1>12. CASE CloseEffect /\ broker' = broker
  <2>1. call' = call /\ hist' = hist /\ net'.out = << >> /\ net'.in = net.in
    BY <1>12 DEF CloseEffect
  <2>2. Was /\ GO = HO /\ GI = HI /\ b = d
    BY <1>1, <1>d, <1>12, <2>1
  <2> QED BY <2>1, <2>2, ExchDrop
<1>13. ASSUME NEW p, NEW accept \in BOOLEAN, TakeEffect(p, accept) PROVE Goal
  <2>1. /\ net.out # << >> /\ p = Head(net.out) /\ net'.out = Tail(net.out)
        /\ call' = call /\ hist' = hist /\ p \in OutPkt(hist.commands) /\ p \in Pkt
        /\ broker' = Remember(p, accept)
        /\ \/ net'.in = net.in /\ p \notin Pub(1)
           \/ \E y \in Pkt : net'.in = Append(net.in, y) /\ (y.type = "PUBACK" <=> p \in Pub(1))
    BY <1>13 DEF TakeEffect, InPkt, OutPkt
  <2>2. broker.got \subseteq broker'.got /\ (p \in Pub(1) => p.arg \in broker'.got)
    BY <2>1, RememberFields
  <2>3. Was
    BY <1>1, <2>1
  <2>4. /\ Exch(net'.out, net.in, AckOut, AckIn, GO, GI, b)
        /\ p \in AckOut => Clear(net'.out, net.in, AckOut, AckIn) /\ b
        /\ p \in GO
    <3>1. Taken(net.out, p, net'.out)
      BY <2>1 DEF Taken
    <3>2. /\ Exch(net'.out, net.in, AckOut, AckIn, GO, GI, b)
          /\ p \in AckOut => /\ Clear(net'.out, net.in, AckOut, AckIn)
                             /\ ~Clear(net.out, net.in, AckOut, AckIn)
          /\ p \in GO
      BY <2>3, <3>1, ExchTake
    <3> QED BY <1>3, <2>3, <3>2
  <2>5. Exch(net'.out, net.in, AckOut, AckIn, HO, HI, d)
    <3>1. GO = HO /\ b = d /\ GI \subseteq HI
      BY <1>a, <1>b, <2>1, <2>2 DEF AckDone
    <3> QED BY <2>4, <3>1, ExchWiden
  <2>6. ASSUME NEW y \in Pkt, net'.in = Append(net.in, y), y.type = "PUBACK" <=> p \in Pub(1) PROVE Goal
    <3>1. y \notin AckIn \/ (d /\ Clear(net'.out, net.in, AckOut, AckIn))
      BY <1>a, <1>b, <2>1, <2>4, <2>6, Members
    <3>2. y \in HI
      <4>1. p \in Pub(1) => call.arg \in broker'.got
        BY <1>a, <2>1, <2>2, <2>4, Members DEF AckGood
      <4> QED BY <1>b, <2>1, <2>6, <4>1, Members DEF AckDone
    <3>3. Exch(net'.out, Append(net.in, y), AckOut, AckIn, HO, HI, d)
      BY <2>5, <3>1, <3>2, ExchPush
    <3> QED BY <2>1, <2>6, <3>3
  <2> QED BY <2>1, <2>5, <2>6
<1>14. ASSUME NEW y, PushEffect(y) PROVE Goal
  <2>1. /\ y \in Pkt /\ y.type = "PUBLISH" /\ net'.in = Append(net.in, y) /\ net'.out = net.out
        /\ call' = call /\ broker' = broker /\ hist'.late = hist.late
    BY <1>14 DEF PushEffect, InPkt, Shape, HistShape
  <2>2. y \notin AckIn /\ y \in HI
    BY <1>c, <2>1, Members
  <2>3. Was /\ GO = HO /\ GI = HI /\ b = d
    BY <1>1, <1>d, <2>1
  <2>4. Exch(net.out, Append(net.in, y), AckOut, AckIn, HO, HI, d)
    BY <2>2, <2>3, ExchPush
  <2> QED BY <2>1, <2>4
<1> QED BY <1>4, <1>5, <1>6, <1>8, <1>9, <1>10, <1>11, <1>12, <1>13, <1>14 DEF Effects

(***************************************************************************)
(* Part 7.  QoS 2.                                                         *)
(***************************************************************************)
\* Every step keeps the exchange of QoS 2.
LEMMA CompStep ==
    ASSUME Shape, Shape', CompInv, Effects
    PROVE  CompInv'
<1> SUFFICES ASSUME call' # Hung, "PUBCOMP" \notin hist'.late
             PROVE  /\ Exch(net'.out, net'.in, CompOut, CompIn, CompGood(call'.arg, broker'.rec, broker'.got),
                            CompDone(call'.arg, broker'.rec, broker'.got), W(call', "PUBCOMP"))
                    /\ ~W(call', "PUBCOMP") => broker'.rec = {}
  BY DEF CompInv, CompAt
<1>a. PICK GO \in SUBSET Pkt, GI \in SUBSET Pkt, b \in BOOLEAN :
        /\ GO = CompGood(call.arg, broker.rec, broker.got)
        /\ GI = CompDone(call.arg, broker.rec, broker.got) /\ b = W(call, "PUBCOMP")
  BY Idle DEF CompGood, CompDone
<1>b. PICK HO \in SUBSET Pkt, HI \in SUBSET Pkt, d \in BOOLEAN :
        /\ HO = CompGood(call'.arg, broker'.rec, broker'.got)
        /\ HI = CompDone(call'.arg, broker'.rec, broker'.got) /\ d = W(call', "PUBCOMP")
  BY Idle DEF CompGood, CompDone
<1> DEFINE Was == Exch(net.out, net.in, CompOut, CompIn, GO, GI, b)
           Goal == Exch(net'.out, net'.in, CompOut, CompIn, HO, HI, d) /\ (~d => broker'.rec = {})
<1> SUFFICES Goal
  BY <1>b
<1>0. /\ net.out \in Seq(Pkt) /\ net.in \in Seq(Pkt) /\ net'.out \in Seq(Pkt) /\ net'.in \in Seq(Pkt)
  BY DEF Shape, NetShape, Nets
<1>c. /\ Pkt \ CompOut \subseteq GO /\ Pkt \ CompOut \subseteq HO
      /\ Pkt \ CompIn \subseteq GI /\ Pkt \ CompIn \subseteq HI
  <2>1. \A p \in Pkt : p \notin CompOut => p \notin Pub(2) /\ p.type # "PUBREL"
    BY Members
  <2>2. \A p \in Pkt : p \notin CompIn => p.type # "PUBREC" /\ p.type # "PUBCOMP"
    BY Members
  <2> QED BY <1>a, <1>b, <2>1, <2>2 DEF CompGood, CompDone
<1>1. call # Hung /\ "PUBCOMP" \notin hist.late => Was /\ (~b => broker.rec = {})
  BY <1>a DEF CompInv, CompAt
<1>2. ASSUME Clear(net'.out, net'.in, CompOut, CompIn), broker'.rec = {} PROVE Goal
  BY <1>0, <1>c, <1>2, ExchClear
<1>3. ASSUME Was, ~b PROVE Clear(net.out, net.in, CompOut, CompIn)
  BY <1>3 DEF Exch
<1>d. ASSUME call'.arg = call.arg, W(call', "PUBCOMP") = W(call, "PUBCOMP"), broker' = broker
      PROVE  GO = HO /\ GI = HI /\ b = d
  BY <1>a, <1>b, <1>d
<1>4. ASSUME NEW p, NEW done, NEW out1, NEW late \in BOOLEAN, CycleEffect(p, done, late, out1)
      PROVE  Goal
  <2>1. /\ call \in Calls /\ call # Hung /\ p \in Pkt /\ broker' = broker
        /\ done => p.type = call.want
        /\ hist'.late = hist.late
        /\ call' = [call EXCEPT !.expired = late] =>
             call'.arg = call.arg /\ W(call', "PUBCOMP") = W(call, "PUBCOMP")
    BY <1>4, CycleKeeps
  <2>2. Was /\ (~b => broker.rec = {})
    BY <1>1, <2>1
  <2>3. p \in GI
    <3>1. Nothing \in GI
      BY <1>c, Strangers
    <3>2. p # Nothing => net.in # << >> /\ p = Head(net.in)
      BY <1>4, CycleRead
    <3>3. net.in \in Seq(GI)
      BY <2>2 DEF Exch
    <3> QED BY <3>1, <3>2, <3>3, TailSeq
  <2>4. \A a \in Answers(p) : a \in GO /\ (a \notin CompOut \/ p \in CompIn)
    <3>1. ASSUME NEW a \in Answers(p), a.type = "PUBREL" PROVE a \in GO /\ p \in CompIn
      <4>1. p.type = "PUBREC" /\ a \in Pkt /\ a.id = p.id
        BY <2>1, <3>1, AnswerFields
      <4>2. broker.rec \subseteq {p.id} /\ call.arg \in broker.got
        BY <1>a, <2>3, <4>1 DEF CompDone
      <4>3. a \notin Pub(2)
        BY <3>1, <4>1, Members
      <4> QED BY <1>a, <2>1, <4>1, <4>2, <4>3, Members DEF CompGood
    <3>2. ASSUME NEW a \in Answers(p), a.type # "PUBREL" PROVE a \in GO /\ a \notin CompOut
      <4>1. a \in Pkt /\ a.type # "PUBLISH"
        BY <2>1, AnswerFields
      <4>2. a \notin CompOut
        BY <3>2, <4>1, Members
      <4> QED BY <1>c, <4>1, <4>2
    <3> QED BY <3>1, <3>2
  <2>5. /\ Exch(net'.out, net'.in, CompOut, CompIn, GO, GI, b)
        /\ p \in CompIn /\ (\A a \in Answers(p) : a \notin CompOut) =>
             Clear(net'.out, net'.in, CompOut, CompIn)
    <3>1. Packet("PINGREQ", 0) \in GO \ CompOut /\ Nothing \notin CompIn
      BY <1>c, Strangers
    <3> QED BY <1>4, <2>2, <2>4, <3>1, CycleExch
  <2>6. CASE call' = [call EXCEPT !.expired = late]
    BY <1>d, <2>1, <2>2, <2>5, <2>6
  <2>7. CASE call' = NoCall /\ (done \/ call.op = "yield")
    <3>1. CASE b
      <4>1. p.type = "PUBCOMP"
        BY <1>a, <2>1, <2>7, <3>1 DEF W, Calls
      <4>2. \A a \in Answers(p) : a \notin CompOut
        BY <2>1, <4>1, AnswerFields, Members
      <4>3. p \in CompIn
        BY <2>1, <4>1, Members
      <4>4. broker.rec = {}
        BY <1>a, <2>3, <4>1 DEF CompDone
      <4> QED BY <1>2, <2>1, <2>5, <4>2, <4>3, <4>4
    <3>2. CASE ~b
      <4>1. Clear(net'.out, net'.in, CompOut, CompIn)
        BY <2>5, <3>2 DEF Exch
      <4> QED BY <1>2, <2>1, <2>2, <3>2, <4>1
    <3> QED BY <3>1, <3>2
  <2> QED BY <1>4, <2>6, <2>7 DEF CycleEffect
<1>5. CASE TimedOut
  <2>1. /\ net' = net /\ call # Hung /\ "PUBCOMP" \notin hist.late /\ ~W(call, "PUBCOMP")
        /\ broker' = broker
    BY <1>5, TimedOutKeeps
  <2> QED BY <1>a, <1>1, <1>2, <1>3, <2>1
<1>6. CASE OpenEffect
  <2>1. Packet("CONNECT", 0) \notin CompOut
    BY Strangers
  <2>2. broker'.rec = {}
    BY <1>6 DEF OpenEffect
  <2> QED BY <1>2, <1>6, <2>1, <2>2, OpenClear
<1>7. ASSUME NEW p \in Pkt, call = NoCall, net'.in = net.in, hist'.late = hist.late, broker' = broker,
             \/ net'.out = net.out
             \/ /\ net'.out = Append(net.out, p)
                /\ p \in CompOut => W(call', "PUBCOMP") /\ p.arg = call'.arg /\ p \in Pub(2)
      PROVE  Goal
  <2>1. Clear(net.out, net.in, CompOut, CompIn) /\ broker'.rec = {}
    BY <1>a, <1>1, <1>3, <1>7, Idle
  <2>2. p.arg = call'.arg /\ p \in Pub(2) => p \in HO
    <3>1. p \in Pub(2) => p.type # "PUBREL"
      BY Members
    <3> QED BY <1>b, <2>1, <3>1 DEF CompGood
  <2>3. net'.out = net.out \/ (net'.out = Append(net.out, p) /\ (p \in CompOut => d /\ p \in HO))
    BY <1>b, <1>7, <2>2
  <2>4. Exch(net'.out, net.in, CompOut, CompIn, HO, HI, d)
    BY <1>0, <1>c, <2>1, <2>3, ExchBegin
  <2> QED BY <1>7, <2>1, <2>4
<1>8. ASSUME NEW p, NEW then, CommandEffect(p, then) PROVE Goal
  BY <1>7, <1>8 DEF CommandEffect, OutPkt, Shape, HistShape
<1>9. CASE LeaveEffect
  BY <1>7, <1>9, Strangers DEF LeaveEffect
<1>10. CASE MQTTYield
  BY <1>7, <1>10, Strangers DEF MQTTYield
<1>11. CASE UNCHANGED vars
  BY <1>1, <1>d, <1>11 DEF vars
<1>12. CASE CloseEffect /\ broker' = broker
  <2>1. call' = call /\ hist' = hist /\ net'.out = << >> /\ net'.in = net.in
    BY <1>12 DEF CloseEffect
  <2>2. Was /\ (~b => broker.rec = {}) /\ GO = HO /\ GI = HI /\ b = d
    BY <1>1, <1>d, <1>12, <2>1
  <2>3. Exch(<< >>, net.in, CompOut, CompIn, HO, HI, d)
    BY <2>2, ExchDrop
  <2> QED BY <1>12, <2>1, <2>2, <2>3
<1>13. ASSUME NEW p, NEW accept \in BOOLEAN, TakeEffect(p, accept) PROVE Goal
  <2>1. /\ Taken(net.out, p, net'.out)
        /\ call' = call /\ hist' = hist /\ p \in OutPkt(hist.commands) /\ p \in Pkt
        /\ broker' = Remember(p, accept)
    BY <1>13 DEF TakeEffect, InPkt, OutPkt, Taken
  <2>2. \/ net'.in = net.in /\ p \notin CompOut
        \/ \E y \in Pkt : /\ net'.in = Append(net.in, y) /\ y.id = p.id
                          /\ y.type = "PUBREC" <=> p \in Pub(2)
                          /\ y.type = "PUBCOMP" <=> p.type = "PUBREL"
    BY <1>13, <2>1, Members DEF TakeEffect, InPkt
  <2>3. /\ broker.got \subseteq broker'.got
        /\ p \in Pub(2) /\ broker.rec = {} => p.arg \in broker'.got /\ broker'.rec = {p.id}
        /\ p.type = "PUBREL" => broker'.rec = broker.rec \ {p.id}
        /\ p \notin Pub(2) /\ p.type # "PUBREL" => broker'.rec = broker.rec
    BY <2>1, RememberFields
  <2>4. Was /\ (~b => broker.rec = {})
    BY <1>1, <2>1
  <2>5. /\ Exch(net'.out, net.in, CompOut, CompIn, GO, GI, b)
        /\ p \in CompOut => Clear(net'.out, net.in, CompOut, CompIn) /\ b
        /\ p \in GO
    <3>1. Taken(net.out, p, net'.out) /\ Was
      BY <2>1, <2>4
    <3>2. /\ Exch(net'.out, net.in, CompOut, CompIn, GO, GI, b)
          /\ p \in CompOut => /\ Clear(net'.out, net.in, CompOut, CompIn)
                              /\ ~Clear(net.out, net.in, CompOut, CompIn)
          /\ p \in GO
      BY <3>1, ExchTake
    <3> QED BY <1>3, <2>4, <3>2
  <2>6. b = d
    BY <1>a, <1>b, <2>1
  <2>7. CASE p \notin CompOut
    <3>1. p \notin Pub(2) /\ p.type # "PUBREL"
      BY <2>1, <2>7, Members
    <3>2. broker'.rec = broker.rec
      BY <2>3, <3>1
    <3>3. GO \subseteq HO /\ GI \subseteq HI
      BY <1>a, <1>b, <2>1, <2>3, <3>2 DEF CompGood, CompDone
    <3>4. Exch(net'.out, net.in, CompOut, CompIn, HO, HI, d)
      BY <2>5, <2>6, <3>3, ExchWiden
    <3>5. ASSUME NEW y \in Pkt, net'.in = Append(net.in, y), y.type # "PUBREC", y.type # "PUBCOMP"
          PROVE  Exch(net'.out, net'.in, CompOut, CompIn, HO, HI, d)
      <4>1. y \notin CompIn
        BY <3>5, Members
      <4>2. y \in HI
        BY <1>c, <4>1
      <4>3. Exch(net'.out, Append(net.in, y), CompOut, CompIn, HO, HI, d)
        BY <3>4, <4>1, <4>2, ExchPush
      <4> QED BY <3>5, <4>3
    <3>6. Exch(net'.out, net'.in, CompOut, CompIn, HO, HI, d)
      BY <2>2, <3>1, <3>4, <3>5
    <3> QED BY <2>4, <2>6, <3>2, <3>6
  <2>8. CASE p \in CompOut
    <3>1. PICK y \in Pkt : /\ net'.in = Append(net.in, y) /\ y.id = p.id
                           /\ y.type = "PUBREC" <=> p \in Pub(2)
                           /\ y.type = "PUBCOMP" <=> p.type = "PUBREL"
      BY <2>2, <2>8
    <3>2. p \in Pub(2) \/ p.type = "PUBREL"
      BY <2>1, <2>8, Members
    <3>3. y \in HI
      <4>1. CASE p \in Pub(2)
        <5>1. broker.rec = {} /\ p.arg = call.arg
          BY <1>a, <2>5, <4>1 DEF CompGood
        <5>2. broker'.rec = {y.id} /\ call'.arg \in broker'.got
          BY <2>1, <2>3, <3>1, <4>1, <5>1
        <5>3. y.type = "PUBREC"
          BY <3>1, <4>1
        <5> QED BY <1>b, <5>2, <5>3 DEF CompDone
      <4>2. CASE p.type = "PUBREL"
        <5>1. broker.rec \subseteq {p.id} /\ call.arg \in broker.got
          BY <1>a, <2>5, <4>2 DEF CompGood
        <5>2. broker'.rec = {} /\ call'.arg \in broker'.got
          BY <2>1, <2>3, <4>2, <5>1
        <5> QED BY <1>b, <5>2 DEF CompDone
      <4> QED BY <3>2, <4>1, <4>2
    <3>4. Exch(net'.out, net.in, CompOut, CompIn, HO, HI, d)
      BY <1>0, <1>c, <2>5, <2>8, ExchClear
    <3>5. Exch(net'.out, Append(net.in, y), CompOut, CompIn, HO, HI, d)
      BY <2>5, <2>6, <2>8, <3>3, <3>4, ExchPush
    <3> QED BY <2>5, <2>6, <2>8, <3>1, <3>5
  <2> QED BY <2>7, <2>8
<1>14. ASSUME NEW y, PushEffect(y) PROVE Goal
  <2>1. /\ y \in Pkt /\ y.type = "PUBLISH" /\ net'.in = Append(net.in, y) /\ net'.out = net.out
        /\ call' = call /\ broker' = broker /\ hist'.late = hist.late
    BY <1>14 DEF PushEffect, InPkt, Shape, HistShape
  <2>2. y \notin CompIn
    BY <2>1, Members
  <2>3. y \in HI
    BY <1>c, <2>1, <2>2
  <2>4. Was /\ (~b => broker.rec = {}) /\ GO = HO /\ GI = HI /\ b = d
    BY <1>1, <1>d, <2>1
  <2>5. Exch(net.out, Append(net.in, y), CompOut, CompIn, HO, HI, d)
    BY <2>2, <2>3, <2>4, ExchPush
  <2> QED BY <2>1, <2>4, <2>5
<1> QED BY <1>4, <1>5, <1>6, <1>8, <1>9, <1>10, <1>11, <1>12, <1>13, <1>14 DEF Effects

(***************************************************************************)
(* Part 8.  Subscriptions.                                                 *)
(***************************************************************************)
\* Every step keeps the exchange of SUBSCRIBE and SUBACK.
LEMMA SubExchStep ==
    ASSUME Shape, Shape', SubExch, Effects
    PROVE  SubExch'
<1> SUFFICES ASSUME call' # Hung, "SUBACK" \notin hist'.late
             PROVE  Exch(net'.out, net'.in, SubOut, SubIn, SubGood(call'.arg), Pkt,
                         W(call', "SUBACK"))
  BY DEF SubExch
<1>a. PICK GO \in SUBSET Pkt, b \in BOOLEAN :
        GO = SubGood(call.arg) /\ b = W(call, "SUBACK")
  BY Idle DEF SubGood
<1>b. PICK HO \in SUBSET Pkt, d \in BOOLEAN :
        HO = SubGood(call'.arg) /\ d = W(call', "SUBACK")
  BY Idle DEF SubGood
<1> DEFINE Was == Exch(net.out, net.in, SubOut, SubIn, GO, Pkt, b)
           Goal == Exch(net'.out, net'.in, SubOut, SubIn, HO, Pkt, d)
<1> SUFFICES Goal
  BY <1>b
<1>0. /\ net.out \in Seq(Pkt) /\ net.in \in Seq(Pkt) /\ net'.out \in Seq(Pkt) /\ net'.in \in Seq(Pkt)
  BY DEF Shape, NetShape, Nets
<1>c. /\ Pkt \ SubOut \subseteq GO /\ Pkt \ SubOut \subseteq HO
  BY <1>a, <1>b DEF SubGood
<1>1. call # Hung /\ "SUBACK" \notin hist.late => Was
  BY <1>a DEF SubExch
<1>2. ASSUME Clear(net'.out, net'.in, SubOut, SubIn) PROVE Goal
  BY <1>0, <1>c, <1>2, ExchClear
<1>3. ASSUME Was, ~b PROVE Clear(net.out, net.in, SubOut, SubIn)
  BY <1>3 DEF Exch
<1>d. ASSUME call'.arg = call.arg, W(call', "SUBACK") = W(call, "SUBACK")
      PROVE  GO = HO /\ b = d
  BY <1>a, <1>b, <1>d
<1>4. ASSUME NEW p, NEW done, NEW out1, NEW late \in BOOLEAN, CycleEffect(p, done, late, out1)
      PROVE  Goal
  <2>1. /\ call \in Calls /\ call # Hung /\ p \in Pkt /\ broker' = broker
        /\ done => p.type = call.want
        /\ hist'.late = hist.late
        /\ call' = [call EXCEPT !.expired = late] =>
             call'.arg = call.arg /\ W(call', "SUBACK") = W(call, "SUBACK")
    BY <1>4, CycleKeeps
  <2>2. Was
    BY <1>1, <2>1
  <2>3. \A a \in Answers(p) : a \in GO /\ a \notin SubOut
    BY <1>c, <2>1, AnswerFields, Members
  <2>4. /\ Exch(net'.out, net'.in, SubOut, SubIn, GO, Pkt, b)
        /\ p \in SubIn => Clear(net'.out, net'.in, SubOut, SubIn)
    <3>1. Packet("PINGREQ", 0) \in GO \ SubOut /\ Nothing \notin SubIn
      BY <1>c, Strangers
    <3> QED BY <1>4, <2>2, <2>3, <3>1, CycleExch
  <2>5. CASE call' = [call EXCEPT !.expired = late]
    BY <1>d, <2>1, <2>4, <2>5
  <2>6. CASE call' = NoCall /\ (done \/ call.op = "yield")
    <3>1. CASE b
      <4>1. p.type = "SUBACK"
        BY <1>a, <2>1, <2>6, <3>1 DEF W, Calls
      <4> QED BY <1>2, <2>1, <2>4, <4>1, Members
    <3>2. CASE ~b
      BY <1>2, <2>4, <3>2 DEF Exch
    <3> QED BY <3>1, <3>2
  <2> QED BY <1>4, <2>5, <2>6 DEF CycleEffect
<1>5. CASE TimedOut
  <2>1. net' = net /\ call # Hung /\ "SUBACK" \notin hist.late /\ ~W(call, "SUBACK")
    BY <1>5, TimedOutKeeps
  <2> QED BY <1>a, <1>1, <1>2, <1>3, <2>1
<1>6. CASE OpenEffect
  <2>1. Packet("CONNECT", 0) \notin SubOut
    BY Strangers
  <2> QED BY <1>2, <1>6, <2>1, OpenClear
<1>7. ASSUME NEW p \in Pkt, call = NoCall, net'.in = net.in, hist'.late = hist.late,
             \/ net'.out = net.out
             \/ net'.out = Append(net.out, p) /\ (p \in SubOut => W(call', "SUBACK") /\ p.arg = call'.arg)
      PROVE  Goal
  <2>1. Clear(net.out, net.in, SubOut, SubIn)
    BY <1>a, <1>1, <1>3, <1>7, Idle
  <2>2. p.arg = call'.arg => p \in HO
    BY <1>b DEF SubGood
  <2>3. net'.out = net.out \/ (net'.out = Append(net.out, p) /\ (p \in SubOut => d /\ p \in HO))
    BY <1>b, <1>7, <2>2
  <2> QED BY <1>0, <1>c, <1>7, <2>1, <2>3, ExchBegin
<1>8. ASSUME NEW p, NEW then, CommandEffect(p, then) PROVE Goal
  BY <1>7, <1>8 DEF CommandEffect, OutPkt, Shape, HistShape
<1>9. CASE LeaveEffect
  BY <1>7, <1>9, Strangers DEF LeaveEffect
<1>10. CASE MQTTYield
  BY <1>7, <1>10, Strangers DEF MQTTYield
<1>11. CASE UNCHANGED vars
  BY <1>1, <1>d, <1>11 DEF vars
<1>12. CASE CloseEffect /\ broker' = broker
  <2>1. call' = call /\ hist' = hist /\ net'.out = << >> /\ net'.in = net.in
    BY <1>12 DEF CloseEffect
  <2>2. Was /\ GO = HO /\ b = d
    BY <1>1, <1>d, <1>12, <2>1
  <2> QED BY <2>1, <2>2, ExchDrop
<1>13. ASSUME NEW p, NEW accept \in BOOLEAN, TakeEffect(p, accept) PROVE Goal
  <2>1. /\ net.out # << >> /\ p = Head(net.out) /\ net'.out = Tail(net.out)
        /\ call' = call /\ hist' = hist /\ p \in OutPkt(hist.commands) /\ p \in Pkt
        /\ net'.in = net.in \/ \E y \in Pkt : /\ net'.in = Append(net.in, y)
                                              /\ y.type = "SUBACK" <=> p.type = "SUBSCRIBE"
    BY <1>13 DEF TakeEffect, InPkt, OutPkt
  <2>3. Was
    BY <1>1, <2>1
  <2>4. /\ Exch(net'.out, net.in, SubOut, SubIn, GO, Pkt, b)
        /\ p \in SubOut => Clear(net'.out, net.in, SubOut, SubIn) /\ b
        /\ p \in GO
    <3>1. Taken(net.out, p, net'.out)
      BY <2>1 DEF Taken
    <3>2. /\ Exch(net'.out, net.in, SubOut, SubIn, GO, Pkt, b)
          /\ p \in SubOut => /\ Clear(net'.out, net.in, SubOut, SubIn)
                             /\ ~Clear(net.out, net.in, SubOut, SubIn)
          /\ p \in GO
      BY <2>3, <3>1, ExchTake
    <3> QED BY <1>3, <2>3, <3>2
  <2>5. Exch(net'.out, net.in, SubOut, SubIn, HO, Pkt, d)
    <3>1. GO = HO /\ b = d
      BY <1>a, <1>b, <2>1
    <3> QED BY <2>4, <3>1
  <2>6. ASSUME NEW y \in Pkt, net'.in = Append(net.in, y), y.type = "SUBACK" <=> p.type = "SUBSCRIBE"
        PROVE  Goal
    <3>1. y \notin SubIn \/ (d /\ Clear(net'.out, net.in, SubOut, SubIn))
      BY <1>a, <1>b, <2>1, <2>4, <2>6, Members
    <3>3. Exch(net'.out, Append(net.in, y), SubOut, SubIn, HO, Pkt, d)
      BY <2>5, <3>1, ExchPush
    <3> QED BY <2>1, <2>6, <3>3
  <2> QED BY <2>1, <2>5, <2>6
<1>14. ASSUME NEW y, PushEffect(y) PROVE Goal
  <2>1. /\ y \in Pkt /\ y.type = "PUBLISH" /\ net'.in = Append(net.in, y) /\ net'.out = net.out
        /\ call' = call /\ broker' = broker /\ hist'.late = hist.late
    BY <1>14 DEF PushEffect, InPkt, Shape, HistShape
  <2>2. y \notin SubIn /\ y \in Pkt
    BY <2>1, Members
  <2>3. Was /\ GO = HO /\ b = d
    BY <1>1, <1>d, <2>1
  <2>4. Exch(net.out, Append(net.in, y), SubOut, SubIn, HO, Pkt, d)
    BY <2>2, <2>3, ExchPush
  <2> QED BY <2>1, <2>4
<1> QED BY <1>4, <1>5, <1>6, <1>8, <1>9, <1>10, <1>11, <1>12, <1>13, <1>14 DEF Effects


\* An answer that comes still comes when a packet is added or another is read.
LEMMA ComingKept ==
    ASSUME NEW in \in Seq(Pkt), NEW cl, NEW t, NEW n \in 0 .. Len(in), Coming(t, n, in, cl),
           NEW cl2, cl2.arg = cl.arg, W(cl2, "SUBACK") = W(cl, "SUBACK")
    PROVE  /\ \A y \in Pkt : \A m \in Nat : n <= m => Coming(t, m, Append(in, y), cl2)
           /\ in # << >> /\ Head(in).type # "SUBACK" => Coming(t, n - 1, Tail(in), cl2)
           /\ Coming(t, n, in, cl2)
<1>0. Len(in) \in Nat
  BY LenProperties
<1>1. PICK i \in 1 .. n : in[i].type = "SUBACK" /\ in[i].arg = TRUE
  BY DEF Coming
<1>2. W(cl2, "SUBACK") /\ cl2.arg = t
  BY DEF Coming
<1>3. ASSUME NEW y \in Pkt, NEW m \in Nat, n <= m PROVE Coming(t, m, Append(in, y), cl2)
  <2>1. i \in 1 .. Len(in) /\ i \in 1 .. m
    BY <1>0, <1>3
  <2>2. Append(in, y)[i] = in[i]
    BY <2>1, AppendSeq
  <2> QED BY <1>1, <1>2, <2>1, <2>2 DEF Coming
<1>4. ASSUME in # << >>, Head(in).type # "SUBACK" PROVE Coming(t, n - 1, Tail(in), cl2)
  <2>1. i # 1
    BY <1>1, <1>4, TailSeq
  <2>2. i - 1 \in 1 .. Len(in) - 1 /\ i - 1 \in 1 .. n - 1 /\ (i - 1) + 1 = i
    BY <1>0, <2>1
  <2>3. Tail(in)[i - 1] = in[i]
    BY <1>4, <2>2, TailSeq
  <2> QED BY <1>1, <1>2, <2>2, <2>3 DEF Coming
<1> QED BY <1>1, <1>2, <1>3, <1>4 DEF Coming

\* Without a subscription under way every topic has its handler.
LEMMA OrderedIdle ==
    ASSUME NEW in, NEW cl, ~W(cl, "SUBACK"), NEW subs, NEW handlers, Ordered(in, cl, subs, handlers),
           Len(handlers) < MaxHandlers
    PROVE  /\ \A t \in subs : Entered(t, handlers)
           /\ \A i \in DOMAIN in : in[i].type = "PUBLISH" => Entered(in[i].arg, handlers)
BY DEF Ordered, Coming

\* Whatever is waited for then.
LEMMA OrderedIdleKept ==
    ASSUME NEW in, NEW cl, ~W(cl, "SUBACK"), NEW subs, NEW handlers, Ordered(in, cl, subs, handlers),
           NEW cl2
    PROVE  Ordered(in, cl2, subs, handlers)
BY OrderedIdle DEF Ordered

\* A handler is entered when SUBACK is read, and none is ever removed.
LEMMA CycleHandlers ==
    ASSUME Shape, NEW p, NEW done, NEW late \in BOOLEAN, NEW out1, CycleEffect(p, done, late, out1)
    PROVE  /\ \A t : Entered(t, c.handlers) => Entered(t, c'.handlers)
           /\ Len(c'.handlers) < MaxHandlers => Len(c.handlers) < MaxHandlers
           /\ Len(c.handlers) = MaxHandlers \/ p.type # "SUBACK" => c'.handlers = c.handlers
           /\ done /\ p.type = "SUBACK" /\ p.arg = TRUE /\ Len(c.handlers) < MaxHandlers =>
                Entered(call.arg, c'.handlers)
<1>0. /\ c \in [isconnected : BOOLEAN, ping : BOOLEAN, next : 0 .. MaxPacketId, handlers : Seq(Topic)]
      /\ Len(c.handlers) <= MaxHandlers /\ Len(c.handlers) \in Nat /\ MaxHandlers \in Nat
  BY MqttAssumption, LenProperties DEF Shape, ClientShape
<1>1. /\ c' = [(IF done THEN Completed(p) ELSE c) EXCEPT !.ping = c'.ping] /\ done \in BOOLEAN
      /\ done => p.type = call.want
  BY DEF CycleEffect
<1>2. ASSUME ~(done /\ p.type = "SUBACK" /\ p.arg /\ HasRoom) PROVE c'.handlers = c.handlers
  <2>1. CASE ~done
    BY <1>0, <1>1, <2>1
  <2>2. CASE done
    <3>1. PICK i : i = IF p.type = "CONNACK" THEN p.arg ELSE c.isconnected
      OBVIOUS
    <3>2. Completed(p) = [c EXCEPT !.isconnected = i, !.handlers = c.handlers]
      BY <1>2, <2>2, <3>1 DEF Completed
    <3>3. c' = [c EXCEPT !.isconnected = i, !.handlers = c.handlers, !.ping = c'.ping]
      BY <1>1, <2>2, <3>2
    <3> QED BY <1>0, <3>3
  <2> QED BY <2>1, <2>2
<1>3. ASSUME done, p.type = "SUBACK", p.arg, HasRoom
      PROVE  c'.handlers = Append(c.handlers, call.arg) /\ call.arg \in Topic
  <2>1. PICK h : h = Append(c.handlers, call.arg)
    OBVIOUS
  <2>2. Completed(p) = [c EXCEPT !.isconnected = c.isconnected, !.handlers = h]
    BY <1>3, <2>1 DEF Completed
  <2>3. c' = [c EXCEPT !.isconnected = c.isconnected, !.handlers = h, !.ping = c'.ping]
    BY <1>1, <1>3, <2>2
  <2>4. c'.handlers = h
    BY <1>0, <2>3
  <2>5. call \in Calls /\ call.want = "SUBACK"
    BY <1>1, <1>3, CycleRead
  <2> QED BY <2>1, <2>4, <2>5 DEF Calls
<1>4. CASE ~(done /\ p.type = "SUBACK" /\ p.arg /\ HasRoom)
  BY <1>0, <1>2, <1>4 DEF HasRoom
<1>5. CASE done /\ p.type = "SUBACK" /\ p.arg /\ HasRoom
  <2>1. PICK h \in Seq(Topic) : h = c.handlers
    BY <1>0
  <2>2. c'.handlers = Append(h, call.arg) /\ call.arg \in Topic
    BY <1>3, <1>5, <2>1
  <2>3. /\ Len(c'.handlers) = Len(h) + 1
        /\ DOMAIN c'.handlers = 1 .. Len(h) + 1 /\ DOMAIN h = 1 .. Len(h)
        /\ \A i \in 1 .. Len(h) : c'.handlers[i] = h[i]
        /\ c'.handlers[Len(h) + 1] = call.arg /\ Len(h) \in Nat
    BY <2>2, AppendSeq
  <2>4. \A t : Entered(t, c.handlers) => Entered(t, c'.handlers)
    BY <2>1, <2>3 DEF Entered
  <2>5. Entered(call.arg, c'.handlers)
    BY <2>3 DEF Entered
  <2> QED BY <1>0, <1>5, <2>1, <2>3, <2>4, <2>5 DEF HasRoom
<1> QED BY <1>4, <1>5

\* cycle keeps the order: a message is read after the answer to the
\* subscription, and then the handler has been entered.
LEMMA CycleOrder ==
    ASSUME Shape, NEW p, NEW done, NEW late \in BOOLEAN, NEW out1, CycleEffect(p, done, late, out1),
           Exch(net.out, net.in, SubOut, SubIn, SubGood(call.arg), Pkt, W(call, "SUBACK")),
           Ordered(net.in, call, broker.subs, c.handlers), call' # Hung
    PROVE  Ordered(net'.in, call', broker'.subs, c'.handlers)
<1>0. net.in \in Seq(Pkt) /\ Len(net.in) \in Nat /\ DOMAIN net.in = 1 .. Len(net.in)
  BY LenProperties DEF Shape, NetShape, Nets
<1>1. /\ call \in Calls /\ p \in Pkt /\ broker' = broker
      /\ done => p.type = call.want
      /\ call' = [call EXCEPT !.expired = late] =>
           call'.arg = call.arg /\ W(call', "SUBACK") = W(call, "SUBACK")
  BY CycleKeeps
<1>2. /\ \A t : Entered(t, c.handlers) => Entered(t, c'.handlers)
      /\ Len(c'.handlers) < MaxHandlers => Len(c.handlers) < MaxHandlers
      /\ done /\ p.type = "SUBACK" /\ p.arg = TRUE /\ Len(c.handlers) < MaxHandlers =>
           Entered(call.arg, c'.handlers)
  BY CycleHandlers
<1>3. \/ p = Nothing /\ net'.in = net.in
      \/ net.in # << >> /\ p = Head(net.in) /\ net'.in = Tail(net.in)
  BY DEF CycleEffect
<1> SUFFICES ASSUME Len(c'.handlers) < MaxHandlers
             PROVE  /\ \A t \in broker.subs : Entered(t, c'.handlers) \/ Coming(t, Len(net'.in), net'.in, call')
                    /\ \A i \in DOMAIN net'.in : net'.in[i].type = "PUBLISH" =>
                         \/ Entered(net'.in[i].arg, c'.handlers)
                         \/ Coming(net'.in[i].arg, i - 1, net'.in, call')
  BY <1>1 DEF Ordered
<1>4. /\ \A t \in broker.subs : Entered(t, c'.handlers) \/ Coming(t, Len(net.in), net.in, call)
      /\ \A i \in DOMAIN net.in : net.in[i].type = "PUBLISH" =>
           Entered(net.in[i].arg, c'.handlers) \/ Coming(net.in[i].arg, i - 1, net.in, call)
  BY <1>2 DEF Ordered
<1>5. net.in # << >> => /\ Len(Tail(net.in)) = Len(net.in) - 1 /\ Len(net.in) \in Nat \ {0}
                        /\ DOMAIN Tail(net.in) = 1 .. Len(net.in) - 1
                        /\ \A i \in 1 .. Len(net.in) - 1 : Tail(net.in)[i] = net.in[i + 1]
                        /\ Head(net.in) = net.in[1]
  BY <1>0, TailSeq
<1>6. ASSUME \A t \in broker.subs : Entered(t, c'.handlers),
             \A i \in DOMAIN net.in : net.in[i].type = "PUBLISH" => Entered(net.in[i].arg, c'.handlers)
      PROVE  /\ \A t \in broker.subs : Entered(t, c'.handlers)
             /\ \A i \in DOMAIN net'.in : net'.in[i].type = "PUBLISH" => Entered(net'.in[i].arg, c'.handlers)
  <2>1. CASE net'.in = net.in
    BY <1>6, <2>1
  <2>2. CASE net.in # << >> /\ net'.in = Tail(net.in)
    <3>1. \A i \in DOMAIN net'.in : i + 1 \in DOMAIN net.in /\ net'.in[i] = net.in[i + 1]
      BY <1>0, <1>5, <2>2
    <3> QED BY <1>6, <3>1
  <2> QED BY <1>3, <2>1, <2>2
<1>7. CASE ~W(call, "SUBACK")
  <2>1. \A t, n : ~Coming(t, n, net.in, call)
    BY <1>7 DEF Coming
  <2> QED BY <1>4, <1>6, <2>1
<1>8. CASE W(call, "SUBACK") /\ p.type = "SUBACK"
  <2>1. net.in # << >> /\ p = Head(net.in) /\ net'.in = Tail(net.in) /\ p = net.in[1] /\ 1 \in DOMAIN net.in
    BY <1>0, <1>3, <1>5, <1>8, CycleRead DEF W
  <2>2. done
    <3>1. Answers(p) = {}
      BY <1>8 DEF Answers
    <3> QED BY <1>8, <3>1 DEF CycleEffect, W
  <2>3. ASSUME NEW t, NEW n \in 0 .. Len(net.in), Coming(t, n, net.in, call) PROVE Entered(t, c'.handlers)
    <3>1. PICK i \in 1 .. n : net.in[i].type = "SUBACK" /\ net.in[i].arg = TRUE
      BY <2>3 DEF Coming
    <3>2. i \in DOMAIN net.in /\ net.in[i] \in Pkt
      BY <1>0
    <3>3. net.in[i] \in SubIn /\ net.in[1] \in SubIn
      BY <1>1, <1>8, <2>1, <3>1, <3>2, Members
    <3>4. i = 1
      BY <2>1, <3>2, <3>3 DEF Exch, Flight, One
    <3>5. p.arg = TRUE /\ t = call.arg
      BY <2>1, <2>3, <3>1, <3>4 DEF Coming
    <3> QED BY <1>2, <1>8, <2>2, <3>5
  <2>4. \A i \in DOMAIN net.in : i - 1 \in 0 .. Len(net.in)
    BY <1>0
  <2>5. Len(net.in) \in 0 .. Len(net.in)
    BY <1>0
  <2> QED BY <1>4, <1>6, <2>3, <2>4, <2>5
<1>9. CASE W(call, "SUBACK") /\ p.type # "SUBACK"
  <2>1. call' = [call EXCEPT !.expired = late]
    <3>1. call.want = "SUBACK" /\ call.op # "yield" /\ ~done
      BY <1>1, <1>9 DEF W, Calls
    <3> QED BY <3>1 DEF CycleEffect
  <2>2. call'.arg = call.arg /\ W(call', "SUBACK") = W(call, "SUBACK")
    BY <1>1, <2>1
  <2>3. CASE net'.in = net.in
    <3>1. ASSUME NEW t, NEW n \in 0 .. Len(net.in), Coming(t, n, net.in, call)
          PROVE  Coming(t, n, net.in, call')
      BY <1>0, <2>2, <3>1, ComingKept
    <3>2. \A i \in DOMAIN net.in : i - 1 \in 0 .. Len(net.in)
      BY <1>0
    <3>3. Len(net.in) \in 0 .. Len(net.in)
      BY <1>0
    <3> QED BY <1>4, <2>3, <3>1, <3>2, <3>3
  <2>4. CASE net.in # << >> /\ p = Head(net.in) /\ net'.in = Tail(net.in)
    <3>1. ASSUME NEW t, NEW n \in 0 .. Len(net.in), Coming(t, n, net.in, call)
          PROVE  Coming(t, n - 1, net'.in, call')
      <4>1. Coming(t, n - 1, Tail(net.in), call')
        BY <1>0, <1>9, <2>2, <2>4, <3>1, ComingKept
      <4> QED BY <2>4, <4>1
    <3>2. Len(net.in) \in 0 .. Len(net.in) /\ Len(net'.in) = Len(net.in) - 1
      BY <1>0, <1>5, <2>4
    <3>3. ASSUME NEW t \in broker.subs PROVE Entered(t, c'.handlers) \/ Coming(t, Len(net'.in), net'.in, call')
      BY <1>4, <3>1, <3>2
    <3>4. ASSUME NEW i \in DOMAIN net'.in, net'.in[i].type = "PUBLISH"
          PROVE  Entered(net'.in[i].arg, c'.handlers) \/ Coming(net'.in[i].arg, i - 1, net'.in, call')
      <4>1. i \in 1 .. Len(net.in) - 1 /\ net'.in[i] = net.in[i + 1]
        BY <1>5, <2>4
      <4>2. i + 1 \in DOMAIN net.in /\ i \in 0 .. Len(net.in) /\ (i + 1) - 1 = i
        BY <1>0, <4>1
      <4>3. Entered(net.in[i + 1].arg, c'.handlers) \/ Coming(net.in[i + 1].arg, i, net.in, call)
        BY <1>4, <3>4, <4>1, <4>2
      <4> QED BY <3>1, <4>1, <4>2, <4>3
    <3> QED BY <3>3, <3>4
  <2> QED BY <1>3, <2>3, <2>4
<1> QED BY <1>7, <1>8, <1>9

\* The broker adds the packet y: nothing that comes is lost.
LEMMA AppendOrder ==
    ASSUME NEW in \in Seq(Pkt), NEW y \in Pkt, NEW cl, NEW subs, NEW handlers,
           Ordered(in, cl, subs, handlers), NEW subs2, Len(handlers) < MaxHandlers,
           \A t \in subs2 : t \in subs \/ Coming(t, Len(in) + 1, Append(in, y), cl),
           y.type = "PUBLISH" => y.arg \in subs
    PROVE  Ordered(Append(in, y), cl, subs2, handlers)
<1>0. /\ Len(in) \in Nat /\ DOMAIN in = 1 .. Len(in) /\ Len(Append(in, y)) = Len(in) + 1
      /\ DOMAIN Append(in, y) = 1 .. Len(in) + 1
      /\ \A i \in 1 .. Len(in) : Append(in, y)[i] = in[i]
      /\ Append(in, y)[Len(in) + 1] = y
  BY AppendSeq
<1>1. PICK s : s = Append(in, y)
  OBVIOUS
<1>2. ASSUME NEW t, NEW n \in 0 .. Len(in), Coming(t, n, in, cl), NEW m \in Nat, n <= m
      PROVE  Coming(t, m, s, cl)
  BY <1>1, <1>2, ComingKept
<1>3. /\ \A t \in subs : Entered(t, handlers) \/ Coming(t, Len(in), in, cl)
      /\ \A i \in DOMAIN in : in[i].type = "PUBLISH" =>
           Entered(in[i].arg, handlers) \/ Coming(in[i].arg, i - 1, in, cl)
  BY DEF Ordered
<1>4. \A t \in subs : /\ Entered(t, handlers) \/ Coming(t, Len(in) + 1, s, cl)
                      /\ Entered(t, handlers) \/ Coming(t, Len(in), s, cl)
  <2>1. Len(in) \in 0 .. Len(in) /\ Len(in) + 1 \in Nat /\ Len(in) <= Len(in) + 1
    BY <1>0
  <2> QED BY <1>2, <1>3, <2>1
<1>5. ASSUME NEW i \in DOMAIN s, s[i].type = "PUBLISH"
      PROVE  Entered(s[i].arg, handlers) \/ Coming(s[i].arg, i - 1, s, cl)
  <2>1. CASE i \in 1 .. Len(in)
    <3>1. s[i] = in[i] /\ i - 1 \in 0 .. Len(in) /\ i - 1 \in Nat /\ i - 1 <= i - 1
      BY <1>0, <1>1, <2>1
    <3>2. Entered(in[i].arg, handlers) \/ Coming(in[i].arg, i - 1, in, cl)
      BY <1>0, <1>3, <1>5, <2>1, <3>1
    <3> QED BY <1>2, <3>1, <3>2
  <2>2. CASE i = Len(in) + 1
    <3>1. s[i] = y /\ i - 1 = Len(in)
      BY <1>0, <1>1, <2>2
    <3> QED BY <1>4, <1>5, <3>1
  <2> QED BY <1>0, <1>1, <1>5, <2>1, <2>2
<1>6. \A t \in subs2 : Entered(t, handlers) \/ Coming(t, Len(s), s, cl)
  BY <1>0, <1>1, <1>4
<1> QED BY <1>1, <1>5, <1>6 DEF Ordered

\* Every step keeps the order.
LEMMA SubOrderStep ==
    ASSUME Shape, Shape', SubExch, SubOrder, Effects
    PROVE  SubOrder'
<1> SUFFICES ASSUME call' # Hung, "SUBACK" \notin hist'.late
             PROVE  Ordered(net'.in, call', broker'.subs, c'.handlers)
  BY DEF SubOrder
<1>0. net.in \in Seq(Pkt) /\ net'.in \in Seq(Pkt)
  BY DEF Shape, NetShape, Nets
<1>1. ASSUME call # Hung, "SUBACK" \notin hist.late
      PROVE  /\ Exch(net.out, net.in, SubOut, SubIn, SubGood(call.arg), Pkt, W(call, "SUBACK"))
             /\ Ordered(net.in, call, broker.subs, c.handlers)
  BY <1>1 DEF SubExch, SubOrder
<1>2. ASSUME NEW p, NEW done, NEW out1, NEW late \in BOOLEAN, CycleEffect(p, done, late, out1)
      PROVE  Ordered(net'.in, call', broker'.subs, c'.handlers)
  <2>1. call # Hung /\ hist'.late = hist.late
    BY <1>2, CycleKeeps
  <2> QED BY <1>1, <1>2, <2>1, CycleOrder
<1>3. CASE TimedOut
  <2>1. /\ net' = net /\ call # Hung /\ "SUBACK" \notin hist.late /\ ~W(call, "SUBACK")
        /\ broker' = broker /\ c' = c
    BY <1>3, TimedOutKeeps
  <2> QED BY <1>1, <2>1, OrderedIdleKept
<1>4. CASE OpenEffect
  <2>1. broker'.subs = {} /\ net'.in = << >>
    BY <1>4 DEF OpenEffect
  <2> QED BY <2>1 DEF Ordered
<1>5. ASSUME call = NoCall, net'.in = net.in, hist'.late = hist.late, broker' = broker,
             c'.handlers = c.handlers
      PROVE  Ordered(net'.in, call', broker'.subs, c'.handlers)
  BY <1>1, <1>5, Idle, OrderedIdleKept
<1>6. ASSUME NEW p, NEW then, CommandEffect(p, then)
      PROVE  Ordered(net'.in, call', broker'.subs, c'.handlers)
  <2>1. hist'.late = hist.late /\ c'.handlers = c.handlers
    BY <1>6 DEF CommandEffect, Shape, HistShape, ClientShape
  <2> QED BY <1>5, <1>6, <2>1 DEF CommandEffect
<1>7. CASE LeaveEffect
  <2>1. c'.handlers = c.handlers
    BY <1>7 DEF LeaveEffect, Shape, ClientShape
  <2> QED BY <1>5, <1>7, <2>1 DEF LeaveEffect
<1>8. CASE MQTTYield
  BY <1>5, <1>8 DEF MQTTYield
<1>9. CASE UNCHANGED vars
  BY <1>1, <1>9 DEF vars
<1>10. CASE CloseEffect /\ broker' = broker
  BY <1>1, <1>10 DEF CloseEffect
<1>11. ASSUME NEW p, NEW accept \in BOOLEAN, TakeEffect(p, accept)
       PROVE  Ordered(net'.in, call', broker'.subs, c'.handlers)
  <2>1. /\ Taken(net.out, p, net'.out) /\ p \in Pkt /\ p \in OutPkt(hist.commands)
        /\ call' = call /\ hist' = hist /\ c' = c /\ broker' = Remember(p, accept)
    BY <1>11 DEF TakeEffect, OutPkt, Taken
  <2>2. \/ net'.in = net.in /\ p.type # "SUBSCRIBE"
        \/ \E y \in Pkt : /\ net'.in = Append(net.in, y) /\ y.type # "PUBLISH" /\ y.arg = accept
                          /\ y.type = "SUBACK" <=> p.type = "SUBSCRIBE"
    BY <1>11 DEF TakeEffect, InPkt
  <2>3. /\ ~(p.type = "SUBSCRIBE" /\ accept) => broker'.subs \subseteq broker.subs
        /\ broker'.subs \subseteq broker.subs \cup {p.arg}
    BY <2>1, RememberFields
  <2>4. /\ Exch(net.out, net.in, SubOut, SubIn, SubGood(call.arg), Pkt, W(call, "SUBACK"))
        /\ Ordered(net.in, call, broker.subs, c.handlers)
    BY <1>1, <2>1
  <2>5. CASE net'.in = net.in /\ p.type # "SUBSCRIBE"
    BY <2>1, <2>3, <2>4, <2>5 DEF Ordered
  <2>6. ASSUME NEW y \in Pkt, net'.in = Append(net.in, y), y.type # "PUBLISH", y.arg = accept,
               y.type = "SUBACK" <=> p.type = "SUBSCRIBE"
        PROVE  Ordered(net'.in, call', broker'.subs, c'.handlers)
    <3>1. ASSUME p.type = "SUBSCRIBE", accept
          PROVE  Coming(p.arg, Len(net.in) + 1, Append(net.in, y), call)
      <4>1. PICK GO \in SUBSET Pkt, b \in BOOLEAN : GO = SubGood(call.arg) /\ b = W(call, "SUBACK")
        BY Idle DEF SubGood
      <4>2. Exch(net.out, net.in, SubOut, SubIn, GO, Pkt, b) /\ Taken(net.out, p, net'.out)
        BY <2>1, <2>4, <4>1
      <4>3. /\ Exch(net'.out, net.in, SubOut, SubIn, GO, Pkt, b)
            /\ p \in SubOut => /\ Clear(net'.out, net.in, SubOut, SubIn)
                               /\ ~Clear(net.out, net.in, SubOut, SubIn)
            /\ p \in GO
        BY <4>2, ExchTake
      <4>5. p \in SubOut
        BY <2>1, <3>1, Members
      <4>6. b /\ p.arg = call.arg
        BY <4>1, <4>2, <4>3, <4>5 DEF Exch, SubGood
      <4>7. Len(net.in) + 1 \in 1 .. Len(net.in) + 1 /\ Append(net.in, y)[Len(net.in) + 1] = y
        BY <1>0, AppendSeq
      <4>8. y.type = "SUBACK" /\ y.arg = TRUE
        BY <2>6, <3>1
      <4> QED BY <4>1, <4>6, <4>7, <4>8 DEF Coming
    <3>2. \A t \in broker'.subs : t \in broker.subs \/ Coming(t, Len(net.in) + 1, Append(net.in, y), call)
      BY <2>3, <3>1
    <3>3. Len(c.handlers) < MaxHandlers => Ordered(Append(net.in, y), call, broker'.subs, c.handlers)
      BY <1>0, <2>4, <2>6, <3>2, AppendOrder
    <3>4. Ordered(Append(net.in, y), call, broker'.subs, c.handlers)
      BY <3>3 DEF Ordered
    <3> QED BY <2>1, <2>6, <3>4
  <2> QED BY <2>2, <2>5, <2>6
<1>12. ASSUME NEW y, PushEffect(y) PROVE Ordered(net'.in, call', broker'.subs, c'.handlers)
  <2>1. /\ y \in Pkt /\ y.arg \in broker.subs /\ net'.in = Append(net.in, y)
        /\ call' = call /\ broker' = broker /\ hist'.late = hist.late /\ c' = c
    BY <1>12 DEF PushEffect, InPkt, Shape, HistShape
  <2>2. Ordered(net.in, call, broker.subs, c.handlers)
    BY <1>1, <2>1
  <2>3. Len(c.handlers) < MaxHandlers => Ordered(Append(net.in, y), call, broker.subs, c.handlers)
    BY <1>0, <2>1, <2>2, AppendOrder
  <2>4. Ordered(Append(net.in, y), call, broker.subs, c.handlers)
    BY <2>3 DEF Ordered
  <2> QED BY <2>1, <2>4
<1> QED BY <1>2, <1>3, <1>4, <1>6, <1>7, <1>8, <1>9, <1>10, <1>11, <1>12 DEF Effects

\* A message that is read finds its handler.
LEMMA FoundStep ==
    ASSUME Shape, Shape', SubOrder, HandlerFound, Effects
    PROVE  HandlerFound'
<1>0. /\ Len(c.handlers) \in Nat /\ Len(c.handlers) <= MaxHandlers /\ MaxHandlers \in Nat
      /\ c.handlers \in Seq(Topic) /\ net.in \in Seq(Pkt)
      /\ hist \in [opens : Nat, commands : Nat, pushes : Nat, late : SUBSET WaitedFor, ok : SUBSET Nat,
                   missed : SUBSET Topic]
  BY MqttAssumption, LenProperties DEF Shape, ClientShape, HistShape, NetShape, Nets
<1>1. ASSUME NEW p, NEW done, NEW out1, NEW late \in BOOLEAN, CycleEffect(p, done, late, out1)
      PROVE  HandlerFound'
  <2>1. /\ call # Hung /\ hist'.late = hist.late /\ p \in Pkt
        /\ p # Nothing => net.in # << >> /\ p = Head(net.in)
    BY <1>1, CycleKeeps, CycleRead
  <2>2. /\ Len(c.handlers) = MaxHandlers \/ p.type # "SUBACK" => c'.handlers = c.handlers
    BY <1>1, CycleHandlers
  <2>3. hist'.missed = IF p.type = "PUBLISH" /\ p.arg \notin ToSet(c.handlers)
                       THEN hist.missed \cup {p.arg} ELSE hist.missed
    BY <1>0, <1>1 DEF CycleEffect
  <2>4. CASE "SUBACK" \in hist.late \/ Len(c.handlers) = MaxHandlers
    BY <2>1, <2>2, <2>4 DEF HandlerFound
  <2>5. CASE "SUBACK" \notin hist.late /\ Len(c.handlers) # MaxHandlers
    <3>1. hist.missed = {}
      BY <2>5 DEF HandlerFound
    <3>2. p.type = "PUBLISH" => p.arg \in ToSet(c.handlers)
      <4> SUFFICES ASSUME p.type = "PUBLISH" PROVE p.arg \in ToSet(c.handlers)
        OBVIOUS
      <4>1. Nothing.type = "NOTHING"
        BY PacketFields DEF Nothing, Types
      <4>2. net.in # << >> /\ p = Head(net.in)
        BY <2>1, <4>1
      <4>3. p = net.in[1] /\ 1 \in DOMAIN net.in
        BY <1>0, <4>2, TailSeq
      <4>4. Ordered(net.in, call, broker.subs, c.handlers) /\ Len(c.handlers) < MaxHandlers
        BY <1>0, <2>1, <2>5 DEF SubOrder
      <4>5. Entered(p.arg, c.handlers) \/ Coming(p.arg, 1 - 1, net.in, call)
        BY <4>3, <4>4 DEF Ordered
      <4>6. ~Coming(p.arg, 1 - 1, net.in, call)
        BY DEF Coming
      <4> QED BY <4>5, <4>6 DEF Entered, ToSet
    <3> QED BY <2>3, <3>1, <3>2 DEF HandlerFound
  <2> QED BY <2>4, <2>5
<1>2. CASE OpenEffect
  BY <1>2 DEF OpenEffect, HandlerFound
<1>3. ASSUME c'.handlers = c.handlers, hist'.missed = hist.missed, hist.late \subseteq hist'.late
      PROVE  HandlerFound'
  BY <1>3 DEF HandlerFound
<1>4. CASE TimedOut
  BY <1>3, <1>4, TimedOutKeeps
<1>5. ASSUME NEW p, NEW then, CommandEffect(p, then) PROVE HandlerFound'
  <2>1. hist'.missed = hist.missed /\ hist'.late = hist.late /\ c'.handlers = c.handlers
    BY <1>0, <1>5 DEF CommandEffect, Shape, ClientShape
  <2> QED BY <1>3, <2>1
<1>6. CASE LeaveEffect
  <2>1. hist' = hist /\ c'.handlers = c.handlers
    BY <1>6 DEF LeaveEffect, Shape, ClientShape
  <2> QED BY <1>3, <2>1
<1>7. CASE MQTTYield \/ UNCHANGED vars \/ CloseEffect
  BY <1>3, <1>7 DEF MQTTYield, vars, CloseEffect
<1>8. ASSUME NEW p, NEW accept \in BOOLEAN, TakeEffect(p, accept) PROVE HandlerFound'
  BY <1>3, <1>8 DEF TakeEffect
<1>9. ASSUME NEW y, PushEffect(y) PROVE HandlerFound'
  <2>1. hist'.missed = hist.missed /\ hist'.late = hist.late /\ c'.handlers = c.handlers
    BY <1>0, <1>9 DEF PushEffect
  <2> QED BY <1>3, <2>1
<1> QED BY <1>1, <1>2, <1>4, <1>5, <1>6, <1>7, <1>8, <1>9 DEF Effects

\* A message that is reported as sent has arrived.
LEMMA SentStep ==
    ASSUME Shape, Shape', AckInv, CompInv, SentReceived, Effects
    PROVE  SentReceived'
<1>0. /\ net.in \in Seq(Pkt)
      /\ hist \in [opens : Nat, commands : Nat, pushes : Nat, late : SUBSET WaitedFor, ok : SUBSET Nat,
                   missed : SUBSET Topic]
  BY DEF Shape, HistShape, NetShape, Nets
<1>1. ASSUME NEW p, NEW done, NEW out1, NEW late \in BOOLEAN, CycleEffect(p, done, late, out1)
      PROVE  SentReceived'
  <2>1. /\ call \in Calls /\ call # Hung /\ p \in Pkt /\ broker' = broker
        /\ done => p.type = call.want
    BY <1>1, CycleKeeps
  <2>2. hist'.ok = IF done /\ call.op = "publish" /\ call.want \notin hist.late
                   THEN hist.ok \cup {call.arg} ELSE hist.ok
    BY <1>0, <1>1 DEF CycleEffect
  <2>3. p.type = call.want => net.in # << >> /\ p = Head(net.in)
    BY <1>1, CycleRead
  <2>4. ASSUME done, call.op = "publish", call.want \notin hist.late PROVE call.arg \in broker.got
    <3>1. call.want = "PUBACK" \/ call.want = "PUBCOMP"
      BY <2>1, <2>4 DEF Calls
    <3>2. CASE call.want = "PUBACK"
      <4>1. net.in \in Seq(AckDone(call.arg, broker.got))
        BY <2>1, <2>4, <3>2 DEF AckInv, AckAt, Exch
      <4>2. p \in AckDone(call.arg, broker.got)
        BY <2>1, <2>3, <2>4, <4>1, TailSeq
      <4>3. p \in AckIn
        BY <2>1, <2>4, <3>2, Members
      <4> QED BY <4>2, <4>3 DEF AckDone
    <3>3. CASE call.want = "PUBCOMP"
      <4>1. net.in \in Seq(CompDone(call.arg, broker.rec, broker.got))
        BY <2>1, <2>4, <3>3 DEF CompInv, CompAt, Exch
      <4>2. p \in CompDone(call.arg, broker.rec, broker.got)
        BY <2>1, <2>3, <2>4, <4>1, TailSeq
      <4>3. p.type = "PUBCOMP"
        BY <2>1, <2>4, <3>3
      <4> QED BY <4>2, <4>3 DEF CompDone
    <3> QED BY <3>1, <3>2, <3>3
  <2> QED BY <2>1, <2>2, <2>4 DEF SentReceived
<1>2. CASE OpenEffect
  BY <1>2 DEF OpenEffect, SentReceived
<1>3. ASSUME hist'.ok = hist.ok, broker.got \subseteq broker'.got PROVE SentReceived'
  BY <1>3 DEF SentReceived
<1>4. CASE TimedOut
  BY <1>3, <1>4, TimedOutKeeps
<1>5. ASSUME NEW p, NEW then, CommandEffect(p, then) PROVE SentReceived'
  <2>1. hist'.ok = hist.ok /\ broker' = broker
    BY <1>0, <1>5 DEF CommandEffect
  <2> QED BY <1>3, <2>1
<1>6. CASE LeaveEffect \/ MQTTYield \/ UNCHANGED vars \/ (CloseEffect /\ broker' = broker)
  BY <1>3, <1>6 DEF LeaveEffect, MQTTYield, vars, CloseEffect
<1>7. ASSUME NEW p, NEW accept \in BOOLEAN, TakeEffect(p, accept) PROVE SentReceived'
  <2>1. hist' = hist /\ broker' = Remember(p, accept) /\ p \in OutPkt(hist.commands)
    BY <1>7 DEF TakeEffect
  <2>2. broker.got \subseteq broker'.got
    BY <2>1, RememberFields
  <2> QED BY <1>3, <2>1, <2>2
<1>8. ASSUME NEW y, PushEffect(y) PROVE SentReceived'
  <2>1. hist'.ok = hist.ok /\ broker' = broker
    BY <1>0, <1>8 DEF PushEffect
  <2> QED BY <1>3, <2>1
<1> QED BY <1>1, <1>2, <1>4, <1>5, <1>6, <1>7, <1>8 DEF Effects

(***************************************************************************)
(* Part 9.  The theorems.                                                  *)
(***************************************************************************)
\* The client starts without a connection.
LEMMA InitInv == Init => Inv
<1> SUFFICES ASSUME Init PROVE Inv
  OBVIOUS
<1>0. /\ c = [isconnected |-> FALSE, ping |-> FALSE, next |-> 0, handlers |-> << >>]
      /\ net = [sock |-> "closed", up |-> FALSE, out |-> << >>, in |-> << >>]
      /\ call = NoCall
      /\ broker = [subs |-> {}, rec |-> {}, got |-> {}]
      /\ app = FALSE
      /\ hist = [opens |-> 0, commands |-> 0, pushes |-> 0, late |-> {}, ok |-> {}, missed |-> {}]
  BY DEF Init
<1>1. \A S : << >> \in Seq(S)
  BY EmptySeq
<1>2. Len(c.handlers) = 0 /\ c.handlers \in Seq(Topic) /\ 0 <= MaxHandlers /\ 0 \in 0 .. MaxPacketId
  BY <1>0, <1>1, MqttAssumption
<1>3. Shape
  <2>1. ~Waiting /\ NoCall # Hung
    BY <1>0 DEF Waiting, NoCall, Hung
  <2>2. ClientShape
    BY <1>0, <1>1, <1>2 DEF ClientShape
  <2>3. HistShape
    BY <1>0, <2>1 DEF HistShape
  <2>4. NetShape
    BY <1>0, <1>1, <2>1 DEF NetShape, Nets
  <2> QED BY <2>2, <2>3, <2>4 DEF Shape
<1>4. PingInv /\ HandlerFound /\ SentReceived
  BY <1>0 DEF PingInv, HandlerFound, SentReceived
<1>5. \A O, I : Clear(net.out, net.in, O, I)
  BY <1>0 DEF Clear, None
<1>6. \A O, I, GO, GI : Exch(net.out, net.in, O, I, GO, GI, FALSE)
  BY <1>0, <1>1, <1>5, NoneEmpty DEF Exch, Flight
<1>7. \A w : W(call, w) = FALSE
  BY <1>0, Idle DEF W
<1>8. AckInv /\ CompInv /\ SubExch
  BY <1>0, <1>6, <1>7 DEF AckInv, AckAt, CompInv, CompAt, SubExch
<1>9. SubOrder
  BY <1>0 DEF SubOrder, Ordered
<1> QED BY <1>3, <1>4, <1>8, <1>9 DEF Inv

\* Every step keeps the invariant.
LEMMA StepInv == Inv /\ [Next]_vars => Inv'
<1> SUFFICES ASSUME Inv, [Next]_vars PROVE Inv'
  OBVIOUS
<1>1. Shape' /\ Effects
  BY StepEffects DEF Inv
<1>2. PingInv' /\ AckInv' /\ CompInv'
  BY <1>1, PingStep, AckStep, CompStep DEF Inv
<1>3. SubExch' /\ SubOrder' /\ HandlerFound' /\ SentReceived'
  BY <1>1, SubExchStep, SubOrderStep, FoundStep, SentStep DEF Inv
<1> QED BY <1>1, <1>2, <1>3 DEF Inv

\* The invariant holds in every reachable state.
THEOREM Invariance == Spec => []Inv
BY InitInv, StepInv, PTL DEF Spec

\* A message that MQTTPublish reports as sent is at the broker, although
\* waitfor compares nothing but the type of a packet.
THEOREM ReportedIsReceived == Spec => []SentReceived
<1>1. Inv => SentReceived
  BY DEF Inv
<1> QED BY <1>1, Invariance, PTL

\* When MQTTPublish returns the broker holds no identifier of QoS 2, so that
\* an identifier that comes round again is never taken for a repetition.
THEOREM HandshakesEnd == Spec => []HandshakeOver
<1>1. Inv => HandshakeOver
  <2> SUFFICES ASSUME Inv, c.isconnected, ~Waiting, "PUBCOMP" \notin hist.late, net.up
               PROVE  broker.rec = {}
    BY DEF HandshakeOver
  <2>1. call # Hung
    BY DEF Inv, Shape, NetShape
  <2>2. ~W(call, "PUBCOMP")
    BY DEF W, Waiting
  <2> QED BY <2>1, <2>2 DEF Inv, CompInv, CompAt
<1> QED BY <1>1, Invariance, PTL

\* cycle finds a handler for every message of the broker.
THEOREM MessagesHandled == Spec => []HandlerFound
<1>1. Inv => HandlerFound
  BY DEF Inv
<1> QED BY <1>1, Invariance, PTL

\* The types, and a ping that is outstanding is answered or on its way.
THEOREM PingsAnswered == Spec => []PingAnswered
<1>1. Inv => PingAnswered
  <2> SUFFICES ASSUME Inv PROVE PingAnswered
    OBVIOUS
  <2>1. TypeOK
    BY DEF Inv, Shape, ClientShape, HistShape, NetShape, Nets, TypeOK
  <2>2. ASSUME c.ping, net.up
        PROVE  \/ \E p \in ToSet(net.out) : p.type = "PINGREQ"
               \/ \E p \in ToSet(net.in) : p.type = "PINGRESP"
    <3>1. \/ ~None(net.out, OfType({"PINGREQ"}))
          \/ ~None(net.in, OfType({"PINGRESP"}))
      BY <2>2 DEF Inv, PingInv
    <3>2. CASE ~None(net.out, OfType({"PINGREQ"}))
      BY <3>2 DEF None, OfType, ToSet
    <3>3. CASE ~None(net.in, OfType({"PINGRESP"}))
      BY <3>3 DEF None, OfType, ToSet
    <3> QED BY <3>1, <3>2, <3>3
  <2> QED BY <2>1, <2>2 DEF PingAnswered
<1> QED BY <1>1, Invariance, PTL
=============================================================================
