-------------------------------- MODULE Mqtt --------------------------------
(***************************************************************************)
(* The MQTT client of MQTTClient.c on the CC3100 socket of MQTT.c, with    *)
(* the TCP connection and the broker it talks to.                          *)
(*                                                                         *)
(* A command sends its packet and then calls cycle until the packet comes  *)
(* that it waits for, or its timer has expired.  Only the type of the      *)
(* packet is compared, not its identifier.  cycle reads one packet,        *)
(* handles it and sends a ping if it is time for one; it is one step here. *)
(* The timer may expire inside of it, between the read and the answer.     *)
(*                                                                         *)
(* The connection is reliable and in order until the broker closes it.     *)
(* cc3100_read closes the socket then, and cc3100_write on a closed socket *)
(* never returns: the client hangs.                                        *)
(***************************************************************************)
EXTENDS Naturals, Sequences, SequencesExt

CONSTANTS
  Topic,
  MaxPacketId,   \* MAX_PACKET_ID
  MaxHandlers,   \* MAX_MESSAGE_HANDLERS
  MaxCommand,    \* bound: the commands that subscribe, unsubscribe and publish
  MaxPush,       \* bound: the messages that the broker publishes
  MaxOpen        \* bound: how often the connection is opened

ASSUME MqttAssumption ==
  /\ MaxPacketId \in Nat \ {0} /\ MaxHandlers \in Nat
  /\ MaxCommand \in Nat /\ MaxPush \in Nat /\ MaxOpen \in Nat

VARIABLES
  c,       \* Client: isconnected, ping_outstanding, next_packetid, messageHandlers
  net,     \* sock, the socket of the client; up, whether the broker has it open;
           \* out and in, the packets on their way to and from the broker
  call,    \* the call the program is in
  broker,  \* subs, the topics subscribed; rec, the identifiers of QoS 2 messages
           \* that are not released; got, the messages received
  app,     \* the program is between mqtt_open_connection and mqtt_close_connection
  hist     \* counts of what the bounds are for, and history of this connection:
           \* late, what timed-out commands wait for; ok, the messages that
           \* MQTTPublish reported as sent; missed, topics without a handler

vars == <<c, net, call, broker, app, hist>>

NoCall == [op |-> "none"]
Hung == [op |-> "hung"]
Waiting == call.op \notin {"none", "hung"}

Packet(type, id) == [type |-> type, qos |-> 0, id |-> id, arg |-> 0]
Nothing == Packet("NOTHING", 0)

Init ==
  /\ c = [isconnected |-> FALSE, ping |-> FALSE, next |-> 0, handlers |-> << >>]
  /\ net = [sock |-> "closed", up |-> FALSE, out |-> << >>, in |-> << >>]
  /\ call = NoCall
  /\ broker = [subs |-> {}, rec |-> {}, got |-> {}]
  /\ app = FALSE
  /\ hist = [opens |-> 0, commands |-> 0, pushes |-> 0, late |-> {}, ok |-> {}, missed |-> {}]

-----------------------------------------------------------------------------
(* The socket.                                                             *)

\* The outcomes of sendPacket with an unexpired timer.
Write(n, p) ==
  IF n.sock = "closed" THEN {[net |-> n, rc |-> "hang"]}
  ELSE IF n.up THEN {[net |-> [n EXCEPT !.out = Append(@, p)], rc |-> "ok"]}
  ELSE [net : {n}, rc : {"ok", "fail"}]

\* readPacket.  Without a packet it waits until the timer expires, or finds
\* that the broker has closed the connection.
Read(late) ==
  IF net.sock = "open" /\ net.in # << >>
  THEN {[net |-> [net EXCEPT !.in = Tail(@)], packet |-> Head(net.in)]}
  ELSE IF net.sock = "open" /\ ~net.up
  THEN {[net |-> [net EXCEPT !.sock = "closed"], packet |-> Nothing]}
  ELSE {[net |-> net, packet |-> Nothing] : x \in {y \in {1} : net.sock = "closed" \/ late}}

-----------------------------------------------------------------------------
(* cycle.                                                                  *)

\* What is sent back for a packet.
Answers(p) ==
  CASE p.type = "PUBLISH" /\ p.qos = 1 -> {Packet("PUBACK", p.id)}
    [] p.type = "PUBLISH" /\ p.qos = 2 -> {Packet("PUBREC", p.id)}
    [] p.type = "PUBREC" -> {Packet("PUBREL", p.id)}
    [] OTHER -> {}

Answer(n, p, late) ==
  IF Answers(p) = {} THEN {[net |-> n, rc |-> "ok"]}
  ELSE IF late THEN {[net |-> n, rc |-> "fail"]}
  ELSE UNION {Write(n, a) : a \in Answers(p)}

\* The outcomes of keepalive, where due says that ping_timer has expired.
KeepAlive(n, outstanding, due) ==
  IF ~due \/ outstanding THEN {[net |-> n, rc |-> "none"]}
  ELSE Write(n, Packet("PINGREQ", 0))

\* Mutant: the answer to a ping ends the wait too.
AwaitedPing(p) == p.type \in {call.want, "PINGRESP"}

\* The packet is the one that waitfor waits for.
Awaited(p) == p.type = call.want

\* Mutant: the last entry of the table is never used.
HasRoomLess == Len(c.handlers) < MaxHandlers - 1

HasRoom == Len(c.handlers) < MaxHandlers

\* What a command does with the packet it has waited for.
Completed(p) ==
  [c EXCEPT !.isconnected = IF p.type = "CONNACK" THEN p.arg ELSE @,
            !.handlers = IF p.type = "SUBACK" /\ p.arg /\ HasRoom
                         THEN Append(@, call.arg) ELSE @]

\* Mutant: PINGRESP is taken for the answer of some command and ignored.
PingAfterKeeps(p, k) == k.rc = "ok" \/ c.ping

\* ping_outstanding after a packet and the outcome k of keepalive.
PingAfter(p, k) == k.rc = "ok" \/ (c.ping /\ p.type # "PINGRESP")

\* One step of waitfor or MQTTYield: late says that the timer has expired
\* after the read, due that ping_timer has.
Cycle(late, due) ==
  /\ Waiting /\ ~call.expired
  /\ \E r \in Read(late) : \E a \in Answer(r.net, r.packet, late) :
     \E k \in IF a.rc = "ok" THEN KeepAlive(a.net, c.ping /\ r.packet.type # "PINGRESP", due)
                             ELSE {[net |-> a.net, rc |-> "none"]} :
       LET p == r.packet
           done == a.rc = "ok" /\ Awaited(p)
       IN /\ net' = k.net
          /\ c' = [(IF done THEN Completed(p) ELSE c) EXCEPT !.ping = PingAfter(p, k)]
          /\ call' = IF "hang" \in {a.rc, k.rc} THEN Hung
                     ELSE IF done \/ (call.op = "yield" /\ a.rc = "fail") THEN NoCall
                     ELSE [call EXCEPT !.expired = late]
          /\ hist' = [hist EXCEPT
               !.ok = IF done /\ call.op = "publish" /\ call.want \notin hist.late
                      THEN @ \cup {call.arg} ELSE @,
               !.missed = IF p.type = "PUBLISH" /\ p.arg \notin ToSet(c.handlers)
                          THEN @ \cup {p.arg} ELSE @]
  /\ UNCHANGED <<broker, app>>

\* Mutant: MQTTYield does not look at its timer.
TimedOutNotYield ==
  /\ Waiting /\ call.expired /\ call.op # "yield"
  /\ call' = NoCall
  /\ hist' = [hist EXCEPT !.late = @ \cup {call.want}]
  /\ UNCHANGED <<c, net, broker, app>>

\* The timer of the call has expired: a command fails.
TimedOut ==
  /\ Waiting /\ call.expired
  /\ call' = NoCall
  /\ hist' = [hist EXCEPT !.late = @ \cup {call.want}]
  /\ UNCHANGED <<c, net, broker, app>>

-----------------------------------------------------------------------------
(* The calls of the program.                                               *)

NextPacketId == IF c.next = MaxPacketId THEN 1 ELSE c.next + 1

Begin(op, want, arg) == [op |-> op, want |-> want, arg |-> arg, expired |-> FALSE]

\* What MQTTClient resets.
NewClient == [c EXCEPT !.isconnected = FALSE, !.ping = FALSE, !.handlers = << >>]

\* mqtt_open_connection up to waitfor; it does not look whether the
\* connection came about.  With cleansession the broker forgets the last one.
Open(connected) ==
  /\ call = NoCall /\ ~app /\ hist.opens < MaxOpen
  /\ app' = TRUE
  /\ c' = NewClient
  /\ net' = [sock |-> IF connected THEN "open" ELSE "closed", up |-> connected,
             out |-> IF connected THEN <<Packet("CONNECT", 0)>> ELSE << >>, in |-> << >>]
  /\ call' = IF connected THEN Begin("connect", "CONNACK", 0) ELSE Hung
  /\ hist' = [hist EXCEPT !.opens = @ + 1, !.late = {}, !.missed = {}]
  /\ broker' = [broker EXCEPT !.subs = {}, !.rec = {}]

\* A command is sent with a new identifier; the program goes on if that fails.
Command(p, then) ==
  /\ call = NoCall /\ app /\ hist.commands < MaxCommand
  /\ c.isconnected
  /\ \E w \in Write(net, p) :
       /\ net' = w.net
       /\ call' = CASE w.rc = "ok" -> then [] w.rc = "hang" -> Hung [] OTHER -> NoCall
  /\ c' = [c EXCEPT !.next = p.id]
  /\ hist' = [hist EXCEPT !.commands = @ + 1]
  /\ UNCHANGED <<broker, app>>

MQTTSubscribe(t) ==
  Command([Packet("SUBSCRIBE", NextPacketId) EXCEPT !.arg = t], Begin("subscribe", "SUBACK", t))

MQTTUnsubscribe(t) ==
  Command([Packet("UNSUBSCRIBE", NextPacketId) EXCEPT !.arg = t],
          Begin("unsubscribe", "UNSUBACK", t))

\* Mutant: a QoS 2 publication ends with the first answer.
PublishWantFirst(q) == <<"PUBACK", "PUBREC">>[q]

PublishWant(q) == <<"PUBACK", "PUBCOMP">>[q]

\* Messages are told apart by the number of the command.
MQTTPublish(q) ==
  LET m == hist.commands + 1
      id == IF q = 0 THEN c.next ELSE NextPacketId
  IN Command([type |-> "PUBLISH", qos |-> q, id |-> id, arg |-> m],
             IF q = 0 THEN NoCall ELSE Begin("publish", PublishWant(q), m))

MQTTYield ==
  /\ call = NoCall /\ app
  /\ call' = Begin("yield", "NEVER", 0)
  /\ UNCHANGED <<c, net, broker, app, hist>>

\* mqtt_close_connection; the socket is not closed.
MQTTDisconnect ==
  /\ call = NoCall /\ app
  /\ app' = FALSE
  /\ \E w \in Write(net, Packet("DISCONNECT", 0)) :
       /\ net' = w.net
       /\ call' = IF w.rc = "hang" THEN Hung ELSE NoCall
  /\ c' = [c EXCEPT !.isconnected = FALSE]
  /\ UNCHANGED <<broker, hist>>

-----------------------------------------------------------------------------
(* The broker.                                                             *)

\* A packet is handled; accept is its answer to CONNECT and SUBSCRIBE.
Reply(p, accept) ==
  LET to(type) == <<[Packet(type, p.id) EXCEPT !.arg = accept]>>
  IN CASE p.type = "CONNECT" -> to("CONNACK")
       [] p.type = "SUBSCRIBE" -> to("SUBACK")
       [] p.type = "UNSUBSCRIBE" -> to("UNSUBACK")
       [] p.type = "PUBLISH" /\ p.qos = 1 -> to("PUBACK")
       [] p.type = "PUBLISH" /\ p.qos = 2 -> to("PUBREC")
       [] p.type = "PUBREL" -> to("PUBCOMP")
       [] p.type = "PUBREC" -> to("PUBREL")
       [] p.type = "PINGREQ" -> to("PINGRESP")
       [] OTHER -> << >>

Remember(p, accept) ==
  CASE p.type = "SUBSCRIBE" /\ accept -> [broker EXCEPT !.subs = @ \cup {p.arg}]
    [] p.type = "UNSUBSCRIBE" -> [broker EXCEPT !.subs = @ \ {p.arg}]
    [] p.type = "PUBLISH" /\ (p.qos < 2 \/ p.id \notin broker.rec) ->
         [broker EXCEPT !.got = @ \cup {p.arg}, !.rec = IF p.qos = 2 THEN @ \cup {p.id} ELSE @]
    [] p.type = "PUBREL" -> [broker EXCEPT !.rec = @ \ {p.id}]
    [] OTHER -> broker

BrokerReceives(accept) ==
  LET p == Head(net.out)
  IN /\ net.up /\ net.out # << >>
     /\ accept \/ p.type \in {"CONNECT", "SUBSCRIBE"}
     /\ broker' = Remember(p, accept)
     /\ net' = IF p.type = "DISCONNECT" THEN [net EXCEPT !.up = FALSE, !.out = << >>]
               ELSE [net EXCEPT !.out = Tail(@), !.in = @ \o Reply(p, accept)]
     /\ UNCHANGED <<c, call, app, hist>>

BrokerPublishes(t, q) ==
  /\ net.up /\ t \in broker.subs /\ hist.pushes < MaxPush
  /\ net' = [net EXCEPT !.in = Append(@, [type |-> "PUBLISH", qos |-> q,
                                          id |-> hist.pushes + 1, arg |-> t])]
  /\ hist' = [hist EXCEPT !.pushes = @ + 1]
  /\ UNCHANGED <<c, call, broker, app>>

BrokerCloses ==
  /\ net.up
  /\ net' = [net EXCEPT !.up = FALSE, !.out = << >>]
  /\ UNCHANGED <<c, call, broker, app, hist>>

-----------------------------------------------------------------------------
Next ==
  \/ \E late, due \in BOOLEAN : Cycle(late, due)
  \/ TimedOut
  \/ \E b \in BOOLEAN : Open(b) \/ BrokerReceives(b)
  \/ \E t \in Topic : MQTTSubscribe(t) \/ MQTTUnsubscribe(t)
  \/ \E q \in 0 .. 2 : MQTTPublish(q) \/ \E t \in Topic : BrokerPublishes(t, q)
  \/ MQTTYield \/ MQTTDisconnect
  \/ BrokerCloses

\* The program runs and time passes: in every call the timer expires.
Fairness == WF_vars(\E due \in BOOLEAN : Cycle(TRUE, due)) /\ WF_vars(TimedOut)

Spec == Init /\ [][Next]_vars /\ Fairness

-----------------------------------------------------------------------------
TypeOK ==
  /\ c.isconnected \in BOOLEAN /\ c.ping \in BOOLEAN
  /\ c.next \in 0 .. MaxPacketId
  /\ c.handlers \in Seq(Topic) /\ Len(c.handlers) <= MaxHandlers
  /\ net.sock \in {"open", "closed"} /\ net.up \in BOOLEAN
  /\ broker.subs \subseteq Topic /\ broker.rec \subseteq 1 .. MaxPacketId
  /\ broker.got \subseteq 1 .. hist.commands
  /\ app \in BOOLEAN
  /\ hist.ok \subseteq 1 .. hist.commands /\ hist.missed \subseteq Topic

\* A message of QoS 1 or 2 that MQTTPublish reports as sent has reached the
\* broker, whatever else comes in between and although only the type of an
\* answer is compared: unless a publication of the same QoS has timed out
\* before on this connection, whose late answer may be taken for this one's.
SentReceived == hist.ok \subseteq broker.got

\* The handshake of QoS 2 is over when MQTTPublish returns: the broker has
\* released the identifier, and MAX_PACKET_ID commands later it is free.
HandshakeOver ==
  c.isconnected /\ ~Waiting /\ "PUBCOMP" \notin hist.late /\ net.up => broker.rec = {}

\* Every message that the broker sends finds its handler, which is entered
\* only when SUBACK has been read: unless a subscription has timed out before
\* or the table is full.
HandlerFound ==
  hist.missed = {} \/ "SUBACK" \in hist.late \/ Len(c.handlers) = MaxHandlers

\* ping_outstanding is never left behind on a connection that works, where it
\* would stop the pings for good.
PingAnswered ==
  /\ TypeOK
  /\ c.ping /\ net.up /\ net.sock = "open" =>
       \/ \E p \in ToSet(net.out) : p.type = "PINGREQ"
       \/ \E p \in ToSet(net.in) : p.type = "PINGRESP"

\* Every call returns, as long as the socket is open.
CallEnds == Waiting ~> (~Waiting \/ net.sock = "closed")
=============================================================================
