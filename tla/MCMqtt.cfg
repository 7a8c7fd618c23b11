SPECIFICATION Spec
CONSTANTS
  Topic = {t1, t2}
  MaxPacketId = 1
  MaxHandlers = 1
  MaxCommand = 2
  MaxPush = 1
  MaxOpen = 2
CHECK_DEADLOCK FALSE
INVARIANTS SentReceived HandshakeOver  PingAnswered
 
