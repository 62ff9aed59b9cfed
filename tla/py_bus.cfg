\* Three buses on one port, writes may raise, lines come in.
SPECIFICATION FairSpec
CONSTANTS
  b1 = b1
  b2 = b2
  b3 = b3
  Buses = {b1, b2, b3}
  Chan <- TwoShare
  NoBus = NoBus
  MaxHandlers = 2
  MaxLines = 2
INVARIANTS ServedWhileInUse PortReleased
PROPERTIES LinesDelivered ShutdownEnds
CHECK_DEADLOCK FALSE
