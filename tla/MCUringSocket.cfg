SPECIFICATION FairSpec
CONSTANTS
  RingLen = 2
  Wrap = 4
  Byte <- MCByte
  Reader = {r1, r2}
  Writer = {w1, w2}
  Closer = {c1}
  r1 = r1
  r2 = r2
  w1 = w1
  w2 = w2
  c1 = c1
  Groups <- MCGroups
  Lengths = {3}
  Receives = {"recv", "recvall", "peek", "read"}
  Sends = {"send", "write"}
  Shutdowns = {"RD", "WR"}
  Arrivals = {0, 1, 2}
  Handlers = 1
  Errors = TRUE
CHECK_DEADLOCK FALSE
INVARIANTS InOrder OneChain SleeperNotified
PROPERTIES  ShutdownReturns
