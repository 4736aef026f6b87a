SPECIFICATION FairSpec
CONSTANTS
  t1 = t1
  t2 = t2
  Task = {t1, t2}
  Modes <- OneEach
  AtomicIO = 2
  Sizes = {2, 3}
  Lengths = {3}
  Calls = {"read", "write", "splice", "resize", "nonblock"}
CHECK_DEADLOCK FALSE
INVARIANTS EndsCounted SleeperNotified OpenerNotified
PROPERTIES EofSeen
