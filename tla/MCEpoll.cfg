SPECIFICATION FairSpec
CONSTANTS
  t1 = t1
  t2 = t2
  File = {f1}
  NoFile = NoFile
  Waiter = {t1, t2}
  Controller = {c1}
  Closer = {x1}
  Nobody = Nobody
  max = 1
  Flags = {"level", "edge", "oneshot"}
  Calls <- CallsOf
INVARIANTS ListedReady EventKept SleeperNotified
PROPERTIES Delivered
CHECK_DEADLOCK FALSE
