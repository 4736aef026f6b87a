SPECIFICATION FairSpec
CONSTANTS
  Task = {t1, t2, t3}
  IO = IO
INVARIANTS MutualExclusion NoLostUnlock
PROPERTIES SomeTaskGets
