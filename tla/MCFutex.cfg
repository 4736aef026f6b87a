SPECIFICATION FairSpec
CONSTANTS
  t1 = t1
  t2 = t2
  t3 = t3
  Task = {t1, t2, t3}
  Key = {"a", "b"}
  NoKey = NoKey
  HashCode <- Distinct
  Shared = {}
  Value = {0, 1}
  Programs <- Uses
INVARIANTS NoStaleSleeper 
PROPERTIES CallEnds
CHECK_DEADLOCK FALSE
