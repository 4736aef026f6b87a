SPECIFICATION FairSpec
CONSTANTS
  Task = {t1}
  self = t1
  Clock = {"mono"}
  Kinds = {"block", "short", "general", "generalOnly", "interrupt"}
INVARIANTS NoStaleTimer TimeoutIsDue NoLostEvent
PROPERTIES CallEnds
