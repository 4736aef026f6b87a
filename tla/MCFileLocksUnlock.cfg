SPECIFICATION Spec
CONSTANTS
  Task = {"a", "b"}
  UniqueId = {"A", "B"}
  Nobody = "none"
  uid <- Owner
  MAX_RANGE = 3
  Starts = {0, 1, 2}
  Lens <- Lengths
INVARIANTS UnlockReleases
CHECK_DEADLOCK FALSE
