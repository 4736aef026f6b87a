CONSTANTS
    Task = {t1, t2}
    NoTask = NoTask
    Mortal = {t1, t2}
    vcpuCnt = 2
    InputCap = 1
SPECIFICATION LiveSpec
CHECK_DEADLOCK FALSE
INVARIANTS FreedUnreferenced
PROPERTIES OwnerRuns SomeTaskRuns
