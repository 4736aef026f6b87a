CONSTANTS
    Task = {t1, t2}
    NoTask = NoTask
    Mortal = {}
    vcpuCnt = 3
    InputCap = 0
SYMMETRY TaskSymmetry
SPECIFICATION Spec
CHECK_DEADLOCK FALSE
INVARIANTS ExclusiveTask ScheduledOnce SwitchToSaved NoSpuriousReturn NoLostWakeup
