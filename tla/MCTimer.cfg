SPECIFICATION FairSpec
CONSTANTS
  Timer = {k, t1}
  Keeper = k
  NoTimer = NoTimer
  Caller = {c1}
  IO = io
  PROCESS_TIME = 2
  FireSlack = 1
  SwapSlack = 2
  Soon = 1
  MaxTime = 4
  Period = {5}
  KeeperPeriod = 5
  Sharing = FALSE
  Stall = FALSE
INVARIANTS EnabledArmed ExpirationsCounted
PROPERTIES Expires
