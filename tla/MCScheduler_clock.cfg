CONSTANTS
  MaxTasks = 3
  BootTasks = 3
  DEFAULT_SLICE = 2
  SleepTicks = {1, 2}
  Body <- ClockBody
SPECIFICATION FairSpec
INVARIANTS SleepLastsLongEnough JoinWaitsForExit
PROPERTY NoStarvation
CHECK_DEADLOCK FALSE
