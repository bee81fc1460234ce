CONSTANTS
  MaxTasks = 2
  BootTasks = 2
  DEFAULT_SLICE = 2
  SleepTicks = {2}
  Body <- SleeperBody
SPECIFICATION Spec
INVARIANT SleepLastsLongEnough
CHECK_DEADLOCK FALSE
