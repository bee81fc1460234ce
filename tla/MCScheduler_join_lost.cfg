CONSTANTS
  MaxTasks = 3
  BootTasks = 3
  DEFAULT_SLICE = 2
  SleepTicks = {2}
  Body <- ClockBody
SPECIFICATION FairSpec
PROPERTY JoinersWake
CHECK_DEADLOCK FALSE
