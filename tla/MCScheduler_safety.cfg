CONSTANTS
  MaxTasks = 3
  BootTasks = 2
  DEFAULT_SLICE = 1
  SleepTicks = {1}
  Body <- AnyBody
SPECIFICATION Spec
INVARIANTS TypeOK CurrentIsLive OneSlotPerTask RunningIsCurrent LockNotHeldAcrossSwitch OneUnfinishedTimerInterrupt
CHECK_DEADLOCK FALSE
