\* One task that reads the keyboard, with the core's progress: is every wait for
\* a lock over at some point?
SPECIFICATION FairSpec
CONSTANTS
  Task = {t1}
  NoOne = NoOne
  Calls <- KeyboardCalls
PROPERTIES
  WaitsEnd
CHECK_DEADLOCK FALSE
