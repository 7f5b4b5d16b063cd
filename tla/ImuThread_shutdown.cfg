\* No fault at all.
CONSTANTS
  WaitPolls = 2
  MaxFaults = 0
SPECIFICATION Spec
PROPERTY ShutdownEndsThread
CHECK_DEADLOCK FALSE
