\* Two channels with a motor each: a signal while the threads are started.
CONSTANTS
  m1 = m1
  m2 = m2
  Motors = {m1, m2}
  NumChannels = 2
  Bindings <- TwoChannels
  Id <- SameIds
  MaxFrames = 1
  Timeout = 1
  TxCap = 2
  RxCap = 0
  MaxActions = 1
  MaxFaults = 1
SPECIFICATION FSpec
INVARIANT SigintStopsMotors
CHECK_DEADLOCK FALSE
