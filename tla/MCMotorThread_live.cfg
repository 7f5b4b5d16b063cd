\* One channel with one motor: what must happen in the end.
CONSTANTS
  m1 = m1
  m2 = m2
  Motors = {m1}
  NumChannels = 1
  Bindings <- OneMotor
  Id <- OwnIds
  MaxFrames = 1
  Timeout = 2
  TxCap = 2
  RxCap = 1
  MaxActions = 2
  MaxFaults = 1
SPECIFICATION FairSpec
PROPERTIES StopReturns SilentGoesOffline ActionReachesMotors
