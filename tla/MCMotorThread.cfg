\* One channel with two motors; one fault.
CONSTANTS
  m1 = m1
  m2 = m2
  Motors = {m1, m2}
  NumChannels = 1
  Bindings <- TwoMotors
  Id <- OwnIds
  MaxFrames = 1
  Timeout = 1
  TxCap = 2
  RxCap = 1
  MaxActions = 1
  MaxFaults = 1
SPECIFICATION Spec
INVARIANTS TypeOK NoMitAfterStop FeedbackIsOwn
PROPERTIES FeedbackIsStored ImplementsStream
