\* One motor: the hold command and the STOP that answers its failure meet the
\* same full queue.
CONSTANTS
  m1 = m1
  m2 = m2
  p1 = p1
  p2 = p2
  Order <- OneMotor
  Chan <- OneChannel
  NumChannels = 1
  Positions = {p1, p2}
  MitRange = {p1}
  PollEvery = 1
  TxCap = 2
  RxCap = 2
  DrainMax = 2
SPECIFICATION HSpec
INVARIANT EndStopsMotors
CHECK_DEADLOCK FALSE
