\* Two motors on one channel, either of which may be missing from the list.
CONSTANTS
  m1 = m1
  m2 = m2
  p1 = p1
  p2 = p2
  Order <- TwoMotors
  Chan <- OneChannel
  NumChannels = 1
  Positions = {p1, p2}
  MitRange = {p1}
  PollEvery = 1
  TxCap = 1
  RxCap = 2
  DrainMax = 2
SPECIFICATION HSpec
INVARIANTS PositionTypeOK OffIsOff RunsOnTarget NoMitToOff
PROPERTIES HoldsRead OffPositionShown QuitEnds
\* main() returns.
CHECK_DEADLOCK FALSE
