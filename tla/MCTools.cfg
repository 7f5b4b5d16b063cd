\* Two motors on the first of two channels, ids they may share, one fault.
CONSTANTS
  m1 = m1
  m2 = m2
  Motors = {m1, m2}
  NumChannels = 2
  Chan <- OneChannel
  Ids = {0, 1}
  Fixed = {m1}
  MaxOther = 1
  MaxFaults = 1
  Retries = 2
  MaxDrain = 1
  Map <- TwoEntries
  ProbeRetries = 2
  NumParams = 1
  ScanMax = 1
SPECIFICATION ToolsSpec
INVARIANTS ConfigTypeOK ChangeIsReal NoChangeMade VerifiedIsZero FoundIsPresent NewIdIsUnusedIfAsked ProbeTypeOK CountIsRight ScanIsRight
PROPERTIES ActsAtRest ChangesAsTold ToolEnds ProbeEnds
CHECK_DEADLOCK FALSE
