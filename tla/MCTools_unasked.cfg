\* The same, one channel: the new id is asked for with a CAN_Write() that fails.
CONSTANTS
  m1 = m1
  m2 = m2
  Motors = {m1, m2}
  NumChannels = 1
  Chan <- OneChannel
  Ids = {0, 1}
  Fixed = {m1}
  MaxOther = 0
  MaxFaults = 1
  Retries = 2
  MaxDrain = 1
  Map <- TwoEntries
  ProbeRetries = 2
  NumParams = 1
  ScanMax = 1
SPECIFICATION ToolsSpec
INVARIANT NewIdIsUnused
CHECK_DEADLOCK FALSE
