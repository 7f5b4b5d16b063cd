\* Two readers, a payload of two words, seq_ wraps at 4, the safe placements.
CONSTANTS
  Readers = {r1, r2}
  Words = {w1, w2}
  Values = {v0, v1}
  InitValue = v0
  SeqMod = 4
  Reorder = FALSE
  Placements <- SafePlacements
SPECIFICATION SchedSpec
INVARIANTS TypeOK NoTornRead
PROPERTIES ImplementsCell StoreCompletes LoadCompletes
CHECK_DEADLOCK FALSE
