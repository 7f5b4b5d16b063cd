\* The reorderings that the memory orders of store() and load() permit.
CONSTANTS
  Readers = {r1}
  Words = {w1, w2}
  Values = {v0, v1}
  InitValue = v0
  SeqMod = 4
  Reorder = TRUE
SPECIFICATION Spec
INVARIANT NoTornRead
CHECK_DEADLOCK FALSE
