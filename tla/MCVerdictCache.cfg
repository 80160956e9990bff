SPECIFICATION Spec
CONSTANTS
  readA = readA
  writeA = writeA
  readB = readB
  bA = bA
  bB = bB
  h = h
  NoKey = NoKey
  Thread = {t1, t2}
  Check = {readA, writeA, readB}
  Buffer = {bA, bB}
  Hash = {h}
  Params <- MCParams
  HashOf <- MCHashOf
  Size <- MCSize
  Flagged <- MCFlagged
  MaxPlugin = 2
  Capacity = {0, 1, 2}
  Limit = {1, 2}
  MaxGen = 1
SYMMETRY MCSymmetry
INVARIANTS
  CacheShape
  Earned
  NoStaleVerdict
PROPERTY
  EvictOnlyWhenFull
