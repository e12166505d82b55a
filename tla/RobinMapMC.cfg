SPECIFICATION RobinSpec
CONSTANTS
  keyA = keyA  keyB = keyB  keyC = keyC  valV = valV  valW = valW
  Keys = {keyA, keyB, keyC}
  Vals = {valV}
  KeyAsVal = keyAsVal
  Stale = stale
  None = none
  Hashes = {0, 2, 6, 9}
  MaxPuts = 5
INVARIANTS WellFormed EntriesAreKept
PROPERTIES EmplaceEnds
CHECK_DEADLOCK FALSE
