SPECIFICATION RobinSpec
CONSTANTS
  keyA = keyA  keyB = keyB  keyC = keyC  valV = valV  valW = valW
  Keys = {keyA, keyB, keyC}
  Vals = {valV, valW}
  KeyAsVal = keyAsVal
  Stale = stale
  None = none
  Hashes = {0, 2, 6, 9}
  MaxPuts = 3
INVARIANTS GetFindsValue
CHECK_DEADLOCK FALSE
