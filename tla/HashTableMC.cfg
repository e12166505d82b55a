SPECIFICATION Spec
CONSTANTS
  k1 = k1  k2 = k2  k3 = k3  k4 = k4  k5 = k5
  Keys = {k1, k2, k3, k4, k5}
  Hash <- MCHash
  Data = {d1, d2}
  Zero = zero
  NoKey = noKey
  NoValue = noValue
  Names <- MCNames
  MaxPuts = 5
INVARIANTS WellFormed KeptPointerIsCurrent
PROPERTIES IsAStore GrowthEnds
CHECK_DEADLOCK FALSE
