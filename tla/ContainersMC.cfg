SPECIFICATION SpecMC
CONSTANTS
  Types <- TypesMC
  Bytes <- BytesMC
  Strings <- StringsMC
  Counts <- CountsMC
  MinForStrings = 5
  MaxPushes = 4
  MaxSize = 8
  ListItems <- ListItemsMC
  NoItem = "null"
  MaxCells = 5
  Processors = 4
  Words = 2
  Quota = 8
  MaxCores = 5
INVARIANTS FitsBlock HeldIsReachable
PROPERTIES IsAnArray IsASequence
CHECK_DEADLOCK FALSE
