SPECIFICATION Spec
CONSTANTS
  Firmwares <- MCFirmwares
  Words <- MCWords
  Span = 8
  Slice = 4
  Steps = 3
  Prid = 5
INVARIANTS IopQuarter
PROPERTIES BranchDelay StepEnds
CHECK_DEADLOCK FALSE
