SPECIFICATION SpecMC
CONSTANTS
  Programs <- MCPrograms
  Bios = 4
  LineWords = 2
  Lines = 2
  Behind = 1
  Reach = 4
  Regs = {0, 1, 2}
  Modulus = 4
  RamWord = 3
  Nothing = nothing
  End = 11
INVARIANTS LineHoldsMemory
PROPERTIES RunsAsR3000 RunsAs8086
CHECK_DEADLOCK FALSE
