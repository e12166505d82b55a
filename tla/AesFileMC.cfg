SPECIFICATION AesFileSpec
CONSTANTS
  Block = 4
  Sector = 8
  Word = 65536
  Length = 48
  Headers = 3
  Sections <- SectionsMC
  Bases <- BasesMC
  Views <- ViewsMC
INVARIANTS ReadGivesPlain AccessesInside
PROPERTIES ReadEnds
CHECK_DEADLOCK TRUE
