SPECIFICATION AllocatorSpec
CONSTANTS
  Main = main
  Loops = {loop1}
  Large = {big1, big2, big3}
  Small = {small1, small2}
  Tables = {table1, table2}
  Null = null
  One = one
INVARIANTS AllocatorTypeOK NoFault RegistryExact HeldIsBacked NoTableLost
PROPERTIES TableStaysWhileShared MutexReleased
CHECK_DEADLOCK TRUE
