SPECIFICATION UserfsSpec
CONSTANTS
  dirA = dirA  dirB = dirB  dirAB = dirAB  fileF = fileF  fileG = fileG  mnt = mnt
  Paths <- MCPrefixPaths
  NamePrefixes <- MCPrefixes
  RootName = mnt
  MaxMounts = 2
INVARIANTS FilesWhereMounted
CHECK_DEADLOCK TRUE
