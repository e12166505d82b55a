SPECIFICATION UserfsSpec
CONSTANTS
  dirA = dirA  dirB = dirB  dirAB = dirAB  fileF = fileF  fileG = fileG  mnt = mnt
  Paths <- MCPaths
  NamePrefixes = {}
  RootName = mnt
  MaxMounts = 3
INVARIANTS WalkOnLiveTree NothingIsMissed FilesWhereMounted
PROPERTIES RequestAnswered ExitDuringRequestEnds
CHECK_DEADLOCK TRUE
