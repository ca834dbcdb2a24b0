CONSTANTS
  None = None
  c1 = c1
  c2 = c2
  c3 = c3
  File <- MCFile
  FileLib <- MCFileLib
  FileUnits <- MCFileUnits
  Caller <- MCCaller
  FileSets <- MCFileSets
SPECIFICATION FairSpec
INVARIANTS
  TypeOK
  FirstRegisteredWins
  EachClashReportedOnce
  DefaultArchitectureIsLatest
  CallsAreSerialized
PROPERTIES
  RefinesLibrary
  EveryCallReturns
CHECK_DEADLOCK FALSE
