CONSTANTS
  None = None
  c1 = c1
  c2 = c2
  c3 = c3
  MaxRuns = 2
  File <- MCFile
  FileLib <- MCFileLib
  FileUnits <- MCFileUnits
  Caller <- MCCaller
  FileSets <- MCFileSets
SPECIFICATION FairElabSpec
INVARIANTS
  ElabTypeOK
  TopModulesExact
  BoundArchitectureFits
  UnboundIsReported
  ConfigurationBindingsAgree
  MembersAreTheInverse
  DirectBindingsAreCurrent
  UsedPackagesAreFound
PROPERTIES
  DefaultBindingsStick
  ResolveReturns
CHECK_DEADLOCK FALSE
