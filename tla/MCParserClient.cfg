CONSTANTS
  Source <- MCSource
  Readable <- MCReadable
  Resource <- MCResource
  LooksEmbedded <- MCLooksEmbedded
  PrefixOf <- MCPrefixOf
  SyntaxErrors <- MCSyntaxErrors
  Unsupported <- MCUnsupported
  Standardized <- MCStandardized
  Text <- MCText
  Library <- MCLibrary
  MaxCalls = 4
SPECIFICATION Spec
INVARIANTS
  TypeOK
  ReturnedFilesAreClean
  ResourcesKeepTheirLibrary
  StandardizedAllOrNone
PROPERTY
  NothingReturnsAfterAnError
CHECK_DEADLOCK FALSE
