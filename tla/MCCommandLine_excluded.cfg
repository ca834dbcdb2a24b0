CONSTANTS
  Source <- MCSource
  Readable <- MCReadable
  Resource <- MCResource
  LooksEmbedded <- MCLooksEmbedded
  PrefixOf <- MCPrefixOf
  SyntaxErrors <- MCSyntaxErrors
  Unsupported <- MCUnsupported
  Standardized <- MCStandardized
  CommandLines <- MCCommandLines
  Exists <- MCExists
  StatusValues = 256
  MaxArgs = 2
SPECIFICATION Spec
INVARIANT
  OnlyBadFilesAreExcluded
CHECK_DEADLOCK FALSE
