CONSTANTS
  Source <- MCSource
  Readable <- MCReadable
  Resource <- MCResource
  LooksEmbedded <- MCLooksEmbedded
  PrefixOf <- MCPrefixOf
  SyntaxErrors <- MCSyntaxErrors
  Unsupported <- MCUnsupported
  Standardized <- MCStandardized
  CommandLines <- MCCommandLines
  Exists <- MCExists
  StatusValues = 256
  MaxArgs = 4
SPECIFICATION Spec
INVARIANTS
  TypeOK
  EachResultFollowsItsArgument
  StatusCountsMissingFiles
PROPERTIES
  RunsToTheEnd
CHECK_DEADLOCK FALSE
