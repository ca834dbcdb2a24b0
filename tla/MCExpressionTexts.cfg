CONSTANTS
  Operands <- MCOperands
  Operators <- MCOperators
  Declarations <- MCDeclarations
  MaxTokens = 7
  MaxParts = 2
SPECIFICATION Spec
INVARIANTS
  GroupingFollowsPrecedence
  PrintedTextIsTheSource
  ReportsMatchLookups
CHECK_DEADLOCK FALSE
