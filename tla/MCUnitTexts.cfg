CONSTANTS
  MaxNesting = 2
  Nested <- MCNested
SPECIFICATION Spec
INVARIANTS
  NamesAreLookedUp
  WalksAgree
  UnitsAreListed
  LabelsAreHeld
CHECK_DEADLOCK FALSE
