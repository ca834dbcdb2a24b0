CONSTANTS
  None = None
  MaxRuns = 2
  Designs <- MCDesigns
SPECIFICATION Spec
INVARIANT FormalsAreResolved
