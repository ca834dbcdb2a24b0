CONSTANTS
  None = None
  MaxRuns = 2
  Designs <- MCDesigns
SPECIFICATION Spec
INVARIANTS
  TypeOK
  ScopesAreTheRegionsAround
  InnermostDeclarationIsMeant
  CompetitionIsDecided
  SpecificationsMeanWhereTheyApply
PROPERTIES
  RefinesNameResolution
