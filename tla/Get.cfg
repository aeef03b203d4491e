SPECIFICATION Spec
CONSTANTS
  Window = 2
  MaxLen = 3
INVARIANTS
  TrailerMeansWhole
PROPERTIES
  BothEnd
  ImplementsFileCopy
