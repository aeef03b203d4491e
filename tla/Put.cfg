SPECIFICATION Spec
CONSTANTS
  Window = 2
  MaxLen = 3
INVARIANTS
  TypeOK
  SuccessIsFaithful
  RefusalLeavesDestination
  ConfirmationIsWhole
PROPERTIES
  BothEnd
  ImplementsFileCopy
