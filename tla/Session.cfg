SPECIFICATION Spec
CONSTANTS
  Levels = {1, 2, 3, 4}
  MaxRequests = 2
INVARIANTS
  FormsUnderstood
  SuccessIsComplete
PROPERTIES
  NothingAfterSuccess
  BothExit
