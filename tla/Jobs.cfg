SPECIFICATION Spec
CONSTANTS
  Names = {"a", "b"}
  MaxSources = 2
  MaxEntries = 3
INVARIANTS
  SuccessMeansAll
  CleanCopySucceeds
  NoLockout
  NothingElseTouched
