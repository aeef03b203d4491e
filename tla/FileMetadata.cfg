SPECIFICATION Spec
CONSTANTS
  Perm = {r, w}
  Write = w
  Special = {suid}
  Times = {1, 5}
  Epoch = 2
  Now = 9
  Levels = {1, 2}
  r = r
  w = w
  suid = suid
CHECK_DEADLOCK FALSE
INVARIANTS
  PreservedOrWarned
PROPERTIES
  NeverWider
  ModeKept
