SPECIFICATION Spec
CONSTANTS
  Hosts = {h1, h2}
  Users = {u1, u2}
  None = None
  MaxPaths = 3
CHECK_DEADLOCK FALSE
INVARIANTS
  OneRemote
  OneFamily
  ExitIsHonest
