SPECIFICATION ConfigSpec
CONSTANTS
  Fields = {"color", "remote_user", "hostname"}
  EnvKey = "color"
  UserKey = "remote_user"
  Lookup = "hostname"
  Host = {"a", "b"}
  Pattern = {"a"}
  IncludeDepthLimit = 3
  MaxLines = 2
INVARIANTS
  FirstMatchWins
  PrecedenceKept
PROPERTIES
  ReadingEnds
