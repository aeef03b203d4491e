SPECIFICATION Spec
CONSTANTS
  Bandwidth = {0, 2, 6}
  Rtt = {0, 1, 4}
  Window = {0, 1}
  Timeout = {0, 1}
  Port = {1, 2, 3}
  Levels = {3}
  MinimumBandwidth = 2
  MaxU64 = 12
  DefaultRx = 3
  DefaultRtt = 2
  DefaultTimeout = 5
  MaxPreferences = 1
INVARIANTS
  WholeRangeTried
