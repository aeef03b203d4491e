SPECIFICATION MeterSpec
CONSTANTS
  NFiles = 2
  Sizes = {0, 2}
  Header = 1
  Second = 2
  MaxTime = 4
  MaxU64 = 500
  Cwnds = {0, 4}
  Rates = {4, 9}
  Rtts = {0, 2}
INVARIANTS
  NoMeterLeft
  StatisticsSound
  AdviceSound
