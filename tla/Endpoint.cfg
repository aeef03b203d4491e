SPECIFICATION Spec
CONSTANTS
  Levels = {2, 3}
  Rates = {3, 8}
  Rtts = {1, 2}
  Scale = 4
  DefaultWindow = 5
  UdpBuffer = 2
  SocketSizes = {1, 2, 3}
INVARIANTS
  CredentialsAccepted
  SuitePreferred
  ShortBuffersAreTold
  PayloadCapacity
