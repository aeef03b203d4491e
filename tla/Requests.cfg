SPECIFICATION RequestSpec
CONSTANTS
  Window = 2
  WIRE_ENCODING_LIMIT = 8
  EntrySizes = {1, 3}
  LengthBase = 2
  Headroom = 3
  MaxEntries = 6
INVARIANTS
  NoListingTooLong
PROPERTIES
  BothEnd
  ImplementsRemoteCall
