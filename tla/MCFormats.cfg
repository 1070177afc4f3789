\* Every packet of MCWire; every triple of 4-bit addresses, with every prefix length.
SPECIFICATION AllFunctions
CONSTANTS
  Packets <- MCPackets
  Bits = 4
CHECK_DEADLOCK FALSE
INVARIANTS ReadsBack  BlocksAreExact
