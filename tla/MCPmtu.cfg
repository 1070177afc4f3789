SPECIFICATION Spec
CONSTANTS
  MinMtu = 3
  BaseMtu = 5
  Granularity = 1
  MaxProbes = 2
  ValidationAcks = 2
  Stream = 14
  Overhead = 1
  Windows = {3, 12}
  InterfaceMtu = 12
  Seed = 4
  MssFloor = 2
  MinMss = 1
  PeerLimits = {9, 13}
  Paths = {4, 8}
  MaxFaults = 1
CHECK_DEADLOCK FALSE
 
PROPERTIES DataGetsThrough
