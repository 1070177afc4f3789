\* Every kind of packet from five interfaces; pairs of packets and changing routes.
SPECIFICATION Spec
CONSTANTS
  Plans <- MCPlans
  MaxRoutes = 2
CHECK_DEADLOCK FALSE
INVARIANTS SourceIsOurs 
 
