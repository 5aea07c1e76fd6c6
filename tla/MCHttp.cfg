CONSTANTS
  r1 = r1
  r2 = r2
  r3 = r3
  r4 = r4
  alice = alice
  bob = bob
  Call <- MCCall
  SessionOf <- MCSessionOf
  ClientReason = {"UserStop"}
  MaxInFlight = 2
  MaxInFlightPerSession = 2
  MaxMcpSessions = 1
SPECIFICATION HttpSpec
SYMMETRY MCSymmetry
INVARIANTS
  TablesBounded
PROPERTIES
  Channels
CHECK_DEADLOCK FALSE
