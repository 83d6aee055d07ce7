SPECIFICATION Spec
CONSTANTS
  n1 = n1
  n2 = n2
  Nobody = Nobody
  Nodes <- BothNodes
  Length <- Lengths
  Unicast <- OnlyN1
  IdModulus = 2
  Repeats = 1
  NumBuffers = 2
  NumPairs = 2
  NumSegments = 3
  MaxSegments = 2
  QueueSize = 1
  PacketTimeout = 1
  Mishaps = {"expiry"}
INVARIANTS CountsAreBuffers
CHECK_DEADLOCK FALSE
