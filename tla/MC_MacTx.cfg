SPECIFICATION FairSpec
CONSTANTS
  NoPacket = NoPacket
  p1 = p1
  p2 = p2
  p3 = p3
  Packets = {p1, p2, p3}
  Priority <- McPriority
  Length <- McLength
  Retries <- McRetries
  NumBlocks = 3
  MaxSegments = 2
  Withdrawable = "waiting"
  FlushLimit = 1
  MaxLate = 1
INVARIANTS TypeOK BlocksConserved QueueByPriority SuccessMeansSent
PROPERTIES NoOvertaking DataService AcceptedIsAnswered
