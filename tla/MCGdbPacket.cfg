SPECIFICATION PacketFairSpec
CONSTANTS
  BufMax = 8
  Payloads <- MCPayloads
  Altered <- MCAltered
  MaxRequests = 2
  MaxDamage = 2
  MaxBadReplies = 1
  MaxAborts = 2
INVARIANTS
  PacketTypeOK
  RunsOnlyTheRequest
PROPERTIES
  RequestIsServed
CHECK_DEADLOCK FALSE
