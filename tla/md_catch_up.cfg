CONSTANTS
  ada = ada
  tobi = tobi
  a1 = a1
  a2 = a2
  t1 = t1
  Users <- MCUsers
  Peer <- MCPeer
  Drafts <- AdaTypesTwo
  Author <- MCAuthor
  PageSize = 1
  MaxCopies = 1
  MaxTimes <- LookOnce
  MaxOutside = 1
SPECIFICATION TobiAwaySpec
INVARIANTS BackfillCovers
CHECK_DEADLOCK FALSE
