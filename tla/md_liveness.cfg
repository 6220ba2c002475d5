CONSTANTS
  ada = ada
  tobi = tobi
  a1 = a1
  a2 = a2
  t1 = t1
  Users <- MCUsers
  Peer <- MCPeer
  Drafts <- AdaTypesOne
  Author <- MCAuthor
  PageSize = 2
  MaxCopies = 1
  MaxTimes <- TickingLosses
  MaxOutside = 1
SPECIFICATION FairSpec
PROPERTIES EverythingTypedReachesTheRelay ArrivalIsTicked
