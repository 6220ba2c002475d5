CONSTANTS
  ada = ada
  tobi = tobi
  a1 = a1
  a2 = a2
  t1 = t1
  Users <- MCUsers
  Peer <- MCPeer
  Drafts <- AdaTypesOne
  Author <- MCAuthor
  PageSize = 2
  MaxCopies = 1
  MaxTimes <- Anything
  MaxOutside = 2
SPECIFICATION ConnectedSpec
INVARIANTS TicksNeverLie NoClaimRunsAhead RowsAreGrounded NothingTypedIsLost ParkedOnlyForMissing
PROPERTIES DeviceOnlyMovesForward TicksClimbTheLadder
CHECK_DEADLOCK FALSE
