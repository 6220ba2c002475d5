CONSTANTS
  MaxRequests = 2
  MaxExpiries = 1
  MaxOpenings = 2
SPECIFICATION FairSpec
INVARIANTS TypeOK TimerOnlyWhileRunning
PROPERTIES RecoverySucceeds SocketComesBack
CHECK_DEADLOCK FALSE
