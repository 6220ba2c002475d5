CONSTANTS
  Messages <- OneMessage
  Mine <- None
  Backfills <- ReconciliationAndChat
  MaxQueue = 4
  MaxReloads = 1
SPECIFICATION FairSpec
PROPERTY AcknowledgedInTheEnd
CHECK_DEADLOCK FALSE
