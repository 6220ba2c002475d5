CONSTANTS
  Messages <- BothMessages
  Mine <- OursThenTheirs
  Backfills <- Reconciliation
  MaxQueue = 2
  MaxReloads = 0
SPECIFICATION Spec
INVARIANTS AckedWasSent StampsWereTold OnlyOpenedIsReported
CHECK_DEADLOCK FALSE
