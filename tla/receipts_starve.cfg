\* Receipts: two addresses that are always refused, attempted before a good one.
SPECIFICATION FairSpec
CONSTANTS
  Rows       = {r1, r2, r3}
  Dead       = {r1, r2}
  Copies     = {c1}
  Limit      = 1
  Rest       = 2
  SkipLocked = TRUE
  ByAttempt  = FALSE
  MaxFaults  = 0
PROPERTIES EveryRowIsSent
CHECK_DEADLOCK FALSE
