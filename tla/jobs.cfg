\* Document notifications: two good addresses and one that is always refused, two
\* workers, batches of one.
SPECIFICATION FairSpec
CONSTANTS
  Rows       = {r1, r2, r3}
  Dead       = {r1}
  Copies     = {c1, c2}
  Limit      = 1
  Rest       = 1
  SkipLocked = FALSE
  ByAttempt  = TRUE
  MaxFaults  = 2
INVARIANTS NoSecondMail OneAtATime
PROPERTIES EveryRowIsSent
CHECK_DEADLOCK FALSE
