\* One order: a card attempt, two M-Pesa attempts, two requests at once, as in Lanes.
SPECIFICATION Spec
CONSTANTS
  Stripe   = {s1}
  Mpesa    = {m1, m2}
  Threads  = {t1, t2}
  Amount   = 2
  Policies = {"before_review", "after_review"}
  TestMode = TRUE
  Kinds    = {"session", "success", "failure", "other", "rev_done", "rev_failed", "rev_timeout"}
CONSTRAINT Lanes
SYMMETRY Symmetry
INVARIANTS LedgerMatches PaymentCurrent ContestedBlocks BookedIsReal RequestsOnce IssueKeepsMoney
PROPERTIES NoSecondCharge InEscrow SettledStays
CHECK_DEADLOCK FALSE
