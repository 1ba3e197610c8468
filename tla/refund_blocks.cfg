CONSTANTS
  Stripe = {s1}
  Mpesa = {}
  Threads = {t1, t2}
  Amount = 1
  Policies = {"before_review"}
  TestMode = FALSE
  Kinds = {"session"}
SPECIFICATION Spec
INVARIANTS
  RefundBlocks
SYMMETRY Symmetry
CHECK_DEADLOCK FALSE
