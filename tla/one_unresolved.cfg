CONSTANTS
  Stripe = {}
  Mpesa = {m1, m2}
  Threads = {t1}
  Amount = 1
  Policies = {"before_review"}
  TestMode = FALSE
  Kinds = {"success", "failure"}
SPECIFICATION Spec
INVARIANTS
  OneUnresolved
CHECK_DEADLOCK FALSE
