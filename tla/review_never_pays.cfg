CONSTANTS
  Stripe = {}
  Mpesa = {m1, m2}
  Threads = {t1}
  Amount = 1
  Policies = {"before_review"}
  TestMode = TRUE
  Kinds = {"success", "failure"}
SPECIFICATION Spec
PROPERTIES
  ReviewNeverPays
SYMMETRY Symmetry
CHECK_DEADLOCK FALSE
