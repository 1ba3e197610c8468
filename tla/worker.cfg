CONSTANTS
  Stripe = {}
  Mpesa = {m1, m2}
  Threads = {t1}
  Amount = 1
  Policies = {"before_review"}
  TestMode = TRUE
  Kinds = {"success", "failure"}
SPECIFICATION CheckoutSpec
PROPERTIES
  ChargeIsSettled
  PaidIsReleased
  SilentPromptEnds
CHECK_DEADLOCK FALSE
