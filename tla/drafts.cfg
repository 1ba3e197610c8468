\* Two tabs, two orders and two quotes: what a page may overwrite or submit.
SPECIFICATION RecoverySpec
CONSTANTS
  OrderIds    = {o1, o2}
  QuoteIds    = {q1, q2}
  Tabs        = {t1, t2}
  Desks       = {}
  Contents    = {c1}
  Files       = {f1}
  Details     = {e1}
  Fees        = {0}
  Policies    = {"before_review"}
  MaxVersion  = 3
  MaxAttempts = 1
  MaxRecord   = 2
  MaxCatalog  = 0
  MaxCopy     = 2
CONSTRAINT Lanes
SYMMETRY Interchangeable
INVARIANTS SubmittedAsSigned CopiesBelong NoLostCopy
PROPERTIES NoLostEdit
CHECK_DEADLOCK FALSE
