\* One order from quote to release or cancellation, and one started from it; an office
\* and a catalog that change meanwhile.
SPECIFICATION Spec
CONSTANTS
  OrderIds    = {o1, o2}
  QuoteIds    = {q1}
  Tabs        = {t1}
  Desks       = {d1}
  Contents    = {c1}
  Files       = {}
  Details     = {e1, e2}
  Fees        = {0, 1}
  Policies    = {"before_review", "after_review"}
  MaxVersion  = 10
  MaxAttempts = 2
  MaxRecord   = 4
  MaxCatalog  = 1
CONSTRAINT Lanes
SYMMETRY Interchangeable
INVARIANTS PaidBeforeRelease RecordFollowsOrder
PROPERTIES ConfirmedOnSight PreparedAsSigned CancellationHolds SubmittedAsOffered
CHECK_DEADLOCK FALSE
