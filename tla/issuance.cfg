\* One order with its registrars, its documents and their recipient.
SPECIFICATION Spec
CONSTANTS
  Items       = {i1, i2}
  Docs        = {d1, d2}
  Staff       = {m1}
  Managers    = {m1}
  Kinds      <- SomeKinds
  Modes       = {"demo", "live"}
  MaxBlockers = 1
  MaxCodes = 1
CONSTRAINT Lanes
SYMMETRY Interchangeable
INVARIANTS ItemsMatchDocuments NothingOutUnconfirmed OutIsPaid CodesAreSingleUse
PROPERTIES CancelledByRefund ChangesOutdatePages InCustody
CHECK_DEADLOCK FALSE
