\* An administrator who may manage as well, another one, thin and full evidence.
SPECIFICATION Spec
CONSTANTS
  Users       = {a1, a2}
  Admins      = {a1, a2}
  Evidence    = {thin, full}
  Complete    = {full}
  NoEvidence  = thin
  Evaluations = {e1, e2}
  Threads     = {t1, t2}
  MaxVersion  = 7
SYMMETRY Interchangeable
INVARIANTS NoBypass
PROPERTIES NoBlindChange ExpandedOnGrounds DecidedOnce
CHECK_DEADLOCK FALSE
