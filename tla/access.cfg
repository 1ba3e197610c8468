\* An administrator and two students, three codes and two concurrent requests.
SPECIFICATION Spec
CONSTANTS
  Users   = {a1, s1, s2}
  Admins  = {a1}
  Threads = {t1, t2}
  Tokens  = {k1, k2, k3}
SYMMETRY Interchangeable
INVARIANTS OneUse InvitationsAuthorized
PROPERTIES NoOldReset NoWayBack
CHECK_DEADLOCK FALSE
