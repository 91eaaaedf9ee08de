SPECIFICATION Spec
CONSTANTS
  NULL = NULL
  Requests = {r1, r2, r3}
  Tokens = {t0, t1, t2, t3}
  StoredTokens = {t0}
  Passwords = {p1, p2}
SYMMETRY Symmetry
INVARIANTS
  SweepsKillAll
CHECK_DEADLOCK FALSE
