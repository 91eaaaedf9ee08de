CONSTANTS
  AnyRequests = {r1, r2}
  LoginRequests = {r3}
  Requests <- MCRequests
  Serves <- MCServes
  AccountIds = {a1, a2}
  Usernames = {u1}
  Emails = {e1}
  Subs = {g1}
  Passwords = {p1, p2}
  Sids = {s1, s2, s3}
  Opened = {s1, s2}
  Threshold = 2
  EmailOf <- MCEmailOf
  Registered = {a1}
  NULL = NULL
  Kids = {k1, k2}
  NoKeys = NoKeys
SYMMETRY Symmetric
SPECIFICATION Spec
CHECK_DEADLOCK FALSE
INVARIANTS
  TypeOK
  LockHolds
  NamedUnlessBlind
  OneAccountPerSub
  OAuthSessionOnce
  DisabledStaysOut
  StaleSessionsRaced
  TokenVerdicts
