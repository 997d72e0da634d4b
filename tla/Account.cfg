SPECIFICATION FairSpec
CONSTANTS
  Emails = {e1, e2}
  Passwords = {p1, p2}
  AccountIds = {a1, a2}
  UserIds = {u1, u2}
  None = None
  MaxCalls = 2
INVARIANTS
  TypeOK
  OneDocPerEmail
  SameUser
  LoginsAgree
PROPERTIES
  SignInSucceeds
