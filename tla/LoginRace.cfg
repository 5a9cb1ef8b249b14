\* A login that straddles a change.
CONSTANTS
  Clients = {c1, c2}
  Credentials = {k1, k2}
  Sessions = {s1, s2}
  None = None
SPECIFICATION Spec
INVARIANTS
  NoSessionOfOldPassword
