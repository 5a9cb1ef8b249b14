\* Every request ends: row locks are fair, deadlocks are broken, nothing fails.
CONSTANTS
  c1 = c1  c2 = c2  c3 = c3  i1 = i1  s1 = s1  s2 = s2
  a1 = a1  a2 = a2  a3 = a3  a4 = a4  b1 = b1  b2 = b2
  None = None
  Clients = {c1, c2}
  Identities = {i1}
  Sessions = {s1, s2}
  Tokens = {a1, a2, a3, b1}
  OwnerOf <- OneIdentity
  SessionOf <- ByLetter
  Workload = {"login", "refresh", "logout", "logoutAll", "password"}
SPECIFICATION FairSpec
ACTION_CONSTRAINT DrawInOrder
PROPERTIES
  RequestsEnd
