\* A logout that waits for a refresh of the same session.
CONSTANTS
  c1 = c1  c2 = c2  c3 = c3  i1 = i1  s1 = s1  s2 = s2
  a1 = a1  a2 = a2  a3 = a3  a4 = a4  b1 = b1  b2 = b2
  None = None
  Clients = {c1, c2}
  Identities = {i1}
  Sessions = {s1}
  Tokens = {a1, a2, a3, a4}
  OwnerOf <- OneIdentity
  SessionOf <- ByLetter
  Workload = {"login", "refresh", "logout", "expiry"}
SPECIFICATION Spec
PROPERTIES
  TerminatedGetsNoToken
