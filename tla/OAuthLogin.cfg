\* Three clients log in with two accounts.
CONSTANTS
  Clients = {c1, c2, c3}
  Accounts = {a1, a2}
  Identities = {i1, i2, i3}
  Sessions = {s1, s2, s3}
  None = None
SPECIFICATION FairSpec
INVARIANTS
  TypeOK
  OneIdentityPerAccount
  SessionOfProvenAccount
  RefusedCanRetry
  Consistent
PROPERTIES
  ImplementsDirectory
  RequestsEnd
