\* Two clients log in and change the password, twice at most.
CONSTANTS
  Clients = {c1, c2}
  Credentials = {k1, k2, k3}
  Sessions = {s1, s2}
  None = None
SPECIFICATION FairSpec
INVARIANTS
  TypeOK
  OneActiveCredential
  Consistent
PROPERTIES
  ChangeReplacesVerified
  ChangeEndsSessions
  RequestsEnd
