\* Two clients register, resend and confirm for one address.
CONSTANTS
  c1 = c1  c2 = c2  c3 = c3  i1 = i1  i2 = i2
  v1 = v1  v2 = v2  v3 = v3  v4 = v4  w1 = w1
  None = None
  Clients = {c1, c2}
  Identities = {i1, i2}
  Verifications = {v1, v2, v3, w1}
  EmailOf <- SameAddress
  IdentityOf <- ByLetter
SPECIFICATION FairSpec
INVARIANTS
  TypeOK
  UnverifiedHasOneToken
  EndedByOne
  MailedTokensExist
PROPERTIES
  TerminalStateIsFinal
  ImplementsBook
  RequestsEnd
