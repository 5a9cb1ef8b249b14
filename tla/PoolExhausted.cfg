\* As many requests as clients.
CONSTANTS
  r1 = r1  r2 = r2  r3 = r3
  Requests = {r1, r2}
  PoolSize = 2
  MaxEvents = 2
  RowOf <- TwoShareARow
SPECIFICATION FairSpec
PROPERTIES
  RequestsAnswered
