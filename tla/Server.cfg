\* As many requests as clients, in a process that stops and starts.
CONSTANTS
  r1 = r1  r2 = r2  r3 = r3
  Requests = {r1, r2, r3}
  PoolSize = 3
  MaxEvents = 2
  RowOf <- TwoShareARow
SPECIFICATION ServerFairSpec
INVARIANTS
  ServerTypeOK
  ClientsConserved
  QueueSound
PROPERTIES
  AnsweredUnlessExhausted
  StopsAfterSignal
