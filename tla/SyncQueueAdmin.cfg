SPECIFICATION Spec
CONSTANTS
  r1 = r1
  r2 = r2
  a1 = a1
  w1 = w1
  w2 = w2
  Repositories = {r1}
  Accounts = {a1}
  AccountOf <- OneAccount
  Workers = {w1, w2}
  NoToken = NoToken
  RowIds = {1, 2, 3}
  SyncLease = 1
  WebhookDebounce = 1
  MaxAttempts = 2
  BatchSize = 2
  RetryDelays = {1}
  RateLimitDelays = {1}
  MaxStale = 0
SYMMETRY WorkerSymmetry
INVARIANT LeaseExclusive
INVARIANT UnansweredStaysQueued

INVARIANT RateLimitHonoured
PROPERTY GateImplemented
