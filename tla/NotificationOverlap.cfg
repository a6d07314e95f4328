SPECIFICATION FairDeletingSpec
CONSTANTS
  Rules = {rule1}
  Runs = {run1}
  Channels = {1, 2}
  Senders = {s1, s2}
  MaxAttempts = 2
  MaxCrashes = 1
  rule1 = rule1
  run1 = run1
  s1 = s1
  s2 = s2
INVARIANT DeliveredMeansReceived
PROPERTY EventuallySettled
