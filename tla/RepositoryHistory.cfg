SPECIFICATION Spec
CONSTANTS
  r1 = r1
  r2 = r2
  s1 = s1
  s2 = s2
  c1 = c1
  c2 = c2
  Runs <- MCRuns
  ChangeRequests = {7}
  Setups <- MCSetups
  Syncs = {s1, s2}
  Cleanups = {c1, c2}
  MaxTime = 6
  ClosedRefresh = 3
  UnknownRefresh = 2
  RetentionDays = {1}
INVARIANTS
  TypeOK
  ApprovalsAreCounted
  ChangesMissedOnlyInGaps
  AttentionMirrorsProvider
  ChangeRequestsAreFresh
  ActiveRunsSettle
PROPERTIES
  DurationsSurviveRetention
  OnlyExpiredRunsVanish
