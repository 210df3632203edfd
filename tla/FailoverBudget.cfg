CONSTANTS
  r1 = r1
  r2 = r2
  p = p
  q = q
  m1 = m1
  m2 = m2
  Requests = {r1}
  Streams = {}
  Providers = {p}
  Modes = {m1}
  Chain <- OnlyP
  MaxTotalAttempts = 8
  ProviderThreshold = 2
  RouteThreshold = 2
  TargetThreshold = 2
  RecoveryTimeout = 1
  StallTimeout = TRUE
  MayBeOpen = {}
  Resets = FALSE
SPECIFICATION FairSpec
PROPERTY WaitsWithinBudget
