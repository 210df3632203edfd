CONSTANTS
  r1 = r1
  r2 = r2
  p = p
  q = q
  m1 = m1
  m2 = m2
  Requests = {r1, r2}
  Streams = {r2}
  Providers = {p}
  Modes = {m1}
  Chain <- OnlyP
  MaxTotalAttempts = 2
  ProviderThreshold = 2
  RouteThreshold = 2
  TargetThreshold = 2
  RecoveryTimeout = 1
  StallTimeout = TRUE
  MayBeOpen = {p, m1}
  Resets = TRUE
SPECIFICATION FairSpec
PROPERTIES ProbesSettle BreakersAreGates
