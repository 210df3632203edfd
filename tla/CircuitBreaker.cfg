CONSTANTS
  r1 = r1
  r2 = r2
  r3 = r3
  r4 = r4
  Requests = {r1, r2, r3, r4}
  FailureThreshold = 3
  RecoveryTimeout = 2
  MaxGeneration = 10
SPECIFICATION FairSpec
INVARIANTS TypeOK LeaseInv ExclusiveProbe ClosedBelowThreshold CooldownServed
PROPERTIES RevokedForGood ReclosedByProbe CancelKeepsCooldown ImplementsGate ProbeResolves
