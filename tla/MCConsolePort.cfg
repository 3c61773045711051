SPECIFICATION Spec
CONSTANTS
  v1 = v1
  v2 = v2
  Vms = {v1, v2}
  MinConsolePort = 5000
  MaxConsolePort = 5001
  HashPort <- SameHash
INVARIANTS TypeOK
PROPERTIES CollisionNeedsOverlap StoredWasConfigured
