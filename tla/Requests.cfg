\* One or two goroutines use an instance of two servers that comes, changes and goes.
SPECIFICATION FairSpec
CONSTANTS
  a = a
  b = b
  k1 = k1
  k2 = k2
  g1 = g1
  g2 = g2
  Server = {a, b}
  Local = a
  Key = {k1, k2}
  Goroutine = {g1, g2}
  Distance <- SmallDistance
  Scenarios <- SmallScenarios
INVARIANTS  QuorumIsDistinct OneClientPerDestination
PROPERTIES RetryGoesToOwner InflightDrains
CHECK_DEADLOCK FALSE
