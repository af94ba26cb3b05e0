\* Two nodes; one of them crashes, restarts, leaves and rejoins.
SPECIFICATION Spec
CONSTANTS
  a = a
  b = b
  Node = {a,b}
  Crashing = {b}
  Administered = {b}
  ClockSteps = {0,1}
  MaxIncarnation = 2
  MaxRpcs = 1
  PingRequestSize = 3
  MaxLosses = 1
  PFactor = 1

INVARIANTS TypeOK NoFutureIncarnation SelfNeverSuspect DisseminatesCurrentView TimersMatchSuspects
  ExpiryFollowsSuspicion 
PROPERTIES ViewsNeverRegress ImplementsMembership
CHECK_DEADLOCK FALSE
