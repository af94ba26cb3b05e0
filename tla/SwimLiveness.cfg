\* Two nodes under fair scheduling; one of them crashes and restarts.
SPECIFICATION FairSpec
CONSTANTS
  a = a
  b = b
  Node = {a,b}
  Crashing = {b}
  Administered = {}
  ClockSteps = {1}
  MaxIncarnation = 2
  MaxRpcs = 1
  PingRequestSize = 3
  MaxLosses = 1
  PFactor = 1


PROPERTIES Converges 
CHECK_DEADLOCK FALSE
