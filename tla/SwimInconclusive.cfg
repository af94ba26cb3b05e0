\* Three nodes: fewer helpers than PingRequestSize.
SPECIFICATION Spec
CONSTANTS
  a = a
  b = b
  c = c
  Node = {a,b,c}
  Crashing = {}
  Administered = {}
  ClockSteps = {1}
  MaxIncarnation = 1
  MaxRpcs = 1
  PingRequestSize = 3
  MaxLosses = 2
  PFactor = 1


PROPERTY InconclusiveNeverSuspects
CHECK_DEADLOCK FALSE
