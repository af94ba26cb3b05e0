\* Three nodes, one of which crashes and restarts.
SPECIFICATION Spec
CONSTANTS
  a = a
  b = b
  c = c
  Node = {a,b,c}
  Crashing = {c}
  Administered = {}
  ClockSteps = {1}
  MaxIncarnation = 1
  MaxRpcs = 1
  PingRequestSize = 3
  MaxLosses = 2
  PFactor = 1

INVARIANT SuspicionIsTimed

CHECK_DEADLOCK FALSE
