\* Four nodes, two helpers for an indirect ping; all of the calls to them may fail.
SPECIFICATION Spec
CONSTANTS
  a = a
  b = b
  c = c
  d = d
  Node = {a,b,c,d}
  Crashing = {}
  Administered = {}
  ClockSteps = {1}
  MaxIncarnation = 1
  MaxRpcs = 1
  PingRequestSize = 2
  MaxLosses = 3
  PFactor = 1
SYMMETRY Symmetry
INVARIANT LoopsWait
 
CHECK_DEADLOCK FALSE
