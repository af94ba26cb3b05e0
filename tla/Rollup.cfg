\* Three Updates are tracked while the timer fires and the node is destroyed.
SPECIFICATION FairSpec
CONSTANTS
  Caller = {c1, c2, c3}
  Callback = {k1, k2}
  None = None
INVARIANTS BlockedOnlyByInversion 
PROPERTIES EventuallyFlushed
CHECK_DEADLOCK FALSE
