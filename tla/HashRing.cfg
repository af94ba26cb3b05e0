\* Five servers with one or two replica points each, under four hash functions.
SPECIFICATION Spec
CONSTANTS
  s1 = s1
  s2 = s2
  s3 = s3
  s4 = s4
  s5 = s5
  Server = {s1, s2, s3, s4, s5}
  HashSize = 10
  None = None
  Hashings <- SmallHashings
  MaxList = 1
INVARIANTS TreeIsRedBlack LookupIsClockwise
PROPERTIES ImplementsRing MinimalDisruption
