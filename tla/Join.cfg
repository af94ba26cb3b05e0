\* A node bootstraps from up to four hosts, two of them on its own machine.
SPECIFICATION FairSpec
CONSTANTS
  Local = l
  Near = {n1, n2}
  Far = {f1, f2}
  Options <- SmallOptions
INVARIANTS CountedWereMerged RepeatsOnlyInLaterRounds DestroyedRarelyGossips
PROPERTIES Returns
CHECK_DEADLOCK FALSE
