\* Joined nodes are counted again in a later round.
SPECIFICATION FairSpec
CONSTANTS
  Local = l
  Near = {n1, n2}
  Far = {f1, f2}
  Options <- SmallOptions
INVARIANTS JoinsEnoughNodes
CHECK_DEADLOCK FALSE
