\* Gossip is started, stopped and ticked while one member joins and another fails.
SPECIFICATION FairSpec
CONSTANTS
  Local = l
  Known = {b}
  Late = {c}
  Unsteady = {b}
  Loop = {g1, g2}
  Caller = {k1}
  Ticking = {k1}
INVARIANTS GossipRuns OnePingUnlessRaced InRangeUnlessRaced
PROPERTIES RoundVisitsAll LoopsEnd EveryMemberPinged
CHECK_DEADLOCK FALSE
