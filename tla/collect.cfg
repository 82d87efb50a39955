SPECIFICATION FairSpec
CONSTANTS
  Collectors = {c1, c2}
  MaxPosts = 2
  BatchLimit = 2
  Plain = {1}
  MaxEdits = 1
  MaxFailures = 1
  MaxExpiries = 1
  NoCollector = NoCollector  Orphan = Orphan

CHECK_DEADLOCK FALSE
INVARIANTS RunsUnderItsLease NothingSkipped
PROPERTY ChannelMirrored
