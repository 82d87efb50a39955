SPECIFICATION FairSpec
CONSTANTS
  pos = pos  neg = neg  m1 = m1  e1 = e1  w1 = w1  w2 = w2
  Keywords = {pos}
  Positive = {pos}
  Editors = {e1}
  Readers = {w1, w2}
  Tables <- SoundOrBroken
  Drafts <- Rewrites
  MaxEdits = 1
  MaxMisses = 0
  Messages = {m1}
  MaxCollections = 2
  MaxRetries = 1
  MaxFailures = 1
  Missing = Missing

CHECK_DEADLOCK FALSE
INVARIANTS TypeOK EntitiesOfOneRun
PROPERTIES TextIsClassified CacheCatchesUp
