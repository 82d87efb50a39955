SPECIFICATION MCFairSpec
CONSTANTS
  c1 = c1
  Scenes = {"crowd", "alone"}
  Sessions = {s1}
  Classifiers = {c1, c2}
  Favourites = {f1}
  Deliveries = {}
  FreshDays = 0
  ArchiveDays = 0
  MaxAge = 1
  MaxEvents = 2
  MaxCrashes = 1

CHECK_DEADLOCK FALSE
INVARIANT RetiredStaysStale
PROPERTIES StaleEndsArchived 
