SPECIFICATION MCSpec
CONSTANTS
  c1 = c1
  Scenes = {"alone"}
  Sessions = {s1, s2}
  Classifiers = {c1}
  Favourites = {}
  Deliveries = {}
  FreshDays = 0
  ArchiveDays = 0
  MaxAge = 1
  MaxEvents = 0
  MaxCrashes = 0

CHECK_DEADLOCK FALSE
PROPERTY SavedOnItsVersion
