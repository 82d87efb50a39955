SPECIFICATION MCFairSpec
CONSTANTS
  s1 = s1  s2 = s2  s3 = s3  a1 = a1  a2 = a2  r1 = r1  v1 = v1  v2 = v2
  Scenes = {"overlap", "operator", "clash"}
  SourceIds = {s1, s3}
  Clashing = {s3}
  Pool = {a1}
  Place <- ByLabel
  Hash <- Hashes
  DefaultSession = a2
  Limit = 1
  Recoverers = {r1}
  Validators = {v1, v2}
  MaxTime = 2
  MaxQueued = 1
  MaxFloods = 1
  MaxRequests = 1
  MaxFailures = 1
  NoSource = NoSource  NoAccount = NoAccount

CHECK_DEADLOCK FALSE
PROPERTIES PausesEnd 
