SPECIFICATION Spec
CONSTANTS
  Workers = {w1, w2}
  Orders = {o1}
  Users = {u1, u2}
  Matching <- AllPairs
  QuietEnd <- LateNight
  Fingerprint <- Distinct
  Quota <- NoLimit
  Cooldown <- NoLimit
  Period = 1
  MaxRetries = 1
  BatchLimit = 1
  LossyReplies = TRUE
  MaxTime = 1
  MaxTasks = 2
  MaxCrashes = 1
  MaxChanges = 1
  o1 = o1  o2 = o2  o3 = o3  u1 = u1  u2 = u2
  NoWorker = NoWorker  NoPair = NoPair  NoTask = NoTask
  Deferred = Deferred  Unlimited = Unlimited

SYMMETRY WorkerSymmetry
CHECK_DEADLOCK FALSE
INVARIANTS AtMostOnceUnlessDeferred HolderNeverWaits
PROPERTY FollowsLedger
