SPECIFICATION Spec
CONSTANTS
  Workers = {w1, w2}
  Orders = {o1, o2, o3}
  Users = {u1, u2}
  Matching <- AllPairs
  QuietEnd <- Awake
  Fingerprint <- AllAlike
  Quota <- OneQuota
  Cooldown <- OneCooldown
  Period = 1
  MaxRetries = 1
  BatchLimit = 1
  LossyReplies = FALSE
  MaxTime = 1
  MaxTasks = 3
  MaxCrashes = 0
  MaxChanges = 0
  o1 = o1  o2 = o2  o3 = o3  u1 = u1  u2 = u2
  NoWorker = NoWorker  NoPair = NoPair  NoTask = NoTask
  Deferred = Deferred  Unlimited = Unlimited

SYMMETRY WorkerSymmetry
CHECK_DEADLOCK FALSE
INVARIANT LimitsOvershootBounded
