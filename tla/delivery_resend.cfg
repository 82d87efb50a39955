SPECIFICATION Spec
CONSTANTS
  Workers = {w1, w2}
  Orders = {o1}
  Users = {u1}
  Matching <- AllPairs
  QuietEnd <- Night
  Fingerprint <- Distinct
  Quota <- NoLimit
  Cooldown <- NoLimit
  Period = 1
  MaxRetries = 1
  BatchLimit = 100
  LossyReplies = FALSE
  MaxTime = 1
  MaxTasks = 1
  MaxCrashes = 0
  MaxChanges = 0
  o1 = o1  o2 = o2  o3 = o3  u1 = u1  u2 = u2
  NoWorker = NoWorker  NoPair = NoPair  NoTask = NoTask
  Deferred = Deferred  Unlimited = Unlimited

SYMMETRY WorkerSymmetry
CHECK_DEADLOCK FALSE
INVARIANT NeverSentTwice
