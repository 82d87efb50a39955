SPECIFICATION MCSpec
CONSTANTS
  Workers = {w1, w2}
  Orders = {o1, o2, o3}
  Rank <- Published
  Key <- Keys
  Texts <- OneText
  FirstText <- AllSame
  Groups = {1, 2, 3}
  MaxEvents = 1
  MaxCrashes = 2
  MaxAge = 1
  o1 = o1  o2 = o2  o3 = o3  w1 = w1
  NoWorker = NoWorker  NoOrder = NoOrder  NoGroup = NoGroup  NoPrint = NoPrint

CHECK_DEADLOCK FALSE
INVARIANTS TypeOK OneGroupInTheEnd
PROPERTIES LaterRepostsStaySilent SomebodyIsNotified
