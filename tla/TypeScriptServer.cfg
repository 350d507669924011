CONSTANTS
  t1 = t1  t2 = t2  nobody = nobody
  Threads = {t1, t2}
  Nobody = nobody
  Operations = {"request", "restart", "stop"}
  SlowExit = TRUE
  MaxRequests = 2
  MaxServers = 2
  MaxEvents = 1
  MaxDeaths = 1

SPECIFICATION FairSpec
INVARIANTS
  NoLostDeferred
  NoAnswerLost
  OneServer
PROPERTIES
  LockReleased
  AnswersDelivered

\* The number of operations is bounded.
CHECK_DEADLOCK FALSE
