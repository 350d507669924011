CONSTANTS
  t1 = t1  t2 = t2  nobody = nobody
  Threads = {t1, t2}
  Nobody = nobody
  Operations = {"parse", "restart", "stop"}
  MaxRequests = 2
  MaxSessions = 2
  MaxDeaths = 1
  Timeouts = {"connect", "exit"}

SPECIFICATION Spec
SYMMETRY Symmetry
INVARIANTS
  NotBeforeInitialized
  EventOfSession
  NothingForgotten

\* The number of requests is bounded, and the server may deadlock (LspLifecycle_deadlock.cfg).
CHECK_DEADLOCK FALSE
