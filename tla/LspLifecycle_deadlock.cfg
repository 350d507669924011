CONSTANTS
  t1 = t1  t2 = t2  nobody = nobody
  Threads = {t1}
  Nobody = nobody
  Operations = {"parse", "restart"}
  MaxRequests = 2
  MaxSessions = 2
  MaxDeaths = 0
  Timeouts = {}

SPECIFICATION Spec
INVARIANTS
  NoDeadlock

\* The number of requests is bounded.
CHECK_DEADLOCK FALSE
