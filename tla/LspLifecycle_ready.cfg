CONSTANTS
  t1 = t1  t2 = t2  nobody = nobody
  Threads = {t1, t2}
  Nobody = nobody
  Operations = {"parse"}
  MaxRequests = 3
  MaxSessions = 1
  MaxDeaths = 1
  Timeouts = {"connect", "exit"}

SPECIFICATION FairSpec
PROPERTIES
  RequestsReturn
  ServerBecomesReady

\* The number of requests is bounded.
CHECK_DEADLOCK FALSE
