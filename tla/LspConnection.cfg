CONSTANTS
  t1 = t1  t2 = t2
  Threads = {t1, t2}
  Transports = {"stdio", "tcp"}
  MaxRequests = 2
  MaxMessages = 1

SPECIFICATION OrderlySpec
INVARIANTS
  NoLostResponse
  NobodyLeftWaiting
  AnswersAreTrue
PROPERTIES
  AnsweredOnce
  DeathNoticed
  CloseReturns

\* A connection that was closed does nothing more.
CHECK_DEADLOCK FALSE
