CONSTANTS
  t1 = t1  t2 = t2  t3 = t3  nobody = nobody  none = none  sentinel = sentinel
  Threads = {t1, t2}
  NoThread = nobody
  NoUnit = none  NoFlags = none  NoRequest = none
  Sentinel = sentinel
  Files = {"main.cpp", "lib.h"}
  Flags = {"std11", "std20"}
  Operations = {"update", "complete", "goto", "goto_imprecise", "fixit",
                "docs", "unload"}
  MaxRequests = 2

SPECIFICATION FairSpec
INVARIANTS
  TypeOK
  OneCreator
  FlagsRespected
  DiagnosticsAreCurrent
  NothingLeftBehind
PROPERTIES
  RequestsEnd

\* The number of requests is bounded.
CHECK_DEADLOCK FALSE
