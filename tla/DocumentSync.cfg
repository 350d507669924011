CONSTANTS
  f1 = f1  f2 = f2  t1 = t1  t2 = t2  d1 = d1  d2 = d2
  empty = empty  text = text
  Files = {f1, f2}
  Supported = {f1, f2}
  Empty = empty
  Contents = {empty, text}
  Unreadable = Unreadable
  InitialDisks <- MCInitialDisks
  WorkspaceFor <- MCWorkspaceFor
  ProjectDir = d1
  Threads = {t1, t2}
  Pump = Pump
  NoThread = NoThread
  Operations = {"update", "current", "save", "unload"}
  FileData <- MCFileData
  Starts = {"listens", "waits"}
  MaxRequests = 3
  MaxDiskWrites = 1

SPECIFICATION Spec
SYMMETRY Symmetry
INVARIANTS
  Synchronized
  DirtyBuffersDelivered
  WorkspaceAnnounced
PROPERTIES
  NotificationsAreLegal
  DocumentsSpec

\* Between two requests there may be nothing to do.
CHECK_DEADLOCK FALSE
