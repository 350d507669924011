CONSTANTS
  p1 = p1
  Contents <- TextContents
  Typed = {2}
  Reads = {"lines", "coarse", "any"}
  Pollers = {p1}
  QueueSize = 2
  Ignored = {3}

SPECIFICATION FairPumpSpec
INVARIANTS
  Framing
  NothingLost
  NotificationsKept
PROPERTIES
  MessagesReachTheEditor

\* Everything the server sends is read at some time.
CHECK_DEADLOCK FALSE
