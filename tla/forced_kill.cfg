\* disconnect() while the loop waits for its watcher to exit.
SPECIFICATION FairSpec
CONSTANTS
  None = None
  MaxCalls = 2
  MaxCancels = 0
  MaxLongLines = 0
  Notifications = {TRUE}
  Autostart = TRUE
  Orderly = TRUE
PROPERTIES
  TerminatedDies
CHECK_DEADLOCK FALSE
