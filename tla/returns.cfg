\* Two calls that may overlap, one cancelled anywhere, with children that may
\* ignore SIGTERM; with and without notifications.
SPECIFICATION FairSpec
CONSTANTS
  None = None
  MaxCalls = 2
  MaxCancels = 1
  MaxLongLines = 1
  Notifications = {TRUE, FALSE}
  Autostart = TRUE
  Orderly = FALSE
PROPERTIES
  CallsReturn
CHECK_DEADLOCK FALSE
