CONSTANTS
  Securities = {TRUE, FALSE}
  Modes = {TRUE, FALSE}
  MinPort = 1
  MaxPort = 3
  Busy = {2}
  Operations = {"retr"}
  MaxCalls = 2
  MaxAborts = 1
SPECIFICATION Spec
PROPERTY
  BusyPortIsSkipped
CHECK_DEADLOCK FALSE
