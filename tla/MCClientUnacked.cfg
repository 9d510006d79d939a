CONSTANTS
  Securities = {TRUE, FALSE}
  Modes = {TRUE, FALSE}
  MinPort = 1
  MaxPort = 2
  Busy = {2}
  Operations = {"list", "delete"}
  MaxCalls = 2
  MaxAborts = 1
SPECIFICATION Spec
INVARIANT
  SuccessIsAcknowledged
CHECK_DEADLOCK FALSE
