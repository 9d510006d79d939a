CONSTANTS
  Securities = {TRUE, FALSE}
  Modes = {TRUE, FALSE}
  MinPort = 1
  MaxPort = 2
  Busy = {2}
  Operations = {"connect", "list", "retr", "stor", "rename", "delete", "noop", "quit"}
  MaxCalls = 2
  MaxAborts = 1
SPECIFICATION Spec
INVARIANTS
  RepliesAreOwn
  ConnectedIsLoggedIn
  DataIsClosed
PROPERTIES
  TypeIsSet
CHECK_DEADLOCK FALSE
