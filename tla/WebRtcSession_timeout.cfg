SPECIFICATION Spec
CONSTANTS
  MaxClients = 2
  Gathering = {}
INVARIANT TimeoutClosesItsClient
CHECK_DEADLOCK FALSE
