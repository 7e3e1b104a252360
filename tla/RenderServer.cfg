SPECIFICATION ServerSpec
CONSTANTS
  TcpClients = {c1, c2}
  NoTcpClient = NoTcpClient
  MaxRequests = 2
INVARIANT RepliesMatchRequests
PROPERTY NextClientServed
CHECK_DEADLOCK FALSE
