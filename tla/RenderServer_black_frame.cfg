SPECIFICATION ServerSpec
CONSTANTS
  TcpClients = {c1, c2}
  NoTcpClient = NoTcpClient
  MaxRequests = 2
INVARIANT FailedRenderIsBlack
CHECK_DEADLOCK FALSE
