\* One upload is enough.
CONSTANTS
  fd1 = fd1
  fd2 = fd2
  NoFd = NoFd
  NoItem = NoItem
  Fd <- TwoFds
  MaxConns = 1
  MAX_CLIENTS = 1
  MaxConnections = 1
  Priority <- OneSize
  MaxQueueSize = 1
SPECIFICATION USpec
PROPERTIES ProcessedResponseArrives
\* Clients open only MaxConns connections.
CHECK_DEADLOCK FALSE
