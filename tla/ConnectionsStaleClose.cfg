\* Descriptors that are closed and handed out again.
CONSTANTS
  fd1 = fd1
  fd2 = fd2
  NoFd = NoFd
  MaxConns = 2
  Fd <- TwoFds
  MAX_CLIENTS = 2
  MaxConnections = 2
SPECIFICATION Spec
PROPERTIES ClosesOwnSocket
\* Clients open only MaxConns connections.
CHECK_DEADLOCK FALSE
