\* One descriptor that two uploads take in turn, a queue for one.
CONSTANTS
  fd1 = fd1
  fd2 = fd2
  NoFd = NoFd
  NoItem = NoItem
  Fd <- OneFd
  MaxConns = 2
  MAX_CLIENTS = 2
  MaxConnections = 2
  Priority <- TwoSizes
  MaxQueueSize = 1
SPECIFICATION UFairSpec
INVARIANTS UTypeOK TempFilesOwned UploadsAccounted
PROPERTIES UploadsEnd
\* Clients open only MaxConns connections.
CHECK_DEADLOCK FALSE
