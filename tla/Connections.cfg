\* Two clients at a time, three slots; descriptors are reused.
CONSTANTS
  fd1 = fd1
  fd2 = fd2
  NoFd = NoFd
  MaxConns = 3
  Fd <- TwoFds
  MAX_CLIENTS = 3
  MaxConnections = 2
SPECIFICATION FairSpec
INVARIANTS TypeOK CountMatchesTable LimitRespected ThreadsAccounted
PROPERTIES SlotsRecycled
\* Clients open only MaxConns connections.
CHECK_DEADLOCK FALSE
