\* No timeout need expire, unless the property says so.
CONSTANTS
  h1 = h1
  h2 = h2
  h3 = h3
  h4 = h4
  h5 = h5
  h6 = h6
  Handler <- FourHandlers
  Priority <- TwoSizes
  MaxQueueSize = 3
  Processor = Processor
  Free = Free
  NoItem = NoItem
SPECIFICATION FairSpec
PROPERTIES AcceptedIsServed ShutdownCompletes
\* The program is over when the main thread has destroyed the queue.
CHECK_DEADLOCK FALSE
