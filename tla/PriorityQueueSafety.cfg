\* Six uploads over a heap of five cells: a heap three levels deep, the
\* queue full, ties, stop and destroy at any moment.
CONSTANTS
  h1 = h1
  h2 = h2
  h3 = h3
  h4 = h4
  h5 = h5
  h6 = h6
  Handler <- SixHandlers
  Priority <- ThreeSizes
  MaxQueueSize = 5
  Processor = Processor
  Free = Free
  NoItem = NoItem
SYMMETRY HandlerSymmetry
SPECIFICATION Spec
PROPERTIES ImplementsFileQueue
INVARIANTS TypeOK HeapOrder Conservation
\* The program is over when the main thread has destroyed the queue.
CHECK_DEADLOCK FALSE
