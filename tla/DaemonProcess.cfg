\* Two processes that start, end, are killed and start again; two PIDs.
CONSTANTS
  first = first
  second = second
  main = main
  handler = handler
  Process <- TwoProcesses
  Thread <- TwoThreads
  Main = main
  NoThread = NoThread
  MaxFrames <- Frames
  Sent <- Signals
  Level <- Levels
  Pid <- Pids
  NoPid = NoPid
  NoFile = NoFile
  Empty = Empty
SPECIFICATION Spec
INVARIANTS TypeOK LinesWhole OnlySignalsDeadlock FoundByPidFile NoFileLeft
PROPERTIES RefusedForCause
