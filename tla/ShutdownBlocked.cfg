SPECIFICATION FairSpec
CONSTANTS
  Times <- CycleTimes
  Steps <- CycleSteps
  FrameSizes = {n1}
  Digitisers = {d1}
  Starts = {0}
  Durations = {0}
  Forever = 1000
  PrintInterval = 2
  SizeLimit = 0
  Readers = {r1}
  NoFile = NoFile
PROPERTY ShutdownCompletes
\* a thread may use a null file pointer, and then the process is gone
CHECK_DEADLOCK FALSE
