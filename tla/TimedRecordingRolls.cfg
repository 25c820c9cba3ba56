SPECIFICATION FairSpec
CONSTANTS
  Times <- CycleTimes
  Steps <- CycleSteps
  FrameSizes = {n1}
  Digitisers = {d1}
  Starts = {0}
  Durations = {0, 6}
  Forever = 1000
  PrintInterval = 2
  SizeLimit = 1
  Readers = {r1}
  NoFile = NoFile
PROPERTY TimedRecordingEnds
\* a thread may use a null file pointer, and then the process is gone
CHECK_DEADLOCK FALSE
