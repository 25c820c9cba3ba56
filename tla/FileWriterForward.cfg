SPECIFICATION Spec
CONSTANTS
  Times <- ForwardTimes
  Steps <- ForwardSteps
  FrameSizes = {n1}
  Digitisers = {d1}
  Starts = {0}
  Durations = {0}
  Forever = 1000
  PrintInterval = 2
  SizeLimit = 1
  Readers = {r1}
  NoFile = NoFile
INVARIANT SizeBounded
\* a thread may use a null file pointer, and then the process is gone
CHECK_DEADLOCK FALSE
