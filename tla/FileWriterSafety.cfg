SPECIFICATION Spec
CONSTANTS
  Times <- CycleTimes
  Steps <- CycleSteps
  FrameSizes = {n1, n2}
  Digitisers = {d1}
  Starts = {0, 4}
  Durations = {0, 2}
  Forever = 1000
  PrintInterval = 2
  SizeLimit = 1
  Readers = {r1}
  NoFile = NoFile
INVARIANTS
  TypeOK
  FileMatchesState
  RequestHonoured
  UniformFile
  NoFrameAfterStop
  IdleIsTold
PROPERTIES
  ImplementsRecorder
  StopPrevails
\* a thread may use a null file pointer, and then the process is gone
CHECK_DEADLOCK FALSE
