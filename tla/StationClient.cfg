SPECIFICATION FairSpec
CONSTANTS
  Sampling <- MCSampling
  Periodic <- MCPeriodic
  Components <- MCComponents
  ComponentOf <- MCComponentOf
  Callbacks <- MCCallbacks
  SensorOf <- MCSensorOf
  Handlers <- MCHandlers
  Calls <- MCCalls
  MaxValue = 2
  MaxEvents = 2
  Capacity = 1
INVARIANTS
  TypeOK
  NoneForgotten
  LatestUnderWay
  CallbacksAgree
PROPERTIES
  ImplementsMirror
  SampledAgain
  LatestIsHeld
\* once the bounds are used up and nothing is sampled periodically, all wait
CHECK_DEADLOCK FALSE
