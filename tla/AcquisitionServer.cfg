SPECIFICATION FairSpec
CONSTANTS
  Operators = {op1, op2}
  MaxConnects = 2
INVARIANTS
  TypeOK
  OperatorsAreTold
  BroadcastsFindServer
  ThreadsEndFirst
  SafeWhileServing
PROPERTY ShutdownEnds
\* a use of an object that is not there ends everything
CHECK_DEADLOCK FALSE
