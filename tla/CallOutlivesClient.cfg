SPECIFICATION Spec
CONSTANTS
  Operators = {op1, op2}
  MaxConnects = 1
INVARIANT CallsEndFirst
\* a use of an object that is not there ends everything
CHECK_DEADLOCK FALSE
