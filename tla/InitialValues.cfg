SPECIFICATION Spec
CONSTANTS
  Station <- MixedStation
  Roach <- MixedRoach
  Times = {1, 2}
INVARIANTS
  TypeOK
  HoldsInitial
  NewestIsHeld
\* a thread may use a null file pointer, and then the process is gone
CHECK_DEADLOCK FALSE
