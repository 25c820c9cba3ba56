SPECIFICATION FairSpec
CONSTANTS
  Registers = 2
  Unchecked <- LastUnchecked
  MaxWrites = 2
  MaxLines = 1
INVARIANTS
  TypeOK
  RepliesBelong
PROPERTIES
  ReportsFollowWrites
  ImplementsRegisters
  AnswerNotLost
  DisconnectObeyed
  LaterWriteGetsReply
\* both threads are done after a disconnect
CHECK_DEADLOCK FALSE
