\* More packets than slots, more messages than the queue holds, any answer.
SPECIFICATION FairSpec
CONSTANTS
  RxSize = 8
  PoolSize = 3
  QueueSize = 2
  Priorities = {0, 1}
  MaxApp = 2
  Lengths = {0, 1}
  Answers = {TRUE, FALSE}
INVARIANTS
  TypeOK
  CreditIsAccounted
  RingHasSpace
  ParserIsInStep
  SlotsAreAccounted
PROPERTIES
  CreditReturns
