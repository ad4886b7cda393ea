\* A ring of eight bytes, packets of one to six bytes.
SPECIFICATION FairSpec
CONSTANTS
  Size = 8
  TraceArgs = {1}
  DataCounts = {4}
  ReadLengths = {0, 1}
  GateLocked = TRUE
INVARIANTS
  TypeOK
  EnabledWhileFilled
PROPERTIES
  ImplementsStream
  PacketsFollowHeaders
  BytesAreSent
  AwaitEnds
