\* The size of the code, and a trace with four data bytes.
SPECIFICATION Spec
CONSTANTS
  Size = 64
  TraceArgs = {4}
  DataCounts = {}
  ReadLengths = {}
  GateLocked = TRUE
PROPERTIES
  PacketsFollowHeaders
