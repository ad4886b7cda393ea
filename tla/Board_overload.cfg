\* The sizes of the code, and packets of two bytes: fifteen of them fit into
\* the ring, and three into the pool.
SPECIFICATION Spec
CONSTANTS
  RxSize = 32
  PoolSize = 4
  QueueSize = 31
  Priorities = {}
  MaxApp = 0
  Lengths = {0}
  Answers = {TRUE}
INVARIANTS
  NothingIsLost
