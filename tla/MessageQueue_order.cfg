\* The size of the code, and what the comment on the type Message says.
SPECIFICATION Spec
CONSTANTS
  N = 32
  Priorities = {0, 1}
  Zero = z
  Payloads = {z}
PROPERTIES
  RankedThenFifo
