\* The size of the code, and what the comment on the field Priority says.
SPECIFICATION Spec
CONSTANTS
  N = 32
  Priorities = {0, 1}
  Zero = z
  Payloads = {z}
INVARIANT
  SmallerNumberFirst
