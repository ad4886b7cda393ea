\* All triggers.
SPECIFICATION ExtSpec
CONSTANTS
  Triggers = {0, 1, 2, 3}
  Handlers = {f}
  Null = null
  Nobody = nobody
INVARIANT
  TriggerIsAsAsked
