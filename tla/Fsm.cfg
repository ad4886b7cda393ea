\* Three machines, two priorities that a mask can contain, and one that none can.
SPECIFICATION FairSpec
CONSTANTS
  Machines = {a, b, c}
  States = {s, t}
  Masks = {{0}, {0, 1}}
  Priorities = {0, 1, 8}
  Anchor = anchor
  Null = null
INVARIANTS
  RegistryIsComplete
  AllAreNotified
  CalledInOrder
PROPERTIES
  DispatchReturns
