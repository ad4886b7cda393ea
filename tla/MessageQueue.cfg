\* Four slots: a ranked part of two messages, the pinned one, and a full queue.
SPECIFICATION FairSpec
CONSTANTS
  N = 4
  Priorities = {0, 1}
  Zero = z
  Payloads = {z, other}
INVARIANTS
  TypeOK
  NeverHalts
  SlotsAreConserved
  ListIsSound
PROPERTIES
  SearchEnds
  ImplementsPrioQueue
