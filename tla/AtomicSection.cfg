\* Sections nested three times and two interrupt sources.
SPECIFICATION FairSpec
CONSTANTS
  MaxDepth = 3
  Interrupts = {tx, rx}
INVARIANTS
  TypeOK
  SectionsExcludeHandlers
  HandlersAreNotInterrupted
  CopyIsNotStale
  ByteCountsSections
PROPERTIES
  InterruptsAreServed
