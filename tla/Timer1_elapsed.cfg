\* A period of 256 ticks; a few ticks are enough.
SPECIFICATION TimerSpec
CONSTANTS
  Base = 16
  MaxTicks = 4
INVARIANT
  ElapsedSinceStart
