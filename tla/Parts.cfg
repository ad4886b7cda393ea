\* All messages of two bytes; three analog channels; calls with up to five tokens and three arguments;
\* bytes of two values, so a period of four ticks, two overflows, and carries through the bytes;
\* the triggers whose bits add up to those of 3, and one function for those of the application; both channels
\* of one timer and one of the other, and Div64, which tells the tables apart.
SPECIFICATION FairSpec
CONSTANTS
  InitialCrcs = {255}
  LaterBytes = {1, 2, 4, 8, 16, 32, 64, 128, 255}
  MaxLength = 2
  Formats <- FormatsInUse
  MaxTokens = 5
  AnalogChannels = {0, 1, 2}
  Base = 2
  MaxTicks = 8
  Triggers = {0, 1, 2}
  Handlers = {f}
  Null = null
  Nobody = nobody
  CompareMatchSources = {0, 1, 2}
  Frequencies = {0, 2}
  Matches = {0, 2}
  Top = 3
INVARIANTS
  CrcIsRemainder
  ArgumentsAreSplit
  LastArgumentArrives
  OneOfTwoIsRight
  ReadingIsClose
  RegistrationHolds
  ClockIsAsAskedLast
PROPERTIES
  SwitchedOffIsSilent
  EdgeIsServed
  ServedAgain
CHECK_DEADLOCK FALSE
