\* Seven puts against a queue of three: several overflows, one of which
\* drops an earlier warning.
CONSTANTS
  MainCap = 3
  MaxPuts = 7
  MaxBeats = 3
SPECIFICATION LiveSpec
PROPERTIES
  BeatsNeverGoBack
  ImplementsStream
  QueuesDrain
CHECK_DEADLOCK FALSE
