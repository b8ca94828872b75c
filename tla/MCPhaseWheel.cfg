\* Two agents; a round of steps may take longer than the cognition period, and
\* consuming a result may raise.
CONSTANTS
  quick = quick  slow = slow
  Roster <- Both
  Period <- MCPeriod
  Dwell <- MCDwell
  EventPeriod <- MCEventPeriod
  Cycle = 6
  MaxJitter = 1
  MaxStep = 4
  MaxDrive = 1
  MaxLag = 6
  MaxObs = 2
  SinkMayRaise = TRUE
SPECIFICATION LiveSpec
INVARIANTS
  InjectedSurvives
PROPERTIES
  MinGap
  NobodyStarves
CHECK_DEADLOCK FALSE
