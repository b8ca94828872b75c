\* A raising trace sink costs the agents after it their new deadlines.
CONSTANTS
  quick = quick  slow = slow
  Roster <- Both
  Period <- MCPeriod
  Dwell <- MCDwell
  EventPeriod <- MCEventPeriod
  Cycle = 6
  MaxJitter = 1
  MaxStep = 4
  MaxDrive = 1
  MaxLag = 6
  MaxObs = 1
  SinkMayRaise = TRUE
SPECIFICATION Spec
PROPERTIES
  MinGapAlways
CHECK_DEADLOCK FALSE
