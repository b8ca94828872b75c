\* Two clients race for one slot, overflow, expire and leave.
CONSTANTS
  s1 = s1  s2 = s2  agentA = agentA  agentB = agentB
  Session <- TwoSessions
  MaxSessions = 1
  Backlog = 2
  MaxEnvelopes = 4
  Targets <- MCTargets
  Subscriptions <- AllOrOne
  MaxFrames = 1
SPECIFICATION LiveSpec
INVARIANTS
  CapHeld
  SlotsMatchSessions
  ExactlyWhatIsDue
PROPERTIES
  SessionsAreStreams
  
CHECK_DEADLOCK FALSE
