\* One outage, one chat without a plan, one error of the store; the loop
\* records two ticks and replays two or three.
CONSTANTS
  None = None  Fails = Fails  Nowhere = Nowhere
  Agents = {1, 2}
  LoopThread = 3  Closer = 4
  Thread = {1, 2, 3}
  Calls <- MCCalls
  MaxReopen = 3
  Horizon = 100
  ZoneOrder <- MCZoneOrder
  Centre <- MCCentre
  MicroRadius = 1  Radius = 2  Push = 1  Threshold = 3  Reach = 2
  PropZone = "peripatos"  PropPlace = 5
  DefaultMode <- MCDefaultMode
  Pool = 3  KAgent = 1  KWorld = 1  KEcl = 2
  MaxOutages = 1  MaxFallbacks = 1
  Preferred = {"peripatos"}
  RetrievalNow = 3
  Start <- MCStart
  Speed = 1
  Observable <- MCObservable
  MaxRounds = 1  MaxPhysics = 2  MaxInjected = 1  MaxStoreErrors = 1
  LoopAgent = 1  Ticks = 2  PhysicsPerTick = 2
  Seen <- MCSeen
SPECIFICATION FairSpec
INVARIANTS
  ConnectionDiscipline WritesAreWhole EventsTellTheTruth ReasonExplains 
  ReplayReproduces
PROPERTIES StoreCloses
CHECK_DEADLOCK FALSE
