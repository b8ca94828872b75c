\* Three agents, one of them unknown to the runtime, and a driver that opens,
\* closes and switches the golden phase: dialogs overlap, a pair talks again,
\* and every dialog ends.
SPECIFICATION ProgressSpec
CONSTANTS
    Agents <- MCAgents
    Registered <- MCTwoAgents
    Zones <- MCZones
    ReflectiveZones <- MCReflective
    Budget <- MCTwoBudget
    COOLDOWN_TICKS = 2
    COOLDOWN_TICKS_EVAL = 1
    TIMEOUT_TICKS = 1
    EvalNaturalMode = FALSE
    External = TRUE
    MaxTick = 6
    MaxDialogs = 2
INVARIANTS IndexConsistent 
PROPERTIES ImplementsProtocol  DialogsClose
