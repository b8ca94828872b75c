\* The documentation's wall-clock timeout, refuted when no agent completes a step.
SPECIFICATION LiveSpec
CONSTANTS
    Agents <- MCTwoAgents
    Registered <- MCTwoAgents
    Zones <- MCZones
    ReflectiveZones <- MCReflective
    Budget <- MCTwoBudget
    COOLDOWN_TICKS = 3
    COOLDOWN_TICKS_EVAL = 2
    TIMEOUT_TICKS = 2
    EvalNaturalMode = FALSE
    External = FALSE
    MaxTick = 6
    MaxDialogs = 2
PROPERTIES TimeoutByWallClock
