\* One agent's individual layer: signs of shown values.
SPECIFICATION Spec
CONSTANTS
  bond = bond
  trust = trust
  Key <- MCKey
  Evidence <- MCEvidence
  VALUE_STEP = 5
  MAX_TOTAL_MODULATION = 10
  STM_HORIZON = 2
  THRESH_S2 = 40
  THRESH_S3 = 100
  MIN_TICKS_S2 = 1
  MIN_TICKS_S3 = 1
  MIN_COHERENT_TICKS_S2 = 1
  MIN_COHERENT_TICKS_S3 = 1
  MIN_BELIEFS_S2 = 1
  MIN_BELIEFS_S3 = 1
  MEMORY_VOLUME_TARGET = 2
  STABILITY_TARGET = 2
  MaxShown = 1
  TICK_INTERVAL = 2
  MaxTick = 5
  MaxCount = 3
INVARIANT SignKept
CHECK_DEADLOCK FALSE
