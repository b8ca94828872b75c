\* Two arms and four contents of a verdict, every one of them written at most
\* once; any manifest.
CONSTANTS
  Malformed = Malformed  NoFile = NoFile  Torn = Torn
  control1 = control1  control2 = control2
  moved1 = moved1  frozen1 = frozen1
  Verdict <- MCVerdict
  By <- MCBy
  Objects <- MCVerdict
  Frozen <- MCFrozen
  Conforming <- MCConforming
SPECIFICATION Spec
PROPERTIES
  
  NoSilentReplacement
CHECK_DEADLOCK FALSE
