\* Seven contents of a verdict and an edit of the rules that leaves a gap between
\* R1 and R2.
CONSTANTS
  Malformed = Malformed  NoFile = NoFile
  control1 = control1  drifted1 = drifted1  below1 = below1  margin1 = margin1
  gap1 = gap1  frozen1 = frozen1  broken1 = broken1
  Verdict <- MCVerdict
  By <- MCBy
  Objects <- MCObjects
  Frozen = {frozen1}
  Conforming <- MCObjects
  EditedRules <- MCEdited
  Quantities <- MCQuantities
  Claims <- MCClaims
SPECIFICATION Spec
INVARIANTS
  GreenMeansDerived
  ReportIsAnOutcome
CHECK_DEADLOCK FALSE
