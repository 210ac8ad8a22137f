SPECIFICATION Spec
CONSTANTS
  CombinedRun = {c1, c2}
  AutoRun = {a1}
  State = {s1, s2, s3, s4}
  None = None
SYMMETRY Symmetry
INVARIANT TypeOK
INVARIANT CombinedCancelledOnlyIfAsked
INVARIANT CancelStopsTheBackup
PROPERTY CancelStaysOnDisplay
