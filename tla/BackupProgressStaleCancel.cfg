SPECIFICATION Spec
CONSTANTS
  CombinedRun = {c1}
  AutoRun = {a1}
  State = {s1, s2}
  None = None
SYMMETRY Symmetry
INVARIANT CancelledRunWasAskedToStop
