CONSTANTS
  MaxPid = 3
  MaxRss = 1
  Threshold = {0}
SPECIFICATION Spec
INVARIANT RestoreRestores
