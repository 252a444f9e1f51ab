CONSTANTS
  t1 = t1
  t2 = t2
  t3 = t3
  cpu0 = cpu0
  cpu1 = cpu1
  Task = {t1, t2, t3}
  FileList <- MCFileList
  Total = 3
  CheckNr = 2
  MaxTime = 5
  Gap = {1}
  MaxTrace = 2
  MaxRun = 2
SPECIFICATION FairSpec
INVARIANTS EventTypeOK PeriodsAreRuns FreshColumns TasksCounted OddIsReported
PROPERTY AllEnds
CHECK_DEADLOCK FALSE
