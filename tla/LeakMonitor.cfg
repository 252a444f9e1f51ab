CONSTANTS
  MaxPid = 3
  MaxRss = 1
  Threshold = {0}
SPECIFICATION FairSpec
INVARIANTS LeakTypeOK OneSetupIsUndone TestMeansReport LeakWasCollected EndReportIsNew
PROPERTY LeakNoticed
