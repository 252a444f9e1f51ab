CONSTANTS
  r1 = r1
  r2 = r2
  lower = lower
  mixed = mixed
  NoRun = NoRun
  Run = {r1, r2}
  Name = {lower, mixed}
  Lower <- MCLower
  Proto = {"FC", "SAS", "iSCSI", "SRP"}
  Fn <- MCFn
  Setting <- MCSetting
SPECIFICATION Spec
INVARIANTS TcmTypeOK FilesOfOneRun EntriesLead EntriesOnce OpsFound
PROPERTY ModuleKept
SYMMETRY Symm
CHECK_DEADLOCK FALSE
