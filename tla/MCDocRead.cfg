CONSTANTS
  d1 = d1
  d2 = d2
  f = f
  g = g
  out = out
  etc = etc
  func = func
  fig = fig
  NoText = NoText
  NoDoc = NoDoc
  Doc = {d1, d2}
  CFile = {f, g}
  Dir = {out, etc}
  Prohibited = {etc}
  Name = {func, fig}
  Label = {fig}
  Text <- MCText
  MaxBuild = 2
  MaxEdit = 2
SPECIFICATION Spec
INVARIANTS DocTypeOK StaleIsOutdated InventoryIsTrue
SYMMETRY Symm
CHECK_DEADLOCK FALSE
