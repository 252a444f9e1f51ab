CONSTANTS
  d1 = d1
  d2 = d2
  net = net
  flow = flow
  dotcode = dotcode
  svgcode = svgcode
  x = x
  y = y
  z = z
  Doc = {d1, d2}
  Source = {net, flow}
  Code = {dotcode, svgcode}
  Base = {x, y, z}
  BaseOf <- MCBaseOf
  ExtOf <- MCExtOf
  Format = {"html", "latex", "text"}
  MaxBuild = 2
  MaxTime = 2
  MaxVersion = 2
SPECIFICATION Spec
INVARIANTS FigureTypeOK PicturesAreCurrent
PROPERTY MarkupKept
SYMMETRY Symm
CHECK_DEADLOCK FALSE
