CONSTANTS
  Board = {b1, b2}
  MaxLine = 2
  MaxSession = 2
  Reported <- AnyListing
SPECIFICATION Spec
SYMMETRY Symm
INVARIANTS TypeOK NothingMissing OwnResults BarrierHolds
PROPERTIES SettledResults Reports
CHECK_DEADLOCK FALSE
