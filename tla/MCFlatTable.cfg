CONSTANTS
  Item <- MCItem
  Columns <- MCColumns
  MaxRow = 3
  HeaderRows = {1}
SPECIFICATION FairSpec
INVARIANTS FlatTypeOK CellsKept RowsAreFull TilesGrid
PROPERTY TableEnds
CHECK_DEADLOCK FALSE
