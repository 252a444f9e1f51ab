CONSTANTS
  Item <- MCItem
  Columns <- MCColumns
  MaxRow = 3
  HeaderRows = {1}
SPECIFICATION Spec
INVARIANT AutoSpanFits
CHECK_DEADLOCK FALSE
