------------------------------ MODULE FlatTable ------------------------------
(***************************************************************************)
(* sphinx/rstFlatTable.py of the kernel documentation: the flat-table      *)
(* directive, which turns a list of lists of cells into a table.           *)
(*                                                                         *)
(* A cell may span further columns and rows.  ListTableBuilder puts a None *)
(* where a span covers the grid, into rows it has not come to yet and that *)
(* are still without the Nones of their own spans; it makes all rows as    *)
(* long as the longest, by stretching the last cell or by filling in empty *)
(* cells, and writes out what is not None.                                 *)
(*                                                                         *)
(* A cell is <<cspan, rspan, content>>; its content is <<row, number>> as  *)
(* the author wrote them, and Nothing for a cell the builder has added.    *)
(* Rows and columns count from 1.                                          *)
(***************************************************************************)
EXTENDS Naturals, Sequences, FiniteSets

CONSTANTS
  Item,         \* the list items there may be as rows
  MaxRow,       \* bound: rows of a table
  HeaderRows    \* values of the option header-rows

None == <<>>
Nothing == <<>>
CSpan(cell) == cell[1]
RSpan(cell) == cell[2]
Content(cell) == cell[3]

(* A row as written: how many second-level lists it has, whether anything  *)
(* else stands in it, and the spans of the cells of the list.              *)
ASSUME FlatTableAssumption ==
  /\ Item \subseteq [lists : Nat, other : BOOLEAN, cells : Seq(Nat \X Nat)]
  /\ \A i \in Item : i.cells # <<>>
  /\ MaxRow \in Nat /\ HeaderRows \subseteq Nat

VARIABLES
  item,         \* the directive's bullet list
  fill_cells,   \* is the option given?
  header_rows,  \* its value
  phase,        \* "parse", "span", "count", "fill", "build", "done", "error"
  rows,         \* self.rows
  x, y,         \* the place the loops are at
  max_cols,     \* self.max_cols
  thead, tbody  \* the rows of the table node

vars == <<item, fill_cells, header_rows, phase, rows, x, y, max_cols, thead, tbody>>
options == <<item, fill_cells, header_rows>>

Init ==
  /\ item \in UNION {[1 .. n -> Item] : n \in 0 .. MaxRow}
  /\ fill_cells \in BOOLEAN /\ header_rows \in HeaderRows
  /\ phase = "parse" /\ rows = <<>> /\ x = 1 /\ y = 1 /\ max_cols = 0
  /\ thead = <<>> /\ tbody = <<>>

(* raiseError, and run itself when there is no content                     *)
RaiseError ==
  /\ phase' = "error"
  /\ UNCHANGED <<options, rows, x, y, max_cols, thead, tbody>>

(* The directive has no content, or no list.                               *)
NoContent == phase = "parse" /\ item = <<>> /\ RaiseError

(* parseRowItem, parseCellItem: the cells of the row's only list           *)
ParsedRow(n) ==
  [i \in DOMAIN item[n].cells |-> <<item[n].cells[i][1], item[n].cells[i][2], <<n, i>> >>]

ParseRow ==
  /\ phase = "parse" /\ item # <<>>
  /\ item[y].lists = 1 /\ ~item[y].other
  /\ rows' = Append(rows, ParsedRow(y))
  /\ IF y < Len(item) THEN y' = y + 1 /\ phase' = phase
                      ELSE y' = 1 /\ phase' = "span"
  /\ UNCHANGED <<options, x, max_cols, thead, tbody>>

NotAList ==
  /\ phase = "parse" /\ item # <<>>
  /\ item[y].lists # 1 \/ item[y].other
  /\ RaiseError

----------------------------------------------------------------------------
(* roundOffTableDefinition: the Nones of spans                             *)

(* Mutant of InsertNones: the Nones are assigned, not inserted.            *)
AssignNones(row, i, n) ==
  LET k == IF i > Len(row) + 1 THEN Len(row) + 1 ELSE i IN
  SubSeq(row, 1, k - 1) \o [j \in 1 .. n |-> None] \o SubSeq(row, k + n, Len(row))

(* Python's row.insert(i, None), n times at i, i + 1, ...: behind the end  *)
(* of the list it appends.                                                 *)
InsertNones(row, i, n) ==
  LET k == IF i > Len(row) + 1 THEN Len(row) + 1 ELSE i IN
  SubSeq(row, 1, k - 1) \o [j \in 1 .. n |-> None] \o SubSeq(row, k, Len(row))

(* Mutant of Covered: the column the span starts in is forgotten in the    *)
(* rows below.                                                             *)
CoveredOneLess(cell, r) ==
  CASE r = y                              -> InsertNones(rows[r], x + 1, CSpan(cell))
    [] r > y /\ r <= y + RSpan(cell)      -> InsertNones(rows[r], x, CSpan(cell))
    [] OTHER                              -> rows[r]

(* Row r with the columns the cell at x, y covers in it.  Rows that are    *)
(* spanned below the last one do not exist, and need nothing.              *)
Covered(cell, r) ==
  CASE r = y                              -> InsertNones(rows[r], x + 1, CSpan(cell))
    [] r > y /\ r <= y + RSpan(cell)      -> InsertNones(rows[r], x, CSpan(cell) + 1)
    [] OTHER                              -> rows[r]

(* Mutant of SpanCell: a None is passed over without x += 1.               *)
SpanCellStuck ==
  /\ phase = "span" /\ y <= Len(rows) /\ x <= Len(rows[y])
  /\ rows[y][x] # None
  /\ rows' = [r \in DOMAIN rows |-> Covered(rows[y][x], r)]
  /\ x' = x + 1
  /\ UNCHANGED <<options, phase, y, max_cols, thead, tbody>>

(* The loop over x: a cell's spans, or a None.                             *)
SpanCell ==
  /\ phase = "span" /\ y <= Len(rows) /\ x <= Len(rows[y])
  /\ rows' = IF rows[y][x] = None THEN rows
             ELSE [r \in DOMAIN rows |-> Covered(rows[y][x], r)]
  /\ x' = x + 1
  /\ UNCHANGED <<options, phase, y, max_cols, thead, tbody>>

(* The loop over y                                                         *)
NextRow ==
  /\ phase = "span" /\ y <= Len(rows) /\ x > Len(rows[y])
  /\ x' = 1 /\ y' = y + 1
  /\ UNCHANGED <<options, phase, rows, max_cols, thead, tbody>>

AllSpanned ==
  /\ phase = "span" /\ y > Len(rows)
  /\ phase' = "count" /\ y' = 1
  /\ UNCHANGED <<options, rows, x, max_cols, thead, tbody>>

(* for row in self.rows: the longest row                                   *)
CountRow ==
  /\ phase = "count"
  /\ max_cols' = IF y <= Len(rows) /\ max_cols < Len(rows[y]) THEN Len(rows[y]) ELSE max_cols
  /\ IF y < Len(rows) THEN y' = y + 1 /\ phase' = phase
                      ELSE y' = 1 /\ phase' = "fill"
  /\ UNCHANGED <<options, rows, x, thead, tbody>>

----------------------------------------------------------------------------
(* roundOffTableDefinition: the missing cells on the right side            *)

(* n missing cells: the last cell spans them.  A row that ends with a None *)
(* gets a new cell for them.                                               *)
Stretched(row, n) ==
  LET last == row[Len(row)] IN
  IF last = None
  THEN Append(row, <<n - 1, 0, Nothing>>)
  ELSE [row EXCEPT ![Len(row)] = <<CSpan(last) + n, RSpan(last), Content(last)>>]

(* Mutant of Filled: one cell for all that are missing.                    *)
FilledOnce(row, n) == Append(row, <<0, 0, Nothing>>)

(* :fill-cells: n empty cells                                              *)
Filled(row, n) == row \o [i \in 1 .. n |-> <<0, 0, Nothing>>]

RoundOffRow ==
  LET missing == max_cols - Len(rows[y]) IN
  /\ phase = "fill"
  /\ rows' = CASE missing = 0                -> rows
               [] missing > 0 /\ ~fill_cells -> [rows EXCEPT ![y] = Stretched(@, missing)]
               [] missing > 0 /\ fill_cells  -> [rows EXCEPT ![y] = Filled(@, missing)]
  /\ IF y < Len(rows) THEN y' = y + 1 /\ phase' = phase
                      ELSE y' = 1 /\ phase' = "build"
  /\ UNCHANGED <<options, x, max_cols, thead, tbody>>

(* Mutant of Entries: Nones are written out as well.                       *)
EntriesAll(row) == row

(* buildTableRowNode: an entry for each cell, from left to right           *)
Entries(row) ==
  LET cells == {k \in DOMAIN row : row[k] # None}
      Nth(j) == CHOOSE k \in cells : Cardinality({l \in cells : l <= k}) = j
  IN [j \in 1 .. Cardinality(cells) |-> row[Nth(j)]]

(* get_column_widths: the option widths names another number of columns.   *)
WrongWidths == phase = "build" /\ y = 1 /\ RaiseError

(* buildTableNode: rows[:header_rows] to the head, rows[header_rows:] to   *)
(* the body                                                                *)
BuildRow ==
  /\ phase = "build" /\ y <= Len(rows)
  /\ IF y <= header_rows
     THEN thead' = Append(thead, Entries(rows[y])) /\ UNCHANGED tbody
     ELSE tbody' = Append(tbody, Entries(rows[y])) /\ UNCHANGED thead
  /\ y' = y + 1
  /\ UNCHANGED <<options, phase, rows, x, max_cols>>

TableBuilt ==
  /\ phase = "build" /\ y > Len(rows)
  /\ phase' = "done"
  /\ UNCHANGED <<options, rows, x, y, max_cols, thead, tbody>>

Next ==
  \/ NoContent \/ ParseRow \/ NotAList
  \/ SpanCell \/ NextRow \/ AllSpanned
  \/ CountRow \/ RoundOffRow
  \/ WrongWidths \/ BuildRow \/ TableBuilt

Spec == Init /\ [][Next]_vars

(* The directive runs until it returns.                                    *)
FairSpec == Spec /\ WF_vars(Next)

----------------------------------------------------------------------------
Cell == Nat \X Nat \X ((Nat \X Nat) \cup {Nothing})
Row == Seq(Cell \cup {None})

FlatTypeOK ==
  /\ item \in Seq(Item) /\ fill_cells \in BOOLEAN /\ header_rows \in HeaderRows
  /\ phase \in {"parse", "span", "count", "fill", "build", "done", "error"}
  /\ rows \in Seq(Row) /\ x \in Nat \ {0} /\ y \in Nat \ {0} /\ max_cols \in Nat
  /\ thead \in Seq(Seq(Cell)) /\ tbody \in Seq(Seq(Cell))

(* The cell the author wrote as number i of row n is in a row.             *)
Holds(row, n, i) == \E k \in DOMAIN row : row[k] # None /\ Content(row[k]) = <<n, i>>

(* Its cells stand in it in the order they were written in.                *)
InOrder(row) ==
  \A k, l \in DOMAIN row :
    k < l /\ row[k] # None /\ row[l] # None /\ Content(row[k]) # Nothing
          /\ Content(row[l]) # Nothing
      => Content(row[k])[2] < Content(row[l])[2]

(* While Nones are inserted and cells stretched, no cell of the author is  *)
(* lost, moved to another row, doubled or overtaken by its neighbours.     *)
CellsKept ==
  \A n \in DOMAIN rows :
    /\ \A i \in DOMAIN item[n].cells : Holds(rows[n], n, i)
    /\ \A k \in DOMAIN rows[n] :
         rows[n][k] # None /\ Content(rows[n][k]) # Nothing
           => /\ Content(rows[n][k])[1] = n
              /\ Content(rows[n][k])[2] \in DOMAIN item[n].cells
    /\ InOrder(rows[n])

(* With :fill-cells: the rows of a table that is written out have all one  *)
(* entry or None per column.                                               *)
RowsAreFull ==
  phase \in {"build", "done"} /\ fill_cells =>
    \A n \in DOMAIN rows : Len(rows[n]) = max_cols

(* A directive ends, with a table or an error: rows do not grow under the  *)
(* loops for ever.                                                         *)
TableEnds == <>(phase \in {"done", "error"})
=============================================================================
