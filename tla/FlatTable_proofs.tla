-------------------------- MODULE FlatTable_proofs --------------------------
(***************************************************************************)
(* Proofs about module FlatTable, for tables of any size and spans: no     *)
(* cell of the author is lost, moved or overtaken, rows get full, what is  *)
(* written out is cells, the loops over rows that grow come to an end, and *)
(* the entries cover the grid.                                             *)
(*                                                                         *)
(* What a step does to a row is to put Nones or empty cells into it, or to *)
(* stretch a cell.  Each is an embedding of the old row into the new one:  *)
(* a place for each old place, in the same order and with the same         *)
(* content, and nothing of the author's anywhere else (KeptMoved).         *)
(*                                                                         *)
(* The grid is counted: a row is as long as the cells that reach it span   *)
(* columns in it (GridInv).  In a layout without overlaps that many        *)
(* columns of the row are covered, and they are the first (FullRowsTile);  *)
(* the columns added at the ends of rows move no entry (SameColumns).      *)
(***************************************************************************)
EXTENDS FlatLayout, FiniteSetTheorems, FunctionTheorems, SequenceTheorems,
        WellFoundedInduction, TLAPS

(* The types without the entries written out.                              *)
Typed ==
  /\ item \in Seq(Item) /\ fill_cells \in BOOLEAN
  /\ phase \in {"parse", "span", "count", "fill", "build", "done", "error"}
  /\ rows \in Seq(Row) /\ x \in Nat \ {0} /\ y \in Nat \ {0} /\ max_cols \in Nat

(* Each row is of one item, and the loops stay inside the table.           *)
Flow ==
  /\ Len(rows) <= Len(item)
  /\ phase = "parse" => Len(rows) = y - 1 /\ (item # <<>> => y <= Len(item))
  /\ phase = "span" => 1 <= Len(rows)
  /\ phase \in {"count", "fill"} => y <= Len(rows)

RowsNotEmpty == \A n \in DOMAIN rows : rows[n] # <<>>

(* No row is longer than the longest; those behind the loop are as long.   *)
Widths ==
  /\ phase = "count" => \A n \in 1 .. y - 1 : Len(rows[n]) <= max_cols
  /\ phase = "fill" =>
       /\ \A n \in DOMAIN rows : Len(rows[n]) <= max_cols
       /\ fill_cells => \A n \in 1 .. y - 1 : Len(rows[n]) = max_cols
  /\ phase \in {"build", "done"} /\ fill_cells =>
       \A n \in DOMAIN rows : Len(rows[n]) = max_cols

(* CellsKept of one row, for the numbers D of the cells of its item.       *)
Kept(D, n, row) ==
  /\ \A i \in D : Holds(row, n, i)
  /\ \A k \in DOMAIN row :
       row[k] # None /\ Content(row[k]) # Nothing
         => Content(row[k])[1] = n /\ Content(row[k])[2] \in D
  /\ InOrder(row)
KeptRows == \A n \in DOMAIN rows : Kept(DOMAIN item[n].cells, n, rows[n])

FlatInv == Typed /\ Flow /\ RowsNotEmpty /\ KeptRows /\ Widths

(* What is written out has no Nones in it.                                 *)
TableTyped ==
  /\ header_rows \in HeaderRows
  /\ thead \in Seq(Seq(Cell)) /\ tbody \in Seq(Seq(Cell))

----------------------------------------------------------------------------
(* Cells, and the operators on rows.                                       *)

LEMMA CellIsNotNone ==
  ASSUME NEW c, NEW r, NEW v
  PROVE  /\ <<c, r, v>> # None
         /\ Content(<<c, r, v>>) = v
BY DEF None, Content

LEMMA CellType ==
  ASSUME NEW c \in Nat, NEW r \in Nat, NEW v \in (Nat \X Nat) \cup {Nothing}
  PROVE  <<c, r, v>> \in Cell
BY DEF Cell

LEMMA SpansOfCell ==
  ASSUME NEW cell \in Cell
  PROVE  /\ CSpan(cell) \in Nat /\ RSpan(cell) \in Nat
         /\ Content(cell) \in (Nat \X Nat) \cup {Nothing}
         /\ cell # None
BY DEF Cell, CSpan, RSpan, Content, None

LEMMA KeptMoved ==
  ASSUME NEW D, NEW n, NEW p, NEW q, Kept(D, n, p),
         NEW f \in [DOMAIN p -> DOMAIN q],
         DOMAIN p \subseteq Nat, DOMAIN q \subseteq Nat,
         \A k, l \in DOMAIN p : k < l => f[k] < f[l],
         \A k \in DOMAIN p :
           p[k] # None => q[f[k]] # None /\ Content(q[f[k]]) = Content(p[k]),
         \A j \in DOMAIN q :
           q[j] # None /\ Content(q[j]) # Nothing =>
             \E k \in DOMAIN p : f[k] = j /\ p[k] # None
  PROVE  Kept(D, n, q)
<1>1. \A i \in D : Holds(q, n, i)
  <2> SUFFICES ASSUME NEW i \in D PROVE Holds(q, n, i)
    OBVIOUS
  <2>1. PICK k \in DOMAIN p : p[k] # None /\ Content(p[k]) = <<n, i>>
    BY DEF Kept, Holds
  <2>. QED
    BY <2>1 DEF Holds
<1>2. \A j \in DOMAIN q : q[j] # None /\ Content(q[j]) # Nothing
        => Content(q[j])[1] = n /\ Content(q[j])[2] \in D
  BY DEF Kept
<1>3. InOrder(q)
  <2> SUFFICES ASSUME NEW a \in DOMAIN q, NEW b \in DOMAIN q, a < b,
                      q[a] # None, q[b] # None,
                      Content(q[a]) # Nothing, Content(q[b]) # Nothing
               PROVE  Content(q[a])[2] < Content(q[b])[2]
    BY DEF InOrder
  <2>1. PICK k \in DOMAIN p : f[k] = a /\ p[k] # None
    OBVIOUS
  <2>2. PICK l \in DOMAIN p : f[l] = b /\ p[l] # None
    OBVIOUS
  <2>3. Content(p[k]) = Content(q[a]) /\ Content(p[l]) = Content(q[b])
    BY <2>1, <2>2
  <2>4. k \in Nat /\ l \in Nat /\ k < l
    BY <2>1, <2>2
  <2>. QED
    BY <2>1, <2>2, <2>3, <2>4 DEF Kept, InOrder
<1>. QED
  BY <1>1, <1>2, <1>3 DEF Kept

LEMMA NonesProperties ==
  ASSUME NEW n \in Nat
  PROVE  LET nones == [j \in 1 .. n |-> None] IN
         nones \in Row /\ Len(nones) = n /\ \A j \in 1 .. n : nones[j] = None
BY DEF Row

LEMMA InsertProperties ==
  ASSUME NEW row \in Row, NEW i \in Nat \ {0}, NEW n \in Nat
  PROVE  LET k == IF i > Len(row) + 1 THEN Len(row) + 1 ELSE i
             new == InsertNones(row, i, n)
         IN /\ new \in Row /\ Len(new) = Len(row) + n
            /\ k \in 1 .. Len(row) + 1
            /\ \A j \in 1 .. k - 1 : new[j] = row[j]
            /\ \A j \in k .. k + n - 1 : new[j] = None
            /\ \A j \in k .. Len(row) : new[j + n] = row[j]
<1> DEFINE S == Cell \cup {None}
           k == IF i > Len(row) + 1 THEN Len(row) + 1 ELSE i
           head == SubSeq(row, 1, k - 1)
           nones == [j \in 1 .. n |-> None]
           tail == SubSeq(row, k, Len(row))
           new == InsertNones(row, i, n)
<1>1. Len(row) \in Nat /\ k \in 1 .. Len(row) + 1 /\ k \in Int /\ k - 1 \in Int /\ Len(row) \in Int
  BY LenProperties DEF Row
<1> HIDE DEF k
<1>2. \A j \in 1 .. Len(row) : row[j] \in S
  BY ElementOfSeq DEF Row
<1>3. /\ head \in Seq(S) /\ Len(head) = k - 1
      /\ \A j \in 1 .. k - 1 : head[j] = row[j]
  <2>1. \A j \in 1 .. k - 1 : row[j] \in S
    BY <1>1, <1>2
  <2>2. /\ head \in Seq(S) /\ Len(head) = IF 1 <= k - 1 THEN (k - 1) - 1 + 1 ELSE 0
        /\ \A j \in 1 .. (k - 1) - 1 + 1 : head[j] = row[1 + j - 1]
    BY ONLY <1>1, <2>1, SubSeqProperties
  <2>. QED
    BY <1>1, <2>2
<1>4. nones \in Seq(S) /\ Len(nones) = n /\ \A j \in 1 .. n : nones[j] = None
  BY NonesProperties DEF Row
<1>5. /\ tail \in Seq(S) /\ Len(tail) = Len(row) - k + 1
      /\ \A j \in 1 .. Len(row) - k + 1 : tail[j] = row[k + j - 1]
  <2>1. \A j \in k .. Len(row) : row[j] \in S
    BY <1>1, <1>2
  <2>2. /\ tail \in Seq(S) /\ Len(tail) = IF k <= Len(row) THEN Len(row) - k + 1 ELSE 0
        /\ \A j \in 1 .. Len(row) - k + 1 : tail[j] = row[k + j - 1]
    BY ONLY <1>1, <2>1, SubSeqProperties
  <2>. QED
    BY <1>1, <2>2
<1> HIDE DEF head, nones, tail
<1>6. /\ head \o nones \in Seq(S) /\ Len(head \o nones) = Len(head) + Len(nones)
      /\ \A j \in 1 .. Len(head) + Len(nones) :
           (head \o nones)[j] = IF j <= Len(head) THEN head[j] ELSE nones[j - Len(head)]
  BY ONLY <1>3, <1>4, ConcatProperties
<1>7. /\ (head \o nones) \o tail \in Seq(S)
      /\ Len((head \o nones) \o tail) = Len(head \o nones) + Len(tail)
      /\ \A j \in 1 .. Len(head \o nones) + Len(tail) :
           ((head \o nones) \o tail)[j] =
             IF j <= Len(head \o nones) THEN (head \o nones)[j] ELSE tail[j - Len(head \o nones)]
  BY ONLY <1>5, <1>6, ConcatProperties
<1>8. new = (head \o nones) \o tail
  BY DEF InsertNones, head, nones, tail, k
<1> HIDE DEF new
<1>9. new \in Row /\ Len(new) = Len(row) + n
  <2>1. new \in Seq(S) /\ Len(new) = Len(head) + Len(nones) + Len(tail)
    BY ONLY <1>6, <1>7, <1>8
  <2>2. Len(head) = k - 1 /\ Len(nones) = n /\ Len(tail) = Len(row) - k + 1
    BY <1>3, <1>4, <1>5
  <2>3. Len(new) = Len(row) + n
    BY ONLY <1>1, <2>1, <2>2, n \in Nat
  <2>. QED
    BY <2>1, <2>3 DEF Row
<1>10. \A j \in 1 .. k - 1 : new[j] = row[j]
  BY <1>1, <1>3, <1>4, <1>5, <1>6, <1>7, <1>8
<1>11. \A j \in k .. k + n - 1 : new[j] = None
  <2> SUFFICES ASSUME NEW j \in k .. k + n - 1 PROVE new[j] = None
    OBVIOUS
  <2>1. j \in 1 .. Len(head) + Len(nones) /\ ~(j <= Len(head)) /\ j - Len(head) \in 1 .. n
    BY <1>1, <1>3, <1>4
  <2>2. (head \o nones)[j] = None
    BY <2>1, <1>6, <1>4
  <2>. QED
    BY <1>1, <1>3, <1>4, <1>5, <1>6, <1>7, <1>8, <2>1, <2>2
<1>12. \A j \in k .. Len(row) : new[j + n] = row[j]
  <2> SUFFICES ASSUME NEW j \in k .. Len(row) PROVE new[j + n] = row[j]
    OBVIOUS
  <2>1. Len(head \o nones) = k - 1 + n
    BY <1>3, <1>4, <1>6
  <2>2. /\ j + n \in 1 .. Len(head \o nones) + Len(tail)
        /\ ~(j + n <= Len(head \o nones))
        /\ j + n - Len(head \o nones) = j - k + 1 /\ j - k + 1 \in 1 .. Len(row) - k + 1
    BY <1>1, <1>5, <2>1
  <2>3. tail[j - k + 1] = row[k + (j - k + 1) - 1] /\ k + (j - k + 1) - 1 = j
    BY <1>1, <1>5, <2>2
  <2>. QED
    BY <1>7, <1>8, <2>2, <2>3
<1>. QED
  BY <1>1, <1>9, <1>10, <1>11, <1>12 DEF k, new

LEMMA InsertKeeps ==
  ASSUME NEW D, NEW m, NEW row \in Row, NEW i \in Nat \ {0}, NEW n \in Nat,
         Kept(D, m, row)
  PROVE  Kept(D, m, InsertNones(row, i, n))
<1> DEFINE k == IF i > Len(row) + 1 THEN Len(row) + 1 ELSE i
           new == InsertNones(row, i, n)
           f == [j \in DOMAIN row |-> IF j < k THEN j ELSE j + n]
<1>1. Len(row) \in Nat /\ DOMAIN row = 1 .. Len(row)
  BY LenProperties DEF Row
<1>2. /\ new \in Row /\ Len(new) = Len(row) + n
      /\ k \in 1 .. Len(row) + 1
      /\ \A j \in 1 .. k - 1 : new[j] = row[j]
      /\ \A j \in k .. k + n - 1 : new[j] = None
      /\ \A j \in k .. Len(row) : new[j + n] = row[j]
  BY InsertProperties
<1>3. DOMAIN new = 1 .. Len(row) + n
  BY <1>2, LenProperties DEF Row
<1> HIDE DEF k, new
<1>4. f \in [DOMAIN row -> DOMAIN new] /\ \A j, l \in DOMAIN row : j < l => f[j] < f[l]
  BY <1>1, <1>2, <1>3
<1>5. \A j \in DOMAIN row : new[f[j]] = row[j]
  BY <1>1, <1>2, <1>3
<1>6. \A j \in DOMAIN new : new[j] # None => \E l \in DOMAIN row : f[l] = j
  <2> SUFFICES ASSUME NEW j \in DOMAIN new, new[j] # None
               PROVE  \E l \in DOMAIN row : f[l] = j
    OBVIOUS
  <2>1. j \in 1 .. k - 1 \/ j \in k + n .. Len(row) + n
    BY <1>1, <1>2, <1>3
  <2>2. CASE j \in 1 .. k - 1
    BY <1>1, <1>2, <2>2
  <2>3. CASE j \in k + n .. Len(row) + n
    <3>1. j - n \in DOMAIN row /\ ~(j - n < k) /\ (j - n) + n = j
      BY <1>1, <1>2, <2>3
    <3>. QED
      BY <3>1
  <2>. QED
    BY <2>1, <2>2, <2>3
<1> HIDE DEF f
<1>7. \A j \in DOMAIN new : new[j] # None /\ Content(new[j]) # Nothing =>
        \E l \in DOMAIN row : f[l] = j /\ row[l] # None
  BY <1>5, <1>6
<1>8. DOMAIN row \subseteq Nat /\ DOMAIN new \subseteq Nat
  BY <1>1, <1>3
<1>. QED
  BY <1>4, <1>5, <1>7, <1>8, KeptMoved DEF new

(* A row that is longer, and the same where it was, but for the spans of a *)
(* cell.                                                                   *)
LEMMA LongerKeeps ==
  ASSUME NEW D, NEW m, NEW row \in Row, NEW new \in Row, Kept(D, m, row),
         Len(row) <= Len(new),
         \A j \in 1 .. Len(row) : row[j] # None =>
           new[j] # None /\ Content(new[j]) = Content(row[j]),
         \A j \in 1 .. Len(new) : new[j] # None /\ Content(new[j]) # Nothing =>
           j <= Len(row) /\ row[j] # None
  PROVE  Kept(D, m, new)
<1> DEFINE f == [j \in DOMAIN row |-> j]
<1>1. /\ Len(row) \in Nat /\ DOMAIN row = 1 .. Len(row)
      /\ Len(new) \in Nat /\ DOMAIN new = 1 .. Len(new)
  BY LenProperties DEF Row
<1>2. f \in [DOMAIN row -> DOMAIN new] /\ \A j, l \in DOMAIN row : j < l => f[j] < f[l]
  BY <1>1
<1>3. \A j \in DOMAIN row : row[j] # None => new[f[j]] # None /\ Content(new[f[j]]) = Content(row[j])
  BY <1>1
<1>4. \A j \in DOMAIN new : new[j] # None /\ Content(new[j]) # Nothing =>
        \E l \in DOMAIN row : f[l] = j /\ row[l] # None
  <2> SUFFICES ASSUME NEW j \in DOMAIN new, new[j] # None, Content(new[j]) # Nothing
               PROVE  \E l \in DOMAIN row : f[l] = j /\ row[l] # None
    OBVIOUS
  <2>1. j \in DOMAIN row /\ row[j] # None /\ f[j] = j
    BY <1>1
  <2>. QED
    BY <2>1
<1>5. DOMAIN row \subseteq Nat /\ DOMAIN new \subseteq Nat
  BY <1>1
<1> HIDE DEF f
<1>. QED
  BY <1>2, <1>3, <1>4, <1>5, KeptMoved

(* A row as it is parsed.                                                  *)
LEMMA ParsedProperties ==
  ASSUME item \in Seq(Item), NEW n \in 1 .. Len(item)
  PROVE  /\ ParsedRow(n) \in Row /\ ParsedRow(n) # <<>>
         /\ Kept(DOMAIN item[n].cells, n, ParsedRow(n))
<1> DEFINE cells == item[n].cells
           row == ParsedRow(n)
<1>1. cells \in Seq(Nat \X Nat) /\ cells # <<>>
  <2>1. item[n] \in Item
    BY ElementOfSeq
  <2>. QED
    BY <2>1, FlatTableAssumption
<1>2. Len(cells) \in Nat \ {0} /\ DOMAIN cells = 1 .. Len(cells)
  BY <1>1, LenProperties, EmptySeq
<1>3. n \in Nat
  BY LenProperties
<1>4. row = [i \in 1 .. Len(cells) |-> <<cells[i][1], cells[i][2], <<n, i>> >>]
  BY <1>2 DEF ParsedRow
<1> HIDE DEF cells, row
<1>5. \A i \in 1 .. Len(cells) : /\ row[i] = <<cells[i][1], cells[i][2], <<n, i>> >>
                                 /\ row[i] \in Cell
  <2> SUFFICES ASSUME NEW i \in 1 .. Len(cells)
               PROVE  <<cells[i][1], cells[i][2], <<n, i>> >> \in Cell
    BY <1>4
  <2>1. cells[i] \in Nat \X Nat
    BY <1>1, ElementOfSeq
  <2>2. cells[i][1] \in Nat /\ cells[i][2] \in Nat /\ <<n, i>> \in Nat \X Nat
    BY <1>2, <1>3, <2>1
  <2>. QED
    BY <2>2, CellType
<1>6. row \in [1 .. Len(cells) -> Cell \cup {None}]
  BY <1>4, <1>5
<1>7. row \in Row /\ Len(row) = Len(cells) /\ DOMAIN row = 1 .. Len(cells)
  BY <1>2, <1>6 DEF Row
<1>8. row # <<>>
  BY <1>2, <1>7, EmptySeq DEF Row
<1>9. \A i \in 1 .. Len(cells) : row[i] # None /\ Content(row[i]) = <<n, i>>
  <2> SUFFICES ASSUME NEW i \in 1 .. Len(cells)
               PROVE  row[i] # None /\ Content(row[i]) = <<n, i>>
    OBVIOUS
  <2>1. row[i] = <<cells[i][1], cells[i][2], <<n, i>> >>
    BY <1>5
  <2>. QED
    BY <2>1, CellIsNotNone
<1>10. Kept(1 .. Len(cells), n, row)
  <2>1. \A i \in 1 .. Len(cells) : Holds(row, n, i)
    BY <1>7, <1>9 DEF Holds
  <2>2. InOrder(row)
    BY <1>2, <1>7, <1>9 DEF InOrder
  <2>. QED
    BY <1>7, <1>9, <2>1, <2>2 DEF Kept
<1>. QED
  BY <1>2, <1>7, <1>8, <1>10 DEF cells, row

(* The last cell stretched, or a new one behind a None.                    *)
LEMMA StretchedProperties ==
  ASSUME NEW row \in Row, row # <<>>, NEW n \in Nat \ {0}
  PROVE  /\ Stretched(row, n) \in Row /\ Stretched(row, n) # <<>>
         /\ Len(Stretched(row, n)) <= Len(row) + n
         /\ \A j \in 1 .. Len(row) - 1 : Stretched(row, n)[j] = row[j]
         /\ row[Len(row)] = None =>
              /\ Len(Stretched(row, n)) = Len(row) + 1 /\ Stretched(row, n)[Len(row)] = None
              /\ Stretched(row, n)[Len(row) + 1] = <<n - 1, 0, Nothing>>
         /\ row[Len(row)] # None =>
              /\ Len(Stretched(row, n)) = Len(row)
              /\ Stretched(row, n)[Len(row)] =
                   <<CSpan(row[Len(row)]) + n, RSpan(row[Len(row)]), Content(row[Len(row)])>>
         /\ \A D, m : Kept(D, m, row) => Kept(D, m, Stretched(row, n))
<1> DEFINE new == Stretched(row, n)
           last == row[Len(row)]
           S == Cell \cup {None}
<1>1. Len(row) \in Nat \ {0} /\ DOMAIN row = 1 .. Len(row) /\ row \in Seq(S)
  BY LenProperties, EmptySeq DEF Row
<1>2. last \in S
  BY <1>1, ElementOfSeq
<1> HIDE DEF last
<1>3. CASE last = None
  <2> DEFINE cell == <<n - 1, 0, Nothing>>
  <2>1. new = Append(row, cell)
    BY <1>3 DEF Stretched, last
  <2>2. cell \in Cell /\ cell # None /\ Content(cell) = Nothing
    BY CellType, CellIsNotNone
  <2> HIDE DEF cell, new
  <2>3. /\ new \in Seq(S) /\ new # <<>> /\ Len(new) = Len(row) + 1
        /\ \A i \in 1 .. Len(row) : new[i] = row[i]
        /\ new[Len(row) + 1] = cell
    BY <1>1, <2>1, <2>2, AppendProperties
  <2>4. new \in Row
    BY <2>3 DEF Row
  <2>5. ASSUME NEW D, NEW m, Kept(D, m, row)
        PROVE  Kept(D, m, new)
    <3>1. \A j \in 1 .. Len(row) : row[j] # None =>
            new[j] # None /\ Content(new[j]) = Content(row[j])
      BY <2>3
    <3>2. \A j \in 1 .. Len(new) : new[j] # None /\ Content(new[j]) # Nothing =>
            j <= Len(row) /\ row[j] # None
      BY <1>1, <2>2, <2>3
    <3>. QED
      BY <1>1, <2>3, <2>4, <2>5, <3>1, <3>2, LongerKeeps
  <2>6. /\ \A j \in 1 .. Len(row) - 1 : new[j] = row[j]
        /\ new[Len(row)] = None /\ new[Len(row) + 1] = <<n - 1, 0, Nothing>>
    BY <1>1, <1>3, <2>3 DEF cell, last
  <2>7. Len(new) <= Len(row) + n
    BY <1>1, <2>3
  <2>. QED
    BY <1>3, <2>3, <2>4, <2>5, <2>6, <2>7 DEF new, last
<1>4. CASE last # None
  <2> DEFINE cell == <<CSpan(last) + n, RSpan(last), Content(last)>>
  <2>1. new = [row EXCEPT ![Len(row)] = cell]
    BY <1>4 DEF Stretched, last
  <2>2. cell \in Cell /\ cell # None /\ Content(cell) = Content(last)
    BY <1>2, <1>4, SpansOfCell, CellType, CellIsNotNone
  <2> HIDE DEF cell, new
  <2>3. /\ new \in Seq(S)
        /\ \A i \in 1 .. Len(row) : new[i] = IF i = Len(row) THEN cell ELSE row[i]
    BY <1>1, <2>1, <2>2, ExceptSeq
  <2>6. Len(new) = Len(row)
    BY <1>1, <2>1, <2>2, ExceptSeq
  <2>4. new \in Row /\ new # <<>>
    BY <1>1, <2>3, <2>6, EmptySeq DEF Row
  <2>5. ASSUME NEW D, NEW m, Kept(D, m, row)
        PROVE  Kept(D, m, new)
    <3>1. \A j \in 1 .. Len(row) : row[j] # None =>
            new[j] # None /\ Content(new[j]) = Content(row[j])
      BY <2>2, <2>3 DEF last
    <3>2. \A j \in 1 .. Len(new) : new[j] # None /\ Content(new[j]) # Nothing =>
            j <= Len(row) /\ row[j] # None
      <4> SUFFICES ASSUME NEW j \in 1 .. Len(row), new[j] # None PROVE row[j] # None
        BY <1>1, <2>6
      <4>1. CASE j = Len(row)
        BY <1>4, <4>1 DEF last
      <4>2. CASE j # Len(row)
        BY <2>3, <4>2
      <4>. QED
        BY <4>1, <4>2
    <3>3. Len(row) <= Len(new)
      BY <1>1, <2>6
    <3>. QED
      BY <2>4, <2>5, <3>1, <3>2, <3>3, LongerKeeps
  <2>7. /\ \A j \in 1 .. Len(row) - 1 : new[j] = row[j]
        /\ new[Len(row)] = <<CSpan(last) + n, RSpan(last), Content(last)>>
    <3> DEFINE l == Len(row)
    <3>1. l \in Nat \ {0} /\ \A i \in 1 .. l : new[i] = IF i = l THEN cell ELSE row[i]
      BY <1>1, <2>3
    <3> HIDE DEF l
    <3>2. l \in 1 .. l /\ \A j \in 1 .. l - 1 : j \in 1 .. l /\ j # l
      BY <3>1
    <3>3. new[l] = cell /\ \A j \in 1 .. l - 1 : new[j] = row[j]
      BY <3>1, <3>2
    <3>. QED
      BY <3>3 DEF cell, l
  <2>8. Len(new) <= Len(row) + n
    BY <1>1, <2>6
  <2>. QED
    BY <1>4, <2>4, <2>5, <2>6, <2>7, <2>8 DEF new, last
<1>. QED
  BY <1>3, <1>4

(* Empty cells filled in.                                                  *)
LEMMA FilledProperties ==
  ASSUME NEW row \in Row, row # <<>>, NEW n \in Nat \ {0}
  PROVE  /\ Filled(row, n) \in Row /\ Filled(row, n) # <<>>
         /\ Len(Filled(row, n)) = Len(row) + n
         /\ \A j \in 1 .. Len(row) : Filled(row, n)[j] = row[j]
         /\ \A j \in Len(row) + 1 .. Len(row) + n : Filled(row, n)[j] = <<0, 0, Nothing>>
         /\ \A D, m : Kept(D, m, row) => Kept(D, m, Filled(row, n))
<1> DEFINE new == Filled(row, n)
           S == Cell \cup {None}
           cell == <<0, 0, Nothing>>
           cells == [i \in 1 .. n |-> cell]
<1>1. Len(row) \in Nat \ {0} /\ row \in Seq(S)
  BY LenProperties, EmptySeq DEF Row
<1>2. cell \in Cell /\ Content(cell) = Nothing
  BY CellType, CellIsNotNone
<1>3. new = row \o cells
  BY DEF Filled
<1> HIDE DEF cell, new
<1>4. cells \in Seq(S) /\ Len(cells) = n /\ \A i \in 1 .. n : cells[i] = cell
  BY <1>2
<1> HIDE DEF cells
<1>5. /\ new \in Seq(S) /\ Len(new) = Len(row) + Len(cells)
      /\ \A i \in 1 .. Len(row) + Len(cells) :
           new[i] = IF i <= Len(row) THEN row[i] ELSE cells[i - Len(row)]
  BY ONLY <1>1, <1>3, <1>4, ConcatProperties
<1>6. new \in Row /\ Len(new) = Len(row) + n /\ new # <<>>
  BY <1>1, <1>4, <1>5, EmptySeq DEF Row
<1>7. /\ \A j \in 1 .. Len(row) : new[j] = row[j]
      /\ \A j \in Len(row) + 1 .. Len(new) : new[j] = cell
  BY <1>1, <1>4, <1>5, <1>6
<1>8. ASSUME NEW D, NEW m, Kept(D, m, row)
      PROVE  Kept(D, m, new)
  <2>1. \A j \in 1 .. Len(new) : new[j] # None /\ Content(new[j]) # Nothing =>
          j <= Len(row) /\ row[j] # None
    BY <1>1, <1>2, <1>6, <1>7
  <2>. QED
    BY <1>1, <1>6, <1>7, <1>8, <2>1, LongerKeeps
<1>9. \A j \in Len(row) + 1 .. Len(row) + n : new[j] = <<0, 0, Nothing>>
  BY <1>6, <1>7 DEF cell
<1>. QED
  BY <1>6, <1>7, <1>8, <1>9 DEF new

----------------------------------------------------------------------------
(* The steps.                                                              *)

LEMMA InitInv == Init => FlatInv
<1> SUFFICES ASSUME Init PROVE FlatInv
  OBVIOUS
<1>1. item \in Seq(Item)
  <2>1. PICK n \in 0 .. MaxRow : item \in [1 .. n -> Item]
    BY DEF Init
  <2>2. n \in Nat
    BY FlatTableAssumption
  <2>. QED
    BY <2>1, <2>2
<1>2. rows = <<>> /\ rows \in Seq(Row) /\ Len(rows) = 0 /\ DOMAIN rows = {}
  BY EmptySeq DEF Init
<1>3. Len(item) \in Nat /\ (item # <<>> => Len(item) \in Nat \ {0})
  BY <1>1, LenProperties, EmptySeq
<1>4. Typed
  BY <1>1, <1>2 DEF Typed, Init
<1>5. Flow
  BY <1>2, <1>3 DEF Flow, Init
<1>. QED
  BY <1>2, <1>4, <1>5 DEF FlatInv, RowsNotEmpty, KeptRows, Widths, Init

LEMMA RowsTyped ==
  ASSUME Typed
  PROVE  /\ Len(rows) \in Nat /\ DOMAIN rows = 1 .. Len(rows)
         /\ Len(item) \in Nat /\ DOMAIN item = 1 .. Len(item)
         /\ \A n \in DOMAIN rows : rows[n] \in Row /\ Len(rows[n]) \in Nat
<1>1. /\ Len(rows) \in Nat /\ DOMAIN rows = 1 .. Len(rows)
      /\ Len(item) \in Nat /\ DOMAIN item = 1 .. Len(item)
  BY LenProperties DEF Typed
<1>2. \A n \in DOMAIN rows : rows[n] \in Row
  BY <1>1, ElementOfSeq DEF Typed
<1>. QED
  BY <1>1, <1>2, LenProperties DEF Row

LEMMA ParseRowKeeps == FlatInv /\ ParseRow => FlatInv'
<1> SUFFICES ASSUME FlatInv, ParseRow PROVE FlatInv'
  OBVIOUS
<1>1. Typed /\ Flow /\ RowsNotEmpty /\ KeptRows
  BY DEF FlatInv
<1>2. /\ Len(rows) \in Nat /\ DOMAIN rows = 1 .. Len(rows) /\ Len(item) \in Nat
      /\ rows \in Seq(Row) /\ y \in Nat \ {0} /\ item \in Seq(Item)
  BY <1>1, RowsTyped DEF Typed
<1>3. y \in 1 .. Len(item) /\ Len(rows) = y - 1
  BY <1>1, <1>2 DEF ParseRow, Flow
<1>4. /\ ParsedRow(y) \in Row /\ ParsedRow(y) # <<>>
      /\ Kept(DOMAIN item[y].cells, y, ParsedRow(y))
  BY <1>2, <1>3, ParsedProperties
<1>5. /\ rows' = Append(rows, ParsedRow(y)) /\ UNCHANGED <<item, fill_cells, x, max_cols>>
      /\ (y < Len(item) /\ y' = y + 1 /\ phase' = "parse") \/
         (~(y < Len(item)) /\ y' = 1 /\ phase' = "span")
  BY DEF ParseRow, options
<1>6. /\ rows' \in Seq(Row) /\ Len(rows') = Len(rows) + 1
      /\ \A n \in 1 .. Len(rows) : rows'[n] = rows[n]
      /\ rows'[Len(rows) + 1] = ParsedRow(y)
  BY <1>2, <1>4, <1>5, AppendProperties
<1>7. DOMAIN rows' = 1 .. Len(rows) + 1
  BY <1>6, LenProperties
<1>8. Typed'
  BY <1>1, <1>2, <1>5, <1>6 DEF Typed
<1>9. Flow'
  BY <1>2, <1>3, <1>5, <1>6 DEF Flow
<1>10. RowsNotEmpty'
  BY <1>1, <1>2, <1>4, <1>6, <1>7 DEF RowsNotEmpty
<1>11. KeptRows'
  <2> SUFFICES ASSUME NEW n \in 1 .. Len(rows) + 1
               PROVE  Kept(DOMAIN item[n].cells, n, rows'[n])
    BY <1>5, <1>7 DEF KeptRows, Kept, Holds, InOrder
  <2>1. CASE n \in 1 .. Len(rows)
    BY <1>1, <1>2, <1>6, <2>1 DEF KeptRows
  <2>2. CASE n = Len(rows) + 1
    BY <1>2, <1>3, <1>4, <1>6, <2>2
  <2>. QED
    BY <1>2, <2>1, <2>2
<1>12. Widths'
  BY <1>5 DEF Widths
<1>. QED
  BY <1>8, <1>9, <1>10, <1>11, <1>12 DEF FlatInv

LEMMA SpanCellKeeps == FlatInv /\ SpanCell => FlatInv'
<1> SUFFICES ASSUME FlatInv, SpanCell PROVE FlatInv'
  OBVIOUS
<1>1. Typed /\ Flow /\ RowsNotEmpty /\ KeptRows
  BY DEF FlatInv
<1>2. /\ Len(rows) \in Nat /\ DOMAIN rows = 1 .. Len(rows) /\ y \in DOMAIN rows
      /\ x \in Nat \ {0} /\ x <= Len(rows[y])
      /\ \A n \in DOMAIN rows : rows[n] \in Row /\ Len(rows[n]) \in Nat
  BY <1>1, RowsTyped DEF Typed, SpanCell
<1>3. /\ phase = "span" /\ x' = x + 1
      /\ UNCHANGED <<item, fill_cells, phase, y, max_cols>>
  BY DEF SpanCell, options
<1>4. CASE rows[y][x] = None
  <2>1. rows' = rows
    BY <1>4 DEF SpanCell
  <2>2. Typed' /\ Flow' /\ RowsNotEmpty' /\ KeptRows'
    BY <1>1, <1>2, <1>3, <2>1 DEF Typed, Flow, RowsNotEmpty, KeptRows, Kept, Holds, InOrder
  <2>. QED
    BY <1>3, <2>2 DEF FlatInv, Widths
<1>5. CASE rows[y][x] # None
  <2> DEFINE cell == rows[y][x]
  <2>1. cell \in Cell
    <3>1. rows[y] \in Seq(Cell \cup {None}) /\ x \in 1 .. Len(rows[y])
      BY <1>2 DEF Row
    <3>. QED
      BY <1>5, <3>1, ElementOfSeq
  <2>2. CSpan(cell) \in Nat /\ RSpan(cell) \in Nat
    BY <2>1, SpansOfCell
  <2>3. rows' = [r \in DOMAIN rows |-> Covered(cell, r)]
    BY <1>5 DEF SpanCell
  <2> HIDE DEF cell
  <2>4. ASSUME NEW r \in DOMAIN rows
        PROVE  /\ Covered(cell, r) \in Row /\ Covered(cell, r) # <<>>
               /\ Kept(DOMAIN item[r].cells, r, Covered(cell, r))
    <3>1. rows[r] \in Row /\ rows[r] # <<>> /\ Kept(DOMAIN item[r].cells, r, rows[r])
      BY <1>1, <1>2, <2>4 DEF RowsNotEmpty, KeptRows
    <3>2. \/ Covered(cell, r) = InsertNones(rows[r], x + 1, CSpan(cell))
          \/ Covered(cell, r) = InsertNones(rows[r], x, CSpan(cell) + 1)
          \/ Covered(cell, r) = rows[r]
      BY DEF Covered
    <3>3. ASSUME NEW i \in Nat \ {0}, NEW n \in Nat
          PROVE  /\ InsertNones(rows[r], i, n) \in Row /\ InsertNones(rows[r], i, n) # <<>>
                 /\ Kept(DOMAIN item[r].cells, r, InsertNones(rows[r], i, n))
      <4>1. InsertNones(rows[r], i, n) \in Row /\ Len(InsertNones(rows[r], i, n)) = Len(rows[r]) + n
        BY <3>1, InsertProperties
      <4>2. Len(rows[r]) \in Nat \ {0}
        BY <3>1, EmptySeq DEF Row
      <4>3. InsertNones(rows[r], i, n) # <<>>
        BY <4>1, <4>2, EmptySeq
      <4>. QED
        BY <3>1, <4>1, <4>3, InsertKeeps
    <3>4. x + 1 \in Nat \ {0} /\ CSpan(cell) + 1 \in Nat
      BY <1>2, <2>2
    <3>. QED
      BY <1>2, <2>2, <3>1, <3>2, <3>3, <3>4
  <2>5. DOMAIN rows' = DOMAIN rows /\ \A r \in DOMAIN rows : rows'[r] = Covered(cell, r)
    BY <2>3
  <2>6. rows' \in Seq(Row) /\ Len(rows') = Len(rows)
    <3>1. rows' \in [1 .. Len(rows) -> Row]
      BY <1>2, <2>3, <2>4
    <3>. QED
      BY <1>2, <3>1
  <2>7. Typed'
    BY <1>1, <1>2, <1>3, <2>6 DEF Typed
  <2>8. Flow'
    BY <1>1, <1>3, <2>6 DEF Flow
  <2>9. RowsNotEmpty'
    BY <2>4, <2>5 DEF RowsNotEmpty
  <2>10. KeptRows'
    <3> SUFFICES ASSUME NEW n \in DOMAIN rows
                 PROVE  Kept(DOMAIN item[n].cells, n, rows'[n])
      BY <1>3, <2>5 DEF KeptRows, Kept, Holds, InOrder
    <3>. QED
      BY <2>4, <2>5
  <2>. QED
    BY <1>3, <2>7, <2>8, <2>9, <2>10 DEF FlatInv, Widths
<1>. QED
  BY <1>4, <1>5

LEMMA CountRowKeeps == FlatInv /\ CountRow => FlatInv'
<1> SUFFICES ASSUME FlatInv, CountRow PROVE FlatInv'
  OBVIOUS
<1>1. Typed /\ Flow /\ RowsNotEmpty /\ KeptRows /\ Widths
  BY DEF FlatInv
<1>2. /\ Len(rows) \in Nat /\ DOMAIN rows = 1 .. Len(rows)
      /\ \A n \in DOMAIN rows : Len(rows[n]) \in Nat
      /\ y \in Nat \ {0} /\ max_cols \in Nat
  BY <1>1, RowsTyped DEF Typed
<1>3. /\ phase = "count" /\ UNCHANGED <<item, fill_cells, rows, x>>
      /\ max_cols' = IF y <= Len(rows) /\ max_cols < Len(rows[y]) THEN Len(rows[y]) ELSE max_cols
      /\ (y < Len(rows) /\ y' = y + 1 /\ phase' = "count") \/
         (~(y < Len(rows)) /\ y' = 1 /\ phase' = "fill")
  BY DEF CountRow, options
<1>4. y \in 1 .. Len(rows)
  BY <1>1, <1>2, <1>3 DEF Flow
<1>5. max_cols' \in Nat /\ max_cols <= max_cols' /\ Len(rows[y]) <= max_cols'
  BY <1>2, <1>3, <1>4
<1>6. \A n \in 1 .. y : Len(rows[n]) <= max_cols'
  BY <1>1, <1>2, <1>3, <1>4, <1>5 DEF Widths
<1>7. Typed' /\ Flow'
  BY <1>1, <1>2, <1>3, <1>4, <1>5 DEF Typed, Flow
<1>8. RowsNotEmpty' /\ KeptRows'
  BY <1>1, <1>3 DEF RowsNotEmpty, KeptRows, Kept, Holds, InOrder
<1>9. Widths'
  <2>1. CASE phase' = "count" /\ y' = y + 1
    BY <1>2, <1>3, <1>6, <2>1 DEF Widths
  <2>2. CASE phase' = "fill" /\ y' = 1 /\ y = Len(rows)
    BY <1>2, <1>3, <1>6, <2>2 DEF Widths
  <2>3. y < Len(rows) \/ y = Len(rows)
    <3>1. y \in Nat /\ Len(rows) \in Nat /\ y <= Len(rows)
      BY <1>2, <1>4
    <3>. QED
      BY ONLY <3>1
  <2>4. ~(Len(rows) < Len(rows))
    BY <1>2
  <2>. QED
    BY <1>3, <2>1, <2>2, <2>3, <2>4
<1>. QED
  BY <1>7, <1>8, <1>9 DEF FlatInv

LEMMA RoundOffRowKeeps == FlatInv /\ RoundOffRow => FlatInv'
<1> SUFFICES ASSUME FlatInv, RoundOffRow PROVE FlatInv'
  OBVIOUS
<1> DEFINE missing == max_cols - Len(rows[y])
<1>1. Typed /\ Flow /\ RowsNotEmpty /\ KeptRows /\ Widths
  BY DEF FlatInv
<1>2. /\ Len(rows) \in Nat /\ DOMAIN rows = 1 .. Len(rows) /\ rows \in Seq(Row)
      /\ \A n \in DOMAIN rows : rows[n] \in Row /\ Len(rows[n]) \in Nat
      /\ y \in Nat \ {0} /\ max_cols \in Nat /\ fill_cells \in BOOLEAN
  BY <1>1, RowsTyped DEF Typed
<1>3. /\ phase = "fill" /\ UNCHANGED <<item, fill_cells, x, max_cols>>
      /\ rows' = CASE missing = 0                -> rows
                   [] missing > 0 /\ ~fill_cells -> [rows EXCEPT ![y] = Stretched(@, missing)]
                   [] missing > 0 /\ fill_cells  -> [rows EXCEPT ![y] = Filled(@, missing)]
      /\ (y < Len(rows) /\ y' = y + 1 /\ phase' = "fill") \/
         (~(y < Len(rows)) /\ y' = 1 /\ phase' = "build")
  BY DEF RoundOffRow, options
<1>4. y \in 1 .. Len(rows) /\ missing \in Nat /\ Len(rows[y]) + missing = max_cols
  BY <1>1, <1>2, <1>3 DEF Flow, Widths
<1>5. rows[y] \in Row /\ rows[y] # <<>> /\ Kept(DOMAIN item[y].cells, y, rows[y])
  BY <1>1, <1>2, <1>4 DEF RowsNotEmpty, KeptRows
<1> HIDE DEF missing
(* What becomes of row y.                                                  *)
<1>6. PICK new :
        /\ new \in Row /\ new # <<>> /\ Kept(DOMAIN item[y].cells, y, new)
        /\ Len(new) <= max_cols /\ (fill_cells => Len(new) = max_cols)
        /\ rows' = [rows EXCEPT ![y] = new]
  <2>1. CASE missing = 0
    <3>1. rows' = [rows EXCEPT ![y] = rows[y]]
      BY <1>2, <1>3, <1>4, <2>1
    <3>2. Len(rows[y]) = max_cols /\ Len(rows[y]) <= max_cols
      BY <1>2, <1>4, <2>1
    <3>. QED
      BY <1>5, <3>1, <3>2
  <2>2. CASE missing > 0 /\ ~fill_cells
    <3>1. missing \in Nat \ {0}
      BY <1>4, <2>2
    <3>2. rows' = [rows EXCEPT ![y] = Stretched(rows[y], missing)]
      BY <1>3, <2>2, <3>1
    <3>3. /\ Stretched(rows[y], missing) \in Row /\ Stretched(rows[y], missing) # <<>>
          /\ Len(Stretched(rows[y], missing)) <= Len(rows[y]) + missing
          /\ Kept(DOMAIN item[y].cells, y, Stretched(rows[y], missing))
      BY <1>5, <3>1, StretchedProperties
    <3>. QED
      BY <1>4, <2>2, <3>2, <3>3
  <2>3. CASE missing > 0 /\ fill_cells
    <3>1. missing \in Nat \ {0}
      BY <1>4, <2>3
    <3>2. rows' = [rows EXCEPT ![y] = Filled(rows[y], missing)]
      BY <1>3, <2>3, <3>1
    <3>3. /\ Filled(rows[y], missing) \in Row /\ Filled(rows[y], missing) # <<>>
          /\ Len(Filled(rows[y], missing)) = Len(rows[y]) + missing
          /\ Kept(DOMAIN item[y].cells, y, Filled(rows[y], missing))
      BY <1>5, <3>1, FilledProperties
    <3>4. /\ Len(Filled(rows[y], missing)) = max_cols
          /\ Len(Filled(rows[y], missing)) <= max_cols
      BY <1>2, <1>4, <3>3
    <3>. QED
      BY <3>2, <3>3, <3>4
  <2>. QED
    BY <1>2, <1>4, <2>1, <2>2, <2>3
<1>7. /\ rows' \in Seq(Row) /\ Len(rows') = Len(rows) /\ DOMAIN rows' = DOMAIN rows
      /\ \A n \in DOMAIN rows : rows'[n] = IF n = y THEN new ELSE rows[n]
  BY <1>2, <1>4, <1>6, ExceptSeq
<1>8. Typed' /\ Flow'
  BY <1>1, <1>2, <1>3, <1>4, <1>7 DEF Typed, Flow
<1>9. RowsNotEmpty'
  BY <1>1, <1>6, <1>7 DEF RowsNotEmpty
<1>10. KeptRows'
  <2> SUFFICES ASSUME NEW n \in DOMAIN rows
               PROVE  Kept(DOMAIN item[n].cells, n, rows'[n])
    BY <1>3, <1>7 DEF KeptRows, Kept, Holds, InOrder
  <2>. QED
    BY <1>1, <1>6, <1>7 DEF KeptRows
<1>11. Widths'
  <2>1. \A n \in DOMAIN rows : Len(rows'[n]) <= max_cols
    BY <1>1, <1>3, <1>6, <1>7 DEF Widths
  <2>2. fill_cells => \A n \in 1 .. y : Len(rows'[n]) = max_cols
    BY <1>1, <1>2, <1>3, <1>4, <1>6, <1>7 DEF Widths
  <2>3. CASE phase' = "fill" /\ y' = y + 1
    <3>1. y' - 1 = y
      BY <1>2, <2>3
    <3>. QED
      BY <1>3, <1>7, <2>1, <2>2, <2>3, <3>1 DEF Widths
  <2>4. CASE phase' = "build" /\ y = Len(rows)
    BY <1>2, <1>3, <1>7, <2>2, <2>4 DEF Widths
  <2>. QED
    BY <1>2, <1>3, <1>4, <2>3, <2>4
<1>. QED
  BY <1>8, <1>9, <1>10, <1>11 DEF FlatInv

(* The steps that leave the rows alone.                                    *)
LEMMA SameRows ==
  ASSUME UNCHANGED <<item, rows>>
  PROVE  /\ RowsNotEmpty => RowsNotEmpty'
         /\ KeptRows => KeptRows'
BY DEF RowsNotEmpty, KeptRows, Kept, Holds, InOrder

LEMMA OtherSteps ==
  FlatInv /\ (NoContent \/ NotAList \/ NextRow \/ AllSpanned \/ WrongWidths
              \/ BuildRow \/ TableBuilt \/ UNCHANGED vars) => FlatInv'
<1> SUFFICES ASSUME FlatInv,
                    NoContent \/ NotAList \/ NextRow \/ AllSpanned \/ WrongWidths
                      \/ BuildRow \/ TableBuilt \/ UNCHANGED vars
             PROVE  FlatInv'
  OBVIOUS
<1>1. Typed /\ Flow /\ RowsNotEmpty /\ KeptRows /\ Widths
  BY DEF FlatInv
<1>2. /\ Len(rows) \in Nat /\ DOMAIN rows = 1 .. Len(rows) /\ Len(item) \in Nat
      /\ x \in Nat \ {0} /\ y \in Nat \ {0}
  BY <1>1, RowsTyped DEF Typed
<1>3. UNCHANGED <<item, fill_cells, rows, max_cols>>
  BY DEF NoContent, NotAList, RaiseError, NextRow, AllSpanned, WrongWidths, BuildRow,
     TableBuilt, vars, options
<1>4. RowsNotEmpty' /\ KeptRows'
  BY <1>1, <1>3, SameRows
<1>5. CASE NoContent \/ NotAList \/ WrongWidths
  <2>1. phase' = "error" /\ x' = x /\ y' = y
    BY <1>5 DEF NoContent, NotAList, WrongWidths, RaiseError
  <2>2. Typed' /\ Flow' /\ Widths'
    BY <1>1, <1>3, <2>1 DEF Typed, Flow, Widths
  <2>. QED
    BY <1>4, <2>2 DEF FlatInv
<1>6. CASE NextRow
  <2>1. phase = "span" /\ phase' = "span" /\ x' = 1 /\ y' = y + 1
    BY <1>6 DEF NextRow
  <2>2. Typed' /\ Flow' /\ Widths'
    BY <1>1, <1>2, <1>3, <2>1 DEF Typed, Flow, Widths
  <2>. QED
    BY <1>4, <2>2 DEF FlatInv
<1>7. CASE AllSpanned
  <2>1. phase = "span" /\ phase' = "count" /\ x' = x /\ y' = 1
    BY <1>7 DEF AllSpanned
  <2>2. Typed' /\ Widths'
    BY <1>1, <1>2, <1>3, <2>1 DEF Typed, Widths
  <2>3. Flow'
    BY <1>1, <1>2, <1>3, <2>1 DEF Flow
  <2>. QED
    BY <1>4, <2>2, <2>3 DEF FlatInv
<1>8. CASE BuildRow \/ TableBuilt
  <2>1. phase = "build" /\ phase' \in {"build", "done"} /\ x' = x /\ y' \in {y, y + 1}
    BY <1>8 DEF BuildRow, TableBuilt
  <2>2. y' \in Nat \ {0}
    BY <1>2, <2>1
  <2>3. Typed'
    BY <1>1, <1>3, <2>1, <2>2 DEF Typed
  <2>4. Flow' /\ Widths'
    BY <1>1, <1>3, <2>1 DEF Flow, Widths
  <2>. QED
    BY <1>4, <2>3, <2>4 DEF FlatInv
<1>9. CASE UNCHANGED vars
  <2>1. phase' = phase /\ x' = x /\ y' = y
    BY <1>9 DEF vars
  <2>2. Typed' /\ Flow' /\ Widths'
    BY <1>1, <1>3, <2>1 DEF Typed, Flow, Widths
  <2>. QED
    BY <1>4, <2>2 DEF FlatInv
<1>. QED
  BY <1>5, <1>6, <1>7, <1>8, <1>9

(* A row's entries: the places of its cells, counted from the left, are    *)
(* numbered without gaps, so that each entry is one of the cells.          *)
LEMMA EntriesOfRow ==
  ASSUME NEW row \in Row
  PROVE  Entries(row) \in Seq(Cell)
<1> DEFINE cells == {k \in DOMAIN row : row[k] # None}
           n == Cardinality(cells)
           Upto(k) == {l \in cells : l <= k}
           Rank(k) == Cardinality(Upto(k))
           f == [k \in cells |-> Rank(k)]
<1>1. Len(row) \in Nat /\ DOMAIN row = 1 .. Len(row) /\ row \in Seq(Cell \cup {None})
  BY LenProperties DEF Row
<1>2. cells \subseteq Nat
  BY <1>1
<1>3. IsFiniteSet(cells)
  <2>1. IsFiniteSet(1 .. Len(row))
    BY <1>1, FS_Interval
  <2>2. cells \subseteq 1 .. Len(row)
    BY <1>1
  <2>. QED
    BY <2>1, <2>2, FS_Subset
<1>4. \A k \in cells : row[k] \in Cell
  <2> SUFFICES ASSUME NEW k \in cells PROVE row[k] \in Cell
    OBVIOUS
  <2>1. k \in 1 .. Len(row) /\ row[k] # None
    BY <1>1
  <2>2. row[k] \in Cell \cup {None}
    BY <1>1, <2>1, ElementOfSeq
  <2>. QED
    BY <2>1, <2>2
<1>5. Entries(row) =
        [j \in 1 .. n |-> row[CHOOSE k \in cells : Cardinality({l \in cells : l <= k}) = j]]
  BY DEF Entries
<1> HIDE DEF cells
<1>6. n \in Nat
  BY <1>3, FS_CardinalityType
<1>7. \A k \in cells : IsFiniteSet(Upto(k)) /\ Upto(k) \subseteq cells /\ k \in Upto(k)
  <2> SUFFICES ASSUME NEW k \in cells
               PROVE  IsFiniteSet(Upto(k)) /\ Upto(k) \subseteq cells /\ k \in Upto(k)
    OBVIOUS
  <2>1. Upto(k) \subseteq cells
    OBVIOUS
  <2>2. IsFiniteSet(Upto(k))
    BY <1>3, <2>1, FS_Subset
  <2>3. k \in Nat
    BY <1>2
  <2>4. k <= k
    BY <2>3
  <2>. QED
    BY <2>1, <2>2, <2>4
<1>8. \A k, l \in cells : k < l => Upto(k) \subseteq Upto(l) /\ l \notin Upto(k)
  <2> SUFFICES ASSUME NEW k \in cells, NEW l \in cells, k < l
               PROVE  Upto(k) \subseteq Upto(l) /\ l \notin Upto(k)
    OBVIOUS
  <2>1. k \in Nat /\ l \in Nat /\ ~(l <= k)
    BY <1>2
  <2>2. \A i \in cells : i <= k => i <= l
    <3> SUFFICES ASSUME NEW i \in cells, i <= k PROVE i <= l
      OBVIOUS
    <3>1. i \in Nat
      BY <1>2
    <3>. QED
      BY <2>1, <3>1
  <2>. QED
    BY <2>1, <2>2
<1> HIDE DEF Upto
<1>9. \A k \in cells : Rank(k) \in 1 .. n
  <2> SUFFICES ASSUME NEW k \in cells PROVE Rank(k) \in 1 .. n
    OBVIOUS
  <2>1. Rank(k) \in Nat /\ Rank(k) <= n
    BY <1>3, <1>7, FS_Subset, FS_CardinalityType
  <2>2. Upto(k) # {}
    BY <1>7
  <2>3. Rank(k) # 0
    BY <1>7, <2>2, FS_EmptySet
  <2>. QED
    BY <1>6, <2>1, <2>3
<1>10. \A k, l \in cells : k < l => Rank(k) # Rank(l)
  <2> SUFFICES ASSUME NEW k \in cells, NEW l \in cells, k < l
               PROVE  Rank(k) # Rank(l)
    OBVIOUS
  <2>1. Upto(k) \subseteq Upto(l) /\ l \notin Upto(k) /\ l \in Upto(l)
    BY <1>7, <1>8
  <2>2. Upto(k) # Upto(l)
    BY <2>1
  <2>. QED
    BY <1>7, <2>1, <2>2, FS_Subset
<1> HIDE DEF Rank, n
<1>11. \A k, l \in cells : Rank(k) = Rank(l) => k = l
  <2> SUFFICES ASSUME NEW k \in cells, NEW l \in cells, Rank(k) = Rank(l), k # l
               PROVE  FALSE
    OBVIOUS
  <2>1. k \in Nat /\ l \in Nat
    BY <1>2
  <2>2. k < l \/ l < k
    BY <2>1
  <2>. QED
    BY <1>10, <2>2
<1>12. f \in Injection(cells, 1 .. n)
  <2>1. f \in [cells -> 1 .. n]
    BY <1>9
  <2>. QED
    BY <1>11, <2>1 DEF Injection, IsInjective
<1>13. IsFiniteSet(1 .. n) /\ Cardinality(1 .. n) = n
  BY <1>6, FS_Interval
<1>14. f \in Surjection(cells, 1 .. n)
  <2>1. Cardinality(cells) = Cardinality(1 .. n)
    BY <1>13 DEF n
  <2>. QED
    BY <1>12, <1>13, <2>1, FS_Injection
<1>15. \A j \in 1 .. n : \E k \in cells : Cardinality({l \in cells : l <= k}) = j
  <2>1. \A j \in 1 .. n : \E k \in cells : Rank(k) = j
    BY <1>14 DEF Surjection
  <2>. QED
    BY <2>1 DEF Rank, Upto
<1>16. Entries(row) \in [1 .. n -> Cell]
  <2>1. \A j \in 1 .. n :
          row[CHOOSE k \in cells : Cardinality({l \in cells : l <= k}) = j] \in Cell
    BY <1>4, <1>15
  <2>. QED
    BY <1>5, <2>1
<1>. QED
  BY <1>6, <1>16

----------------------------------------------------------------------------
(* The inductive invariant: each row is of its item, is not empty, has its *)
(* author's cells, and is no longer than the columns counted.              *)
THEOREM FlatInvariance == Spec => []FlatInv
<1>1. FlatInv /\ [Next]_vars => FlatInv'
  BY ParseRowKeeps, SpanCellKeeps, CountRowKeeps, RoundOffRowKeeps, OtherSteps DEF Next
<1>. QED
  BY <1>1, InitInv, PTL DEF Spec

(* roundOffTableDefinition loses, moves, doubles and reorders no cell of   *)
(* the author, whatever spans meet, in a table of any size.                *)
THEOREM CellsKeptAlways == Spec => []CellsKept
<1>1. FlatInv => CellsKept
  BY DEF FlatInv, KeptRows, Kept, CellsKept
<1>. QED
  BY <1>1, FlatInvariance, PTL

(* With fill-cells each row that is written out is as long as the longest. *)
THEOREM RowsAreFullAlways == Spec => []RowsAreFull
<1>1. FlatInv => RowsAreFull
  BY DEF FlatInv, Widths, RowsAreFull
<1>. QED
  BY <1>1, FlatInvariance, PTL

LEMMA TableTypedKeeps == FlatInv /\ TableTyped /\ [Next]_vars => TableTyped'
<1> SUFFICES ASSUME FlatInv, TableTyped, [Next]_vars PROVE TableTyped'
  OBVIOUS
<1>1. header_rows \in HeaderRows /\ header_rows' = header_rows
  BY DEF Next, vars, options, NoContent, ParseRow, NotAList, RaiseError, SpanCell, NextRow,
     AllSpanned, CountRow, RoundOffRow, WrongWidths, BuildRow, TableBuilt, TableTyped
<1>2. CASE BuildRow
  <2>1. y \in 1 .. Len(rows) /\ rows \in Seq(Row)
    BY <1>2, LenProperties DEF BuildRow, FlatInv, Typed
  <2>2. rows[y] \in Row
    BY <2>1, ElementOfSeq
  <2>3. Entries(rows[y]) \in Seq(Cell)
    BY <2>2, EntriesOfRow
  <2>4. \/ thead' = Append(thead, Entries(rows[y])) /\ tbody' = tbody
        \/ tbody' = Append(tbody, Entries(rows[y])) /\ thead' = thead
    BY <1>2 DEF BuildRow
  <2>5. thead \in Seq(Seq(Cell)) /\ tbody \in Seq(Seq(Cell))
    BY DEF TableTyped
  <2>6. /\ Append(thead, Entries(rows[y])) \in Seq(Seq(Cell))
        /\ Append(tbody, Entries(rows[y])) \in Seq(Seq(Cell))
    BY ONLY <2>3, <2>5, AppendProperties
  <2>7. thead' \in Seq(Seq(Cell)) /\ tbody' \in Seq(Seq(Cell))
    BY <2>4, <2>5, <2>6
  <2>. QED
    BY <1>1, <2>7 DEF TableTyped
<1>3. CASE ~BuildRow
  <2>1. thead' = thead /\ tbody' = tbody
    BY <1>3 DEF Next, vars, NoContent, ParseRow, NotAList, RaiseError, SpanCell, NextRow,
       AllSpanned, CountRow, RoundOffRow, WrongWidths, TableBuilt
  <2>. QED
    BY <1>1, <2>1 DEF TableTyped
<1>. QED
  BY <1>2, <1>3

(* The table written out consists of cells alone: no None that a span or   *)
(* the rounding off has left in a row becomes an entry of head or body.    *)
THEOREM FlatTypeOKAlways == Spec => []FlatTypeOK
<1>1. Init => TableTyped
  BY DEF Init, TableTyped
<1>2. FlatInv /\ TableTyped => FlatTypeOK
  BY DEF FlatInv, Typed, TableTyped, FlatTypeOK
<1>. QED
  BY <1>1, <1>2, TableTypedKeeps, FlatInvariance, PTL DEF Spec
----------------------------------------------------------------------------
(* The loops end: what a directive has still to do is counted in four      *)
(* numbers, of which each step lowers one and leaves those before it.      *)

PhasesLeft ==
  CASE phase = "parse" -> 5 [] phase = "span" -> 4 [] phase = "count" -> 3
    [] phase = "fill" -> 2 [] phase = "build" -> 1 [] OTHER -> 0

RowsLeft ==
  CASE phase = "parse" -> Len(item) + 1 - y
    [] phase \in {"span", "count", "fill", "build"} -> Len(rows) + 1 - y
    [] OTHER -> 0

(* Only cells make a row grow, and each of them once: the Nones it puts    *)
(* into its own row are behind it and are passed over.                     *)
InLoop == phase = "span" /\ y <= Len(rows)
CellsFrom(row, i) == {k \in i .. Len(row) : row[k] # None}
CellsLeft == IF InLoop THEN Cardinality(CellsFrom(rows[y], x)) ELSE 0
PlacesLeft == IF InLoop THEN Len(rows[y]) + 1 - x ELSE 0

(* The loops do not run past what they run over.                           *)
Places ==
  /\ phase = "parse" => x = 1
  /\ phase \in {"span", "build"} => y <= Len(rows) + 1
  /\ InLoop => x <= Len(rows[y]) + 1

(* The four numbers in lexicographic order.                                *)
Nearer ==
  \/ PhasesLeft' < PhasesLeft
  \/ PhasesLeft' = PhasesLeft /\ RowsLeft' < RowsLeft
  \/ PhasesLeft' = PhasesLeft /\ RowsLeft' = RowsLeft /\ CellsLeft' < CellsLeft
  \/ /\ PhasesLeft' = PhasesLeft /\ RowsLeft' = RowsLeft /\ CellsLeft' = CellsLeft
     /\ PlacesLeft' < PlacesLeft

LeftIsCounted == {PhasesLeft, RowsLeft, CellsLeft, PlacesLeft} \subseteq Nat

(* What SpanCell does to the row it is in.                                 *)
LEMMA RowAtHand ==
  ASSUME FlatInv, SpanCell
  PROVE  /\ y \in 1 .. Len(rows) /\ Len(rows') = Len(rows)
         /\ rows[y] \in Row /\ x \in 1 .. Len(rows[y])
         /\ rows[y][x] = None => rows' = rows
         /\ rows[y][x] # None =>
              \E n \in Nat : rows'[y] = InsertNones(rows[y], x + 1, n)
<1>1. /\ Len(rows) \in Nat /\ DOMAIN rows = 1 .. Len(rows)
      /\ \A n \in DOMAIN rows : rows[n] \in Row /\ Len(rows[n]) \in Nat
      /\ x \in Nat \ {0} /\ y \in Nat \ {0}
  BY RowsTyped DEF FlatInv, Typed
<1>2. /\ y <= Len(rows) /\ x <= Len(rows[y])
      /\ rows' = IF rows[y][x] = None THEN rows
                 ELSE [r \in DOMAIN rows |-> Covered(rows[y][x], r)]
  BY DEF SpanCell
<1>3. y \in 1 .. Len(rows) /\ rows[y] \in Row
  BY <1>1, <1>2
<1>4. Len(rows[y]) \in Nat
  BY <1>1, <1>3
<1>5. x \in 1 .. Len(rows[y])
  BY <1>1, <1>2, <1>4
<1>6. CASE rows[y][x] = None
  BY <1>2, <1>3, <1>5, <1>6
<1>7. CASE rows[y][x] # None
  <2>1. rows' = [r \in 1 .. Len(rows) |-> Covered(rows[y][x], r)]
    BY <1>1, <1>2, <1>7
  <2>2. rows'[y] = InsertNones(rows[y], x + 1, CSpan(rows[y][x]))
    BY <1>3, <2>1 DEF Covered
  <2>3. CSpan(rows[y][x]) \in Nat
    <3>1. rows[y][x] \in Cell
      BY <1>3, <1>5, <1>7, ElementOfSeq DEF Row
    <3>. QED
      BY <3>1, SpansOfCell
  <2>4. Len(rows') = Len(rows)
    BY <1>1, <2>1
  <2>. QED
    BY <1>3, <1>5, <1>7, <2>2, <2>3, <2>4
<1>. QED
  BY <1>6, <1>7

(* With n Nones put behind the cell at i a row has as many cells behind i  *)
(* as before, and one less than from i on.                                 *)
LEMMA CellsFromFinite ==
  ASSUME NEW row \in Row, NEW i \in Nat
  PROVE  IsFiniteSet(CellsFrom(row, i)) /\ Cardinality(CellsFrom(row, i)) \in Nat
<1>1. IsFiniteSet(i .. Len(row))
  BY LenProperties, FS_Interval DEF Row
<1>2. CellsFrom(row, i) \in SUBSET (i .. Len(row))
  BY DEF CellsFrom
<1>. QED
  BY <1>1, <1>2, FS_Subset, FS_CardinalityType

LEMMA InsertInside ==
  ASSUME NEW row \in Row, NEW i \in 1 .. Len(row) + 1, NEW n \in Nat
  PROVE  LET new == InsertNones(row, i, n)
         IN /\ new \in Row /\ Len(new) = Len(row) + n
            /\ \A j \in i .. i + n - 1 : new[j] = None
            /\ \A j \in i .. Len(row) : new[j + n] = row[j]
<1> DEFINE k == IF i > Len(row) + 1 THEN Len(row) + 1 ELSE i
           new == InsertNones(row, i, n)
<1>1. i \in Nat \ {0} /\ k = i
  BY LenProperties DEF Row
<1>2. /\ new \in Row /\ Len(new) = Len(row) + n
      /\ \A j \in k .. k + n - 1 : new[j] = None
      /\ \A j \in k .. Len(row) : new[j + n] = row[j]
  BY <1>1, InsertProperties
<1> HIDE DEF new, k
<1>. QED
  BY <1>1, <1>2 DEF new

LEMMA OneCellLess ==
  ASSUME NEW row \in Row, NEW i \in 1 .. Len(row), row[i] # None, NEW n \in Nat
  PROVE  Cardinality(CellsFrom(InsertNones(row, i + 1, n), i + 1))
           < Cardinality(CellsFrom(row, i))
<1> DEFINE new == InsertNones(row, i + 1, n)
           A == CellsFrom(row, i) \ {i}
           B == CellsFrom(new, i + 1)
           f == [k \in A |-> k + n]
<1>1. Len(row) \in Nat /\ i \in Nat \ {0} /\ i <= Len(row)
  BY LenProperties DEF Row
<1>2. /\ new \in Row /\ Len(new) = Len(row) + n
      /\ \A j \in i + 1 .. i + n : new[j] = None
      /\ \A j \in i + 1 .. Len(row) : new[j + n] = row[j]
  <2> DEFINE k == i + 1
  <2>1. k \in 1 .. Len(row) + 1 /\ k + n - 1 = i + n
    BY <1>1
  <2> HIDE DEF k, new
  <2>2. /\ InsertNones(row, k, n) \in Row /\ Len(InsertNones(row, k, n)) = Len(row) + n
        /\ \A j \in k .. k + n - 1 : InsertNones(row, k, n)[j] = None
        /\ \A j \in k .. Len(row) : InsertNones(row, k, n)[j + n] = row[j]
    BY <2>1, InsertInside
  <2>3. new = InsertNones(row, k, n) /\ k = i + 1
    BY DEF new, k
  <2>. QED
    BY <2>1, <2>2, <2>3
<1> HIDE DEF new
<1>3. A = {k \in i + 1 .. Len(row) : row[k] # None}
  BY <1>1 DEF CellsFrom
<1>4. B = {k \in i + 1 .. Len(row) + n : new[k] # None}
  BY <1>2 DEF CellsFrom
<1>5. IsFiniteSet(A) /\ Cardinality(A) \in Nat
      /\ Cardinality(CellsFrom(row, i)) = Cardinality(A) + 1
  <2>1. i \in CellsFrom(row, i)
    BY <1>1 DEF CellsFrom
  <2>2. IsFiniteSet(CellsFrom(row, i)) /\ Cardinality(CellsFrom(row, i)) \in Nat
    BY <1>1, CellsFromFinite
  <2>3. IsFiniteSet(A) /\ Cardinality(A) = Cardinality(CellsFrom(row, i)) - 1
    BY <2>1, <2>2, FS_RemoveElement
  <2>4. Cardinality(A) \in Nat
    BY <2>3, FS_CardinalityType
  <2>. QED
    BY <2>2, <2>3, <2>4
<1> HIDE DEF A, B
<1>6. f \in [A -> B]
  <2> SUFFICES ASSUME NEW k \in A PROVE k + n \in B
    OBVIOUS
  <2>1. k \in i + 1 .. Len(row) /\ row[k] # None
    BY <1>3
  <2>2. k + n \in i + 1 .. Len(row) + n
    BY <1>1, <2>1
  <2>3. new[k + n] # None
    BY <1>2, <2>1
  <2>. QED
    BY <1>4, <2>2, <2>3
<1>7. \A k, l \in A : f[k] = f[l] => k = l
  BY <1>1, <1>3
<1>8. \A j \in B : \E k \in A : f[k] = j
  <2> SUFFICES ASSUME NEW j \in B PROVE \E k \in A : f[k] = j
    OBVIOUS
  <2>1. j \in i + 1 .. Len(row) + n /\ new[j] # None
    BY <1>4
  <2>2. j \notin i + 1 .. i + n
    BY <1>2, <2>1
  <2>3. j - n \in i + 1 .. Len(row) /\ (j - n) + n = j
    BY <1>1, <2>1, <2>2
  <2>4. row[j - n] # None
    BY <1>2, <2>1, <2>3
  <2>5. j - n \in A
    BY <1>3, <2>3, <2>4
  <2>. QED
    BY <2>3, <2>5
<1>9. f \in Bijection(A, B)
  BY <1>6, <1>7, <1>8 DEF Bijection, Injection, IsInjective, Surjection
<1>10. Cardinality(B) = Cardinality(A)
  BY <1>5, <1>9, FS_Bijection DEF ExistsBijection
<1>. QED
  BY <1>5, <1>10 DEF B, new

LEMMA SpanCellIsNearer == FlatInv /\ Places /\ SpanCell => Nearer /\ Places'
<1> SUFFICES ASSUME FlatInv, Places, SpanCell PROVE Nearer /\ Places'
  OBVIOUS
<1>1. /\ y \in 1 .. Len(rows) /\ Len(rows') = Len(rows)
      /\ rows[y] \in Row /\ x \in 1 .. Len(rows[y])
      /\ rows[y][x] = None => rows' = rows
      /\ rows[y][x] # None => \E n \in Nat : rows'[y] = InsertNones(rows[y], x + 1, n)
  BY RowAtHand
<1>2. /\ phase = "span" /\ phase' = "span" /\ y' = y /\ x' = x + 1
      /\ Len(rows) \in Nat /\ Len(rows[y]) \in Nat
  <2>1. Len(rows) \in Nat
    BY RowsTyped DEF FlatInv
  <2>2. Len(rows[y]) \in Nat
    BY <1>1, LenProperties DEF Row
  <2>. QED
    BY <2>1, <2>2 DEF SpanCell
<1>3. PhasesLeft' = PhasesLeft /\ RowsLeft' = RowsLeft
  BY <1>1, <1>2 DEF PhasesLeft, RowsLeft
<1>4. InLoop /\ InLoop'
  BY <1>1, <1>2 DEF InLoop
<1>5. /\ CellsLeft = Cardinality(CellsFrom(rows[y], x))
      /\ CellsLeft' = Cardinality(CellsFrom(rows'[y], x + 1))
      /\ PlacesLeft = Len(rows[y]) + 1 - x
      /\ PlacesLeft' = Len(rows'[y]) + 1 - (x + 1)
  BY <1>2, <1>4 DEF CellsLeft, PlacesLeft
<1>6. CASE rows[y][x] = None
  <2>1. CellsFrom(rows[y], x + 1) = CellsFrom(rows[y], x)
    <3>1. \A k : k \in x .. Len(rows[y]) <=> k = x \/ k \in x + 1 .. Len(rows[y])
      BY <1>1, <1>2
    <3>2. \A k : k \in CellsFrom(rows[y], x + 1) <=> k \in CellsFrom(rows[y], x)
      BY <1>6, <3>1 DEF CellsFrom
    <3>. QED
      BY <3>2
  <2>2. CellsLeft' = CellsLeft
    BY <1>1, <1>5, <1>6, <2>1
  <2>3. PlacesLeft' < PlacesLeft
    BY <1>1, <1>2, <1>5, <1>6
  <2>4. Places'
    BY <1>1, <1>2, <1>6 DEF Places, InLoop
  <2>. QED
    BY <1>3, <2>2, <2>3, <2>4 DEF Nearer
<1>7. CASE rows[y][x] # None
  <2>1. PICK n \in Nat : rows'[y] = InsertNones(rows[y], x + 1, n)
    BY <1>1, <1>7
  <2>2. CellsLeft' < CellsLeft
    BY <1>1, <1>5, <1>7, <2>1, OneCellLess
  <2>3. Len(rows'[y]) = Len(rows[y]) + n
    <3> DEFINE row == rows[y]  next == x + 1
    <3>1. next \in Nat \ {0} /\ row \in Row /\ n \in Nat
      BY <1>1
    <3> HIDE DEF row, next
    <3>2. Len(InsertNones(row, next, n)) = Len(row) + n
      BY ONLY <3>1, InsertProperties
    <3>. QED
      BY <2>1, <3>2 DEF row, next
  <2>4. Places'
    BY <1>1, <1>2, <2>1, <2>3 DEF Places, InLoop
  <2>. QED
    BY <1>3, <2>2, <2>4 DEF Nearer
<1>. QED
  BY <1>6, <1>7

LEMMA RoundOffRowLength ==
  ASSUME FlatInv, RoundOffRow
  PROVE  Len(rows') \in Nat /\ Len(rows') = Len(rows)
<1> DEFINE missing == max_cols - Len(rows[y])
<1>1. /\ Len(rows) \in Nat /\ DOMAIN rows = 1 .. Len(rows)
      /\ \A n \in DOMAIN rows : Len(rows[n]) \in Nat
      /\ y \in Nat \ {0} /\ max_cols \in Nat /\ fill_cells \in BOOLEAN
  BY RowsTyped DEF FlatInv, Typed
<1>2. phase = "fill"
  BY DEF RoundOffRow
<1>3. y \in 1 .. Len(rows) /\ Len(rows[y]) <= max_cols
  BY <1>1, <1>2 DEF FlatInv, Flow, Widths
<1>4. missing = 0 \/ missing > 0
  BY <1>1, <1>3
<1>5. \/ rows' = rows
      \/ \E new : rows' = [rows EXCEPT ![y] = new]
  <2>1. rows' = CASE missing = 0                -> rows
                  [] missing > 0 /\ ~fill_cells -> [rows EXCEPT ![y] = Stretched(@, missing)]
                  [] missing > 0 /\ fill_cells  -> [rows EXCEPT ![y] = Filled(@, missing)]
    BY DEF RoundOffRow
  <2>2. CASE missing = 0
    BY <2>1, <2>2
  <2>3. CASE missing > 0 /\ ~fill_cells
    <3>1. missing # 0
      BY <1>1, <1>3, <2>3
    <3>2. rows' = [rows EXCEPT ![y] = Stretched(rows[y], missing)]
      BY <2>1, <2>3, <3>1
    <3>. QED
      BY <3>2
  <2>4. CASE missing > 0 /\ fill_cells
    <3>1. missing # 0
      BY <1>1, <1>3, <2>4
    <3>2. rows' = [rows EXCEPT ![y] = Filled(rows[y], missing)]
      BY <2>1, <2>4, <3>1
    <3>. QED
      BY <3>2
  <2>. QED
    BY <1>4, <2>2, <2>3, <2>4
<1>6. DOMAIN rows' = 1 .. Len(rows)
  BY <1>1, <1>5
<1>7. rows' \in Seq(Row)
  BY RoundOffRowKeeps DEF FlatInv, Typed
<1>. QED
  BY <1>1, <1>6, <1>7, LenProperties

LEMMA StepIsNearer == FlatInv /\ Places /\ Next => Nearer /\ Places'
<1> SUFFICES ASSUME FlatInv, Places, Next PROVE Nearer /\ Places'
  OBVIOUS
<1>1. /\ Len(rows) \in Nat /\ DOMAIN rows = 1 .. Len(rows) /\ Len(item) \in Nat
      /\ \A n \in DOMAIN rows : Len(rows[n]) \in Nat
      /\ x \in Nat \ {0} /\ y \in Nat \ {0} /\ max_cols \in Nat
  BY RowsTyped DEF FlatInv, Typed
<1>2. /\ phase = "parse" => x = 1
      /\ phase \in {"count", "fill"} => y <= Len(rows)
      /\ phase \in {"span", "build"} => y <= Len(rows) + 1
  BY DEF FlatInv, Flow, Places
<1>3. CASE NoContent \/ NotAList \/ WrongWidths
  <2>1. phase \in {"parse", "build"} /\ phase' = "error"
    BY <1>3 DEF NoContent, NotAList, WrongWidths, RaiseError
  <2>2. PhasesLeft' < PhasesLeft
    BY <2>1 DEF PhasesLeft
  <2>. QED
    BY <2>1, <2>2 DEF Nearer, Places, InLoop
<1>4. CASE ParseRow
  <2>1. /\ phase = "parse" /\ item' = item /\ x' = 1
        /\ \/ y' = y + 1 /\ phase' = "parse"
           \/ y' = 1 /\ phase' = "span"
    BY <1>2, <1>4 DEF ParseRow, options
  <2>2. CASE y' = y + 1 /\ phase' = "parse"
    <3>1. PhasesLeft' = PhasesLeft /\ RowsLeft' < RowsLeft
      BY <1>1, <2>1, <2>2 DEF PhasesLeft, RowsLeft
    <3>. QED
      BY <2>1, <2>2, <3>1 DEF Nearer, Places, InLoop
  <2>3. CASE y' = 1 /\ phase' = "span"
    <3>1. PhasesLeft' < PhasesLeft
      BY <2>1, <2>3 DEF PhasesLeft
    <3>2. FlatInv'
      BY <1>4, ParseRowKeeps
    <3>3. /\ Len(rows') \in Nat /\ DOMAIN rows' = 1 .. Len(rows')
          /\ \A n \in DOMAIN rows' : Len(rows'[n]) \in Nat
      BY <3>2, LenProperties, ElementOfSeq DEF FlatInv, Typed, Row
    <3>4. Places'
      BY <2>1, <2>3, <3>3 DEF Places, InLoop
    <3>. QED
      BY <3>1, <3>4 DEF Nearer
  <2>. QED
    BY <2>1, <2>2, <2>3
<1>5. CASE SpanCell
  BY <1>5, SpanCellIsNearer
<1>6. CASE NextRow
  <2>1. /\ phase = "span" /\ phase' = "span" /\ rows' = rows /\ y <= Len(rows)
        /\ x' = 1 /\ y' = y + 1
    BY <1>6 DEF NextRow
  <2>2. PhasesLeft' = PhasesLeft /\ RowsLeft' < RowsLeft
    BY <1>1, <2>1 DEF PhasesLeft, RowsLeft
  <2>3. Places'
    BY <1>1, <2>1 DEF Places, InLoop
  <2>. QED
    BY <2>2, <2>3 DEF Nearer
<1>7. CASE AllSpanned
  <2>1. phase = "span" /\ phase' = "count"
    BY <1>7 DEF AllSpanned
  <2>2. PhasesLeft' < PhasesLeft
    BY <2>1 DEF PhasesLeft
  <2>. QED
    BY <2>1, <2>2 DEF Nearer, Places, InLoop
<1>8. CASE CountRow
  <2>1. /\ phase = "count" /\ rows' = rows
        /\ \/ y' = y + 1 /\ phase' = "count"
           \/ y' = 1 /\ phase' = "fill"
    BY <1>8 DEF CountRow
  <2>2. Nearer
    <3>1. CASE y' = y + 1 /\ phase' = "count"
      <4>1. PhasesLeft' = PhasesLeft /\ RowsLeft' < RowsLeft
        BY <1>1, <2>1, <3>1 DEF PhasesLeft, RowsLeft
      <4>. QED
        BY <4>1 DEF Nearer
    <3>2. CASE y' = 1 /\ phase' = "fill"
      <4>1. PhasesLeft' < PhasesLeft
        BY <2>1, <3>2 DEF PhasesLeft
      <4>. QED
        BY <4>1 DEF Nearer
    <3>. QED
      BY <2>1, <3>1, <3>2
  <2>. QED
    BY <2>1, <2>2 DEF Places, InLoop
<1>9. CASE RoundOffRow
  <2>1. /\ phase = "fill"
        /\ \/ y' = y + 1 /\ phase' = "fill"
           \/ y' = 1 /\ phase' = "build"
    BY <1>9 DEF RoundOffRow
  <2>2. Len(rows') \in Nat /\ Len(rows') = Len(rows)
    BY <1>9, RoundOffRowLength
  <2>3. Nearer
    <3>1. CASE y' = y + 1 /\ phase' = "fill"
      <4>1. PhasesLeft' = PhasesLeft /\ RowsLeft' < RowsLeft
        BY <1>1, <2>1, <2>2, <3>1 DEF PhasesLeft, RowsLeft
      <4>. QED
        BY <4>1 DEF Nearer
    <3>2. CASE y' = 1 /\ phase' = "build"
      <4>1. PhasesLeft' < PhasesLeft
        BY <2>1, <3>2 DEF PhasesLeft
      <4>. QED
        BY <4>1 DEF Nearer
    <3>. QED
      BY <2>1, <3>1, <3>2
  <2>. QED
    BY <1>1, <2>1, <2>2, <2>3 DEF Places, InLoop
<1>10. CASE BuildRow
  <2>1. phase = "build" /\ phase' = "build" /\ rows' = rows /\ y <= Len(rows) /\ y' = y + 1
    BY <1>10 DEF BuildRow
  <2>2. PhasesLeft' = PhasesLeft /\ RowsLeft' < RowsLeft
    BY <1>1, <2>1 DEF PhasesLeft, RowsLeft
  <2>3. Places'
    BY <1>1, <2>1 DEF Places, InLoop
  <2>. QED
    BY <2>2, <2>3 DEF Nearer
<1>11. CASE TableBuilt
  <2>1. phase = "build" /\ phase' = "done"
    BY <1>11 DEF TableBuilt
  <2>2. PhasesLeft' < PhasesLeft
    BY <2>1 DEF PhasesLeft
  <2>. QED
    BY <2>1, <2>2 DEF Nearer, Places, InLoop
<1>. QED
  BY <1>3, <1>4, <1>5, <1>6, <1>7, <1>8, <1>9, <1>10, <1>11 DEF Next

LEMMA CountedLeft == FlatInv /\ Places => LeftIsCounted
<1> SUFFICES ASSUME FlatInv, Places PROVE LeftIsCounted
  OBVIOUS
<1>1. /\ Len(rows) \in Nat /\ DOMAIN rows = 1 .. Len(rows) /\ Len(item) \in Nat
      /\ \A n \in DOMAIN rows : rows[n] \in Row /\ Len(rows[n]) \in Nat
      /\ x \in Nat \ {0} /\ y \in Nat \ {0} /\ item \in Seq(Item)
  BY RowsTyped DEF FlatInv, Typed
<1>2. PhasesLeft \in Nat
  BY DEF PhasesLeft
<1>3. RowsLeft \in Nat
  <2>1. CASE phase = "parse"
    <3>1. y <= Len(item) + 1
      <4>1. CASE item = <<>>
        BY <1>1, <2>1, <4>1 DEF FlatInv, Flow
      <4>2. CASE item # <<>>
        BY <1>1, <2>1, <4>2 DEF FlatInv, Flow
      <4>. QED
        BY <4>1, <4>2
    <3>. QED
      BY <1>1, <2>1, <3>1 DEF RowsLeft
  <2>2. CASE phase \in {"span", "count", "fill", "build"}
    <3>1. y <= Len(rows) + 1
      BY <1>1, <2>2 DEF FlatInv, Flow, Places
    <3>. QED
      BY <1>1, <2>2, <3>1 DEF RowsLeft
  <2>3. CASE phase \notin {"parse", "span", "count", "fill", "build"}
    BY <2>3 DEF RowsLeft
  <2>. QED
    BY <2>1, <2>2, <2>3
<1>4. CellsLeft \in Nat /\ PlacesLeft \in Nat
  <2>1. CASE InLoop
    <3>1. y \in 1 .. Len(rows) /\ x <= Len(rows[y]) + 1
      BY <1>1, <2>1 DEF InLoop, Places
    <3>2. CellsLeft = Cardinality(CellsFrom(rows[y], x))
      BY <2>1 DEF CellsLeft
    <3>3. CellsLeft \in Nat
      BY <1>1, <3>1, <3>2, CellsFromFinite
    <3>4. PlacesLeft \in Nat
      BY <1>1, <2>1, <3>1 DEF PlacesLeft
    <3>. QED
      BY <3>3, <3>4
  <2>2. CASE ~InLoop
    BY <2>2 DEF CellsLeft, PlacesLeft
  <2>. QED
    BY <2>1, <2>2
<1>. QED
  BY <1>2, <1>3, <1>4 DEF LeftIsCounted

LEMMA PlacesKeep == FlatInv /\ Places /\ [Next]_vars => Places'
<1> SUFFICES ASSUME FlatInv, Places, UNCHANGED vars PROVE Places'
  BY StepIsNearer
<1>. QED
  BY DEF Places, InLoop, vars

(* No directive loops for ever, for a table of any size and spans: rows    *)
(* grow under the loops, but each step lowers the four natural numbers.    *)
THEOREM StepsAreCounted == Spec => []LeftIsCounted /\ [][Nearer]_vars
<1>1. Init => Places
  BY DEF Init, Places, InLoop
<1>2. FlatInv /\ Places /\ [Next]_vars => [Nearer]_vars
  BY StepIsNearer
<1>. QED
  BY <1>1, <1>2, CountedLeft, PlacesKeep, FlatInvariance, PTL DEF Spec
----------------------------------------------------------------------------
(* Layouts.  Facts about any table and any layout of it.                   *)

LEMMA LeastOf ==
  ASSUME NEW S \in SUBSET Nat, S # {}
  PROVE  \E n \in S : \A m \in S : n <= m
<1> DEFINE R == OpToRel(<, Nat)
<1>1. IsWellFoundedOn(R, Nat)
  BY NatLessThanWellFounded
<1>2. \A m, n \in Nat : m < n => <<m, n>> \in R
  BY DEF OpToRel
<1> HIDE DEF R
<1>3. PICK n \in S : \A m \in S : ~(<<m, n>> \in R)
  BY <1>1, WFMin
<1>4. ASSUME NEW m \in S PROVE n <= m
  <2>1. m \in Nat /\ n \in Nat
    OBVIOUS
  <2>2. ~(m < n)
    BY <1>2, <1>3, <2>1
  <2>. QED
    BY <2>1, <2>2
<1>. QED
  BY <1>4

Table == Seq(Seq(Cell))

(* Entry i of row m covers the place of row r and column k.                *)
Cov(T, col, m, i, r, k) ==
  /\ m <= r /\ r <= m + RSpan(T[m][i])
  /\ col[m][i] <= k /\ k <= col[m][i] + CSpan(T[m][i])

(* An entry above row n covers column k in it.                             *)
Above(T, col, n, k) ==
  \E m \in 1 .. n - 1 : \E i \in 1 .. Len(T[m]) : Cov(T, col, m, i, n, k)

LEMMA TableFacts ==
  ASSUME NEW T \in Table
  PROVE  /\ Len(T) \in Nat /\ DOMAIN T = 1 .. Len(T)
         /\ \A m \in 1 .. Len(T) :
              /\ T[m] \in Seq(Cell) /\ Len(T[m]) \in Nat /\ DOMAIN T[m] = 1 .. Len(T[m])
              /\ \A i \in 1 .. Len(T[m]) : /\ T[m][i] \in Cell
                                           /\ CSpan(T[m][i]) \in Nat /\ RSpan(T[m][i]) \in Nat
<1>1. Len(T) \in Nat /\ DOMAIN T = 1 .. Len(T)
  BY LenProperties DEF Table
<1>2. ASSUME NEW m \in 1 .. Len(T)
      PROVE  T[m] \in Seq(Cell) /\ Len(T[m]) \in Nat /\ DOMAIN T[m] = 1 .. Len(T[m])
  <2>1. T[m] \in Seq(Cell)
    BY ElementOfSeq DEF Table
  <2>. QED
    BY <2>1, LenProperties
<1>3. ASSUME NEW m \in 1 .. Len(T), NEW i \in 1 .. Len(T[m])
      PROVE  T[m][i] \in Cell /\ CSpan(T[m][i]) \in Nat /\ RSpan(T[m][i]) \in Nat
  <2>1. T[m][i] \in Cell
    BY <1>2, ElementOfSeq
  <2>. QED
    BY <2>1, SpansOfCell
<1>. QED
  BY <1>1, <1>2, <1>3

LEMMA EntryFacts ==
  ASSUME NEW T \in Table
  PROVE  /\ \A m \in 1 .. Len(T) : \A i \in 1 .. Len(T[m]) : <<m, i>> \in Entry(T)
         /\ \A e \in Entry(T) : /\ e = <<e[1], e[2]>> /\ e[1] \in 1 .. Len(T)
                                /\ e[2] \in 1 .. Len(T[e[1]])
BY TableFacts DEF Entry

LEMMA CoversFacts ==
  ASSUME NEW T \in Table, NEW col, NEW m \in 1 .. Len(T), NEW i \in 1 .. Len(T[m]),
         col[m][i] \in Nat, NEW r, NEW k
  PROVE  <<r, k>> \in Covers(T, col, <<m, i>>) <=>
           r \in Nat /\ k \in Nat /\ Cov(T, col, m, i, r, k)
<1>1. m \in Nat /\ CSpan(T[m][i]) \in Nat /\ RSpan(T[m][i]) \in Nat
  BY TableFacts
<1>2. Covers(T, col, <<m, i>>) =
        (m .. m + RSpan(T[m][i])) \X (col[m][i] .. col[m][i] + CSpan(T[m][i]))
  BY DEF Covers
<1>3. r \in m .. m + RSpan(T[m][i]) <=> r \in Nat /\ m <= r /\ r <= m + RSpan(T[m][i])
  BY <1>1
<1>4. k \in col[m][i] .. col[m][i] + CSpan(T[m][i]) <=>
        k \in Nat /\ col[m][i] <= k /\ k <= col[m][i] + CSpan(T[m][i])
  BY <1>1
<1>. QED
  BY <1>2, <1>3, <1>4 DEF Cov

LEMMA LayoutIsNat ==
  ASSUME NEW T \in Table, NEW col, IsLayout(T, col)
  PROVE  \A m \in 1 .. Len(T) : \A i \in 1 .. Len(T[m]) : col[m][i] \in Nat
<1> SUFFICES ASSUME NEW m \in 1 .. Len(T), NEW i \in 1 .. Len(T[m])
             PROVE  col[m][i] \in Nat
  OBVIOUS
<1>1. <<m, i>> \in Entry(T) /\ <<m, i>>[1] = m /\ <<m, i>>[2] = i
  BY EntryFacts
<1>. QED
  BY <1>1 DEF IsLayout

LEMMA AboveFacts ==
  ASSUME NEW T \in Table, NEW col, IsLayout(T, col), NEW n \in 1 .. Len(T), NEW k \in Nat
  PROVE  FromAbove(T, col, n, k) <=> Above(T, col, n, k)
<1>1. ASSUME FromAbove(T, col, n, k) PROVE Above(T, col, n, k)
  <2>1. PICK e \in Entry(T) : e[1] < n /\ <<n, k>> \in Covers(T, col, e)
    BY <1>1 DEF FromAbove
  <2>2. e = <<e[1], e[2]>> /\ e[1] \in 1 .. Len(T) /\ e[2] \in 1 .. Len(T[e[1]])
    BY EntryFacts
  <2>3. Cov(T, col, e[1], e[2], n, k)
    BY <2>1, <2>2, CoversFacts, LayoutIsNat
  <2>4. e[1] \in 1 .. n - 1
    BY <2>1, <2>2
  <2>. QED
    BY <2>2, <2>3, <2>4 DEF Above
<1>2. ASSUME Above(T, col, n, k) PROVE FromAbove(T, col, n, k)
  <2>1. PICK m \in 1 .. n - 1 : \E i \in 1 .. Len(T[m]) : Cov(T, col, m, i, n, k)
    BY <1>2 DEF Above
  <2>2. PICK i \in 1 .. Len(T[m]) : Cov(T, col, m, i, n, k)
    BY <2>1
  <2>3. m \in 1 .. Len(T) /\ m < n /\ n \in Nat
    BY TableFacts
  <2>4. <<n, k>> \in Covers(T, col, <<m, i>>)
    BY <2>2, <2>3, CoversFacts, LayoutIsNat
  <2>5. <<m, i>> \in Entry(T) /\ <<m, i>>[1] < n
    BY <2>3, EntryFacts
  <2>. QED
    BY <2>4, <2>5 DEF FromAbove
<1>. QED
  BY <1>1, <1>2

LEMMA LayoutFacts ==
  ASSUME NEW T \in Table, NEW col, IsLayout(T, col), NEW n \in 1 .. Len(T),
         NEW j \in 1 .. Len(T[n])
  PROVE  /\ col[n][j] \in Nat \ {0} /\ ~Above(T, col, n, col[n][j])
         /\ Behind(T, col, n, j) \in Nat \ {0} /\ Behind(T, col, n, j) <= col[n][j]
         /\ \A k \in Behind(T, col, n, j) .. col[n][j] - 1 : Above(T, col, n, k)
         /\ j = 1 => Behind(T, col, n, j) = 1
         /\ j # 1 => /\ j - 1 \in 1 .. Len(T[n])
                     /\ Behind(T, col, n, j) = col[n][j - 1] + CSpan(T[n][j - 1]) + 1
<1>1. <<n, j>> \in Entry(T) /\ <<n, j>>[1] = n /\ <<n, j>>[2] = j
  BY EntryFacts
<1>2. /\ col[n][j] \in Nat /\ Behind(T, col, n, j) <= col[n][j]
      /\ ~FromAbove(T, col, n, col[n][j])
      /\ \A k \in Behind(T, col, n, j) .. col[n][j] - 1 : FromAbove(T, col, n, k)
  BY <1>1 DEF IsLayout
<1>3. /\ j = 1 => Behind(T, col, n, j) = 1
      /\ j # 1 => Behind(T, col, n, j) = col[n][j - 1] + CSpan(T[n][j - 1]) + 1
  BY DEF Behind
<1>4. j # 1 => /\ j - 1 \in 1 .. Len(T[n]) /\ col[n][j - 1] \in Nat
               /\ CSpan(T[n][j - 1]) \in Nat
  <2> SUFFICES ASSUME j # 1
               PROVE  j - 1 \in 1 .. Len(T[n]) /\ col[n][j - 1] \in Nat /\ CSpan(T[n][j - 1]) \in Nat
    OBVIOUS
  <2>1. j - 1 \in 1 .. Len(T[n])
    BY TableFacts
  <2>. QED
    BY <2>1, TableFacts, LayoutIsNat
<1>5. Behind(T, col, n, j) \in Nat \ {0}
  BY <1>3, <1>4
<1>6. col[n][j] \in Nat \ {0}
  BY <1>2, <1>5
<1>7. \A k \in Behind(T, col, n, j) .. col[n][j] - 1 : k \in Nat
  BY <1>5, <1>6
<1>. QED
  BY <1>2, <1>3, <1>4, <1>5, <1>6, <1>7, AboveFacts

(* The entries of a row stand from left to right.                          *)
LEMMA LeftToRight ==
  ASSUME NEW T \in Table, NEW col, IsLayout(T, col), NEW n \in 1 .. Len(T),
         NEW j \in 1 .. Len(T[n]), NEW i \in 1 .. j - 1
  PROVE  col[n][i] + CSpan(T[n][i]) < col[n][j]
<1> DEFINE Right(h) == col[n][h] + CSpan(T[n][h])
           Bad == {h \in 1 .. Len(T[n]) : \E g \in 1 .. h - 1 : ~(Right(g) < col[n][h])}
<1>1. /\ Len(T[n]) \in Nat
      /\ \A h \in 1 .. Len(T[n]) : col[n][h] \in Nat /\ CSpan(T[n][h]) \in Nat
  BY TableFacts, LayoutFacts
<1>2. ASSUME Bad # {} PROVE FALSE
  <2>1. Bad \in SUBSET Nat
    BY <1>1
  <2>2. PICK h \in Bad : \A g \in Bad : h <= g
    BY <1>2, <2>1, LeastOf
  <2>3. PICK g \in 1 .. h - 1 : ~(Right(g) < col[n][h])
    BY <2>2
  <2>4. h \in 1 .. Len(T[n]) /\ h # 1 /\ g \in 1 .. Len(T[n])
    BY <1>1, <2>3
  <2>5. h - 1 \in 1 .. Len(T[n]) /\ Right(h - 1) + 1 <= col[n][h]
    BY <2>4, LayoutFacts
  <2> DEFINE f == h - 1
  <2>6. f \in 1 .. Len(T[n]) /\ f \in Nat
    BY <1>1, <2>5
  <2>7. /\ Right(g) \in Nat /\ Right(f) \in Nat /\ col[n][h] \in Nat
        /\ col[n][f] \in Nat /\ col[n][f] <= Right(f)
    <3> HIDE DEF f
    <3>1. /\ col[n][g] \in Nat /\ CSpan(T[n][g]) \in Nat
          /\ col[n][f] \in Nat /\ CSpan(T[n][f]) \in Nat
          /\ col[n][h] \in Nat
      BY <1>1, <2>4, <2>6
    <3>2. \A p, q \in Nat : p + q \in Nat /\ p <= p + q
      OBVIOUS
    <3>. QED
      BY <3>1, <3>2, Zenon
  <2> HIDE DEF Right
  <2>8. g # h - 1
    BY <2>3, <2>5, <2>7
  <2>9. g \in 1 .. (h - 1) - 1 /\ ~(h <= h - 1)
    BY <2>3, <2>4, <2>8
  <2>10. Right(g) < col[n][h - 1]
    BY <2>2, <2>5, <2>9
  <2>. QED
    BY <2>3, <2>5, <2>10, <2>7
<1>. QED
  BY <1>2

(* What is left of an entry is covered, from above or by those before it.  *)
LEMMA CoveredBefore ==
  ASSUME NEW T \in Table, NEW col, IsLayout(T, col), NEW n \in 1 .. Len(T),
         NEW j \in 1 .. Len(T[n]), NEW k \in 1 .. col[n][j] - 1
  PROVE  \/ Above(T, col, n, k)
         \/ \E i \in 1 .. j - 1 : col[n][i] <= k /\ k <= col[n][i] + CSpan(T[n][i])
<1> DEFINE In(i) == col[n][i] <= k /\ k <= col[n][i] + CSpan(T[n][i])
           Bad == {h \in 1 .. Len(T[n]) :
                     k < col[n][h] /\ ~Above(T, col, n, k) /\ \A i \in 1 .. h - 1 : ~In(i)}
<1>1. /\ Len(T[n]) \in Nat /\ k \in Nat \ {0}
      /\ \A h \in 1 .. Len(T[n]) : col[n][h] \in Nat /\ CSpan(T[n][h]) \in Nat
  <2>1. Len(T[n]) \in Nat /\ \A h \in 1 .. Len(T[n]) : CSpan(T[n][h]) \in Nat
    BY TableFacts
  <2>2. \A h \in 1 .. Len(T[n]) : col[n][h] \in Nat
    BY LayoutIsNat
  <2>3. k \in Nat \ {0}
    BY <2>2
  <2>. QED
    BY <2>1, <2>2, <2>3
<1>2. ASSUME Bad # {} PROVE FALSE
  <2>1. Bad \in SUBSET Nat
    BY <1>1
  <2>2. PICK h \in Bad : \A g \in Bad : h <= g
    BY <1>2, <2>1, LeastOf
  <2>3. /\ h \in 1 .. Len(T[n]) /\ k < col[n][h] /\ ~Above(T, col, n, k)
        /\ \A i \in 1 .. h - 1 : ~In(i)
    OBVIOUS
  <2>4. k < Behind(T, col, n, h)
    <3>1. /\ \A i \in Behind(T, col, n, h) .. col[n][h] - 1 : Above(T, col, n, i)
          /\ Behind(T, col, n, h) \in Nat /\ col[n][h] \in Nat
      BY <2>3, LayoutFacts
    <3>2. k \notin Behind(T, col, n, h) .. col[n][h] - 1
      BY <2>3, <3>1
    <3>. QED
      BY ONLY <1>1, <2>3, <3>1, <3>2
  <2>5. h # 1
    BY <1>1, <2>3, <2>4, LayoutFacts
  <2>6. /\ h - 1 \in 1 .. Len(T[n])
        /\ Behind(T, col, n, h) = col[n][h - 1] + CSpan(T[n][h - 1]) + 1
    BY <2>3, <2>5, LayoutFacts
  <2>7. h - 1 \in 1 .. h - 1 /\ ~(h <= h - 1)
    BY <2>3, <2>5
  <2>8. ~In(h - 1)
    BY <2>3, <2>7
  <2>9. k < col[n][h - 1]
    <3> DEFINE g == h - 1
    <3>1. g \in 1 .. Len(T[n]) /\ Behind(T, col, n, h) = col[n][g] + CSpan(T[n][g]) + 1
      BY <2>6
    <3>2. ~(col[n][g] <= k /\ k <= col[n][g] + CSpan(T[n][g]))
      BY <2>8
    <3> HIDE DEF g
    <3>3. col[n][g] \in Nat /\ CSpan(T[n][g]) \in Nat
      BY <1>1, <3>1
    <3>4. k < col[n][g]
      BY <1>1, <2>4, <3>1, <3>2, <3>3
    <3>. QED
      BY <3>4 DEF g
  <2>10. \A i \in 1 .. (h - 1) - 1 : ~In(i)
    BY <2>3
  <2>11. h - 1 \in Bad
    BY <2>3, <2>6, <2>9, <2>10
  <2>. QED
    BY <2>2, <2>7, <2>11
<1>3. k < col[n][j]
  BY <1>1
<1>. QED
  BY <1>2, <1>3

(* No two entries cover a place.                                           *)
LEMMA ApartFacts ==
  ASSUME NEW T \in Table, NEW col, IsLayout(T, col)
  PROVE  Apart(T, col) <=>
           \A m, n \in 1 .. Len(T) : \A i \in 1 .. Len(T[m]) : \A j \in 1 .. Len(T[n]) :
             \A r, k \in Nat :
               Cov(T, col, m, i, r, k) /\ Cov(T, col, n, j, r, k) => m = n /\ i = j
<1>1. ASSUME Apart(T, col), NEW m \in 1 .. Len(T), NEW n \in 1 .. Len(T),
             NEW i \in 1 .. Len(T[m]), NEW j \in 1 .. Len(T[n]), NEW r \in Nat, NEW k \in Nat,
             Cov(T, col, m, i, r, k), Cov(T, col, n, j, r, k)
      PROVE  m = n /\ i = j
  <2>1. /\ <<r, k>> \in Covers(T, col, <<m, i>>) /\ <<r, k>> \in Covers(T, col, <<n, j>>)
    BY <1>1, CoversFacts, LayoutIsNat
  <2>2. <<m, i>> \in Entry(T) /\ <<n, j>> \in Entry(T)
    BY EntryFacts
  <2>3. <<m, i>> = <<n, j>>
    BY <1>1, <2>1, <2>2 DEF Apart
  <2>. QED
    BY <2>3
<1>2. ASSUME \A m, n \in 1 .. Len(T) : \A i \in 1 .. Len(T[m]) : \A j \in 1 .. Len(T[n]) :
               \A r, k \in Nat :
                 Cov(T, col, m, i, r, k) /\ Cov(T, col, n, j, r, k) => m = n /\ i = j
      PROVE  Apart(T, col)
  <2> SUFFICES ASSUME NEW d \in Entry(T), NEW e \in Entry(T), d # e,
                      NEW p \in Covers(T, col, d), p \in Covers(T, col, e)
               PROVE  FALSE
    BY DEF Apart
  <2>1. /\ d = <<d[1], d[2]>> /\ d[1] \in 1 .. Len(T) /\ d[2] \in 1 .. Len(T[d[1]])
        /\ e = <<e[1], e[2]>> /\ e[1] \in 1 .. Len(T) /\ e[2] \in 1 .. Len(T[e[1]])
    BY EntryFacts
  <2>2. p = <<p[1], p[2]>>
    BY DEF Covers
  <2>3. /\ p[1] \in Nat /\ p[2] \in Nat /\ Cov(T, col, d[1], d[2], p[1], p[2])
    BY <2>1, <2>2, CoversFacts, LayoutIsNat
  <2>4. Cov(T, col, e[1], e[2], p[1], p[2])
    BY <2>1, <2>2, CoversFacts, LayoutIsNat
  <2>. QED
    BY <1>2, <2>1, <2>3, <2>4
<1>. QED
  BY <1>1, <1>2

(* The places an entry has in row r, one for each column it covers, and    *)
(* the columns they amount to.                                             *)
Reaches(T, e, r) == e[1] <= r /\ r <= e[1] + RSpan(T[e[1]][e[2]])
Sites(T, r) ==
  {s \in Entry(T) \X Nat : Reaches(T, s[1], r) /\ s[2] <= CSpan(T[s[1][1]][s[1][2]])}
RowCols(T, col, r) ==
  {k \in Nat : \E m \in 1 .. Len(T) : \E i \in 1 .. Len(T[m]) : Cov(T, col, m, i, r, k)}

Counts(S, n) == IsFiniteSet(S) /\ Cardinality(S) = n

LEMMA SiteFacts ==
  ASSUME NEW T \in Table, NEW r, NEW s \in Sites(T, r)
  PROVE  /\ s = <<s[1], s[2]>> /\ s[1] = <<s[1][1], s[1][2]>>
         /\ s[1] \in Entry(T) /\ s[1][1] \in 1 .. Len(T) /\ s[1][2] \in 1 .. Len(T[s[1][1]])
         /\ s[2] \in Nat /\ s[2] <= CSpan(T[s[1][1]][s[1][2]])
         /\ s[1][1] <= r /\ r <= s[1][1] + RSpan(T[s[1][1]][s[1][2]])
<1>1. /\ s \in Entry(T) \X Nat /\ Reaches(T, s[1], r)
      /\ s[2] <= CSpan(T[s[1][1]][s[1][2]])
  BY DEF Sites
<1>2. s = <<s[1], s[2]>> /\ s[1] \in Entry(T) /\ s[2] \in Nat
  BY <1>1
<1>. QED
  BY <1>1, <1>2, EntryFacts DEF Reaches

LEMMA IsSite ==
  ASSUME NEW T \in Table, NEW m \in 1 .. Len(T), NEW i \in 1 .. Len(T[m]), NEW r, NEW d \in Nat,
         m <= r, r <= m + RSpan(T[m][i]), d <= CSpan(T[m][i])
  PROVE  << <<m, i>>, d>> \in Sites(T, r)
<1>1. <<m, i>> \in Entry(T)
  BY EntryFacts
<1>. QED
  BY <1>1 DEF Sites, Reaches

(* In a row of a table whose spans do not meet there are as many columns   *)
(* covered as entries have places.                                         *)
LEMMA ColumnsOfSites ==
  ASSUME NEW T \in Table, NEW col, IsLayout(T, col), Apart(T, col), NEW r \in Nat, NEW w,
         Counts(Sites(T, r), w)
  PROVE  Counts(RowCols(T, col, r), w)
<1> DEFINE S == Sites(T, r)
           K == RowCols(T, col, r)
           Place(s) == col[s[1][1]][s[1][2]] + s[2]
           f == [s \in S |-> Place(s)]
<1>1. \A s \in S : Place(s) \in Nat /\ Cov(T, col, s[1][1], s[1][2], r, Place(s))
  <2> SUFFICES ASSUME NEW s \in S
               PROVE  Place(s) \in Nat /\ Cov(T, col, s[1][1], s[1][2], r, Place(s))
    OBVIOUS
  <2> DEFINE m == s[1][1]  i == s[1][2]  d == s[2]
  <2>1. /\ m \in 1 .. Len(T) /\ i \in 1 .. Len(T[m]) /\ d \in Nat /\ d <= CSpan(T[m][i])
        /\ m <= r /\ r <= m + RSpan(T[m][i])
    BY SiteFacts
  <2> HIDE DEF m, i, d
  <2>2. col[m][i] \in Nat /\ CSpan(T[m][i]) \in Nat
    BY <2>1, LayoutIsNat, TableFacts
  <2>3. /\ col[m][i] + d \in Nat /\ col[m][i] <= col[m][i] + d
        /\ col[m][i] + d <= col[m][i] + CSpan(T[m][i])
    <3>1. \A p, q, u \in Nat : q <= u => p + q \in Nat /\ p <= p + q /\ p + q <= p + u
      OBVIOUS
    <3>. QED
      BY <2>1, <2>2, <3>1
  <2>4. col[m][i] + d \in Nat /\ Cov(T, col, m, i, r, col[m][i] + d)
    BY <2>1, <2>3 DEF Cov
  <2>. QED
    BY <2>4 DEF m, i, d
<1>2. f \in [S -> K]
  <2> SUFFICES ASSUME NEW s \in S PROVE Place(s) \in K
    OBVIOUS
  <2>1. s[1][1] \in 1 .. Len(T) /\ s[1][2] \in 1 .. Len(T[s[1][1]])
    BY SiteFacts
  <2> HIDE DEF Place
  <2>. QED
    BY <1>1, <2>1 DEF RowCols
<1>3. \A s, t \in S : f[s] = f[t] => s = t
  <2> SUFFICES ASSUME NEW s \in S, NEW t \in S, Place(s) = Place(t) PROVE s = t
    OBVIOUS
  <2>1. /\ s = <<s[1], s[2]>> /\ s[1] = <<s[1][1], s[1][2]>>
        /\ s[1][1] \in 1 .. Len(T) /\ s[1][2] \in 1 .. Len(T[s[1][1]]) /\ s[2] \in Nat
    BY SiteFacts
  <2>2. /\ t = <<t[1], t[2]>> /\ t[1] = <<t[1][1], t[1][2]>>
        /\ t[1][1] \in 1 .. Len(T) /\ t[1][2] \in 1 .. Len(T[t[1][1]]) /\ t[2] \in Nat
    BY SiteFacts
  <2>3. /\ Place(s) \in Nat /\ Cov(T, col, s[1][1], s[1][2], r, Place(s))
        /\ Cov(T, col, t[1][1], t[1][2], r, Place(s))
    BY <1>1
  <2>4. s[1][1] = t[1][1] /\ s[1][2] = t[1][2]
    <3> HIDE DEF Place
    <3>. QED
      BY <2>1, <2>2, <2>3, ApartFacts
  <2>5. col[s[1][1]][s[1][2]] \in Nat
    BY <2>1, LayoutIsNat
  <2>6. s[2] = t[2]
    <3>1. col[s[1][1]][s[1][2]] + s[2] = col[s[1][1]][s[1][2]] + t[2]
      BY <2>4
    <3>2. \A p, q, u \in Nat : p + q = p + u => q = u
      OBVIOUS
    <3>. QED
      BY <2>1, <2>2, <2>5, <3>1, <3>2
  <2>. QED
    BY <2>1, <2>2, <2>4, <2>6
<1>4. \A k \in K : \E s \in S : f[s] = k
  <2> SUFFICES ASSUME NEW k \in K PROVE \E s \in S : Place(s) = k
    OBVIOUS
  <2>1. k \in Nat
    BY DEF RowCols
  <2>2. PICK m \in 1 .. Len(T) : \E i \in 1 .. Len(T[m]) : Cov(T, col, m, i, r, k)
    BY DEF RowCols
  <2>3. PICK i \in 1 .. Len(T[m]) : Cov(T, col, m, i, r, k)
    BY <2>2
  <2> DEFINE d == k - col[m][i]
             s == << <<m, i>>, d>>
  <2>4. col[m][i] \in Nat /\ CSpan(T[m][i]) \in Nat
    BY LayoutIsNat, TableFacts
  <2>5. d \in Nat /\ d <= CSpan(T[m][i]) /\ col[m][i] + d = k
    <3>1. col[m][i] <= k /\ k <= col[m][i] + CSpan(T[m][i])
      BY <2>3 DEF Cov
    <3>. QED
      BY ONLY <2>1, <2>4, <3>1 DEF d
  <2> HIDE DEF d
  <2>6. s \in S
    <3>1. m <= r /\ r <= m + RSpan(T[m][i])
      BY <2>3 DEF Cov
    <3>. QED
      BY <2>5, <3>1, IsSite
  <2>7. s[1][1] = m /\ s[1][2] = i /\ s[2] = d
    OBVIOUS
  <2>. QED
    BY <2>5, <2>6, <2>7
<1> HIDE DEF f, S, K
<1>5. f \in Bijection(S, K)
  BY <1>2, <1>3, <1>4, Fun_IsBij
<1>6. ExistsBijection(S, K)
  BY <1>5 DEF ExistsBijection
<1>. QED
  BY <1>6, FS_Bijection DEF Counts, S, K

(* If no row has more than w places, no entry is over the edge of w        *)
(* columns: what is left of it is covered.                                 *)
LEMMA InsideEdge ==
  ASSUME NEW T \in Table, NEW col, IsLayout(T, col), Apart(T, col), NEW w \in Nat,
         \A r \in 1 .. Len(T) : \E v \in 0 .. w : Counts(Sites(T, r), v)
  PROVE  \A n \in 1 .. Len(T) : \A j \in 1 .. Len(T[n]) : col[n][j] + CSpan(T[n][j]) <= w
<1> SUFFICES ASSUME NEW n \in 1 .. Len(T), NEW j \in 1 .. Len(T[n])
             PROVE  col[n][j] + CSpan(T[n][j]) <= w
  OBVIOUS
<1> DEFINE end == col[n][j] + CSpan(T[n][j])
           K == RowCols(T, col, n)
<1>1. n \in Nat /\ col[n][j] \in Nat \ {0} /\ CSpan(T[n][j]) \in Nat
  BY TableFacts, LayoutFacts
<1>2. end \in Nat
  BY <1>1
<1>3. \A k \in 1 .. end : k \in K
  <2> SUFFICES ASSUME NEW k \in 1 .. end PROVE k \in K
    OBVIOUS
  <2>1. k \in Nat \ {0}
    BY <1>2
  <2>2. CASE k < col[n][j]
    <3>1. k \in 1 .. col[n][j] - 1
      BY <1>1, <2>1, <2>2
    <3>2. CASE Above(T, col, n, k)
      <4>1. 1 .. n - 1 \subseteq 1 .. Len(T)
        BY <1>1, TableFacts
      <4>. QED
        BY <2>1, <3>2, <4>1 DEF Above, RowCols
    <3>3. CASE \E i \in 1 .. j - 1 : col[n][i] <= k /\ k <= col[n][i] + CSpan(T[n][i])
      <4>1. PICK i \in 1 .. j - 1 : col[n][i] <= k /\ k <= col[n][i] + CSpan(T[n][i])
        BY <3>3
      <4>2. i \in 1 .. Len(T[n])
        BY TableFacts
      <4>3. RSpan(T[n][i]) \in Nat
        BY <4>2, TableFacts
      <4>4. Cov(T, col, n, i, n, k)
        BY <1>1, <4>1, <4>3 DEF Cov
      <4>. QED
        BY <2>1, <4>2, <4>4 DEF RowCols
    <3>. QED
      BY <3>1, <3>2, <3>3, CoveredBefore
  <2>3. CASE ~(k < col[n][j])
    <3>1. RSpan(T[n][j]) \in Nat
      BY TableFacts
    <3>2. n <= n + RSpan(T[n][j])
      BY <1>1, <3>1
    <3>3. col[n][j] <= k /\ k <= end
      BY <1>1, <1>2, <2>1, <2>3
    <3>4. Cov(T, col, n, j, n, k)
      BY <1>1, <3>2, <3>3 DEF Cov
    <3>. QED
      BY <2>1, <3>4 DEF RowCols
  <2>. QED
    BY <2>2, <2>3
<1>4. PICK v \in 0 .. w : Counts(Sites(T, n), v)
  OBVIOUS
<1>5. IsFiniteSet(K) /\ Cardinality(K) = v
  BY <1>1, <1>4, ColumnsOfSites DEF Counts
<1> HIDE DEF K, end
<1>6. 1 .. end \in SUBSET K
  BY <1>3
<1>7. Cardinality(1 .. end) = end
  BY <1>2, FS_Interval
<1>8. Cardinality(1 .. end) <= v
  BY <1>5, <1>6, FS_Subset
<1>. QED
  BY <1>2, <1>7, <1>8 DEF end

(* A table whose spans do not meet, and that has as many places in each    *)
(* row as columns, fills its grid.                                         *)
LEMMA FullRowsTile ==
  ASSUME NEW T \in Table, IsLayout(T, Columns(T)), Apart(T, Columns(T)), NEW w \in Nat,
         \A r \in 1 .. Len(T) : Counts(Sites(T, r), w)
  PROVE  Tiles(T, w)
<1> DEFINE col == Columns(T)
           K(r) == RowCols(T, col, r)
<1>1. /\ Len(T) \in Nat /\ DOMAIN T = 1 .. Len(T) /\ IsLayout(T, col) /\ Apart(T, col)
  BY TableFacts
<1> HIDE DEF col
<1>2. \A m \in 1 .. Len(T) : \A i \in 1 .. Len(T[m]) :
        /\ col[m][i] \in Nat \ {0} /\ CSpan(T[m][i]) \in Nat
        /\ col[m][i] + CSpan(T[m][i]) <= w
  <2>1. \A r \in 1 .. Len(T) : \E v \in 0 .. w : Counts(Sites(T, r), v)
    BY <1>1
  <2>2. \A m \in 1 .. Len(T) : \A i \in 1 .. Len(T[m]) : col[m][i] + CSpan(T[m][i]) <= w
    BY <1>1, <2>1, InsideEdge
  <2>. QED
    BY <1>1, <2>2, TableFacts, LayoutFacts
<1>3. ASSUME NEW m \in 1 .. Len(T), NEW i \in 1 .. Len(T[m]), NEW k \in Nat,
             col[m][i] <= k, k <= col[m][i] + CSpan(T[m][i])
      PROVE  k \in 1 .. w
  <2>1. \A a, b \in Nat : a # 0 /\ a <= k /\ k <= a + b /\ a + b <= w => k \in 1 .. w
    OBVIOUS
  <2>. QED
    BY <1>2, <1>3, <2>1
<1>4. \A r \in 1 .. Len(T) : K(r) = 1 .. w
  <2> SUFFICES ASSUME NEW r \in 1 .. Len(T) PROVE K(r) = 1 .. w
    OBVIOUS
  <2>1. \A k \in K(r) : k \in 1 .. w
    <3> SUFFICES ASSUME NEW k \in K(r) PROVE k \in 1 .. w
      OBVIOUS
    <3>1. k \in Nat /\ \E m \in 1 .. Len(T) : \E i \in 1 .. Len(T[m]) : Cov(T, col, m, i, r, k)
      BY DEF RowCols
    <3>. QED
      BY <1>3, <3>1 DEF Cov
  <2>2. r \in Nat
    BY <1>1
  <2>3. IsFiniteSet(K(r)) /\ Cardinality(K(r)) = w
    BY <1>1, <2>2, ColumnsOfSites DEF Counts
  <2>4. IsFiniteSet(1 .. w) /\ Cardinality(1 .. w) = w
    BY FS_Interval
  <2> HIDE DEF K
  <2>5. K(r) \in SUBSET (1 .. w)
    BY <2>1
  <2>. QED
    BY <2>3, <2>4, <2>5, FS_Subset
<1>5. ASSUME NEW p \in (DOMAIN T) \X (1 .. w)
      PROVE  \E e \in Entry(T) : \A d \in Entry(T) : p \in Covers(T, col, d) <=> d = e
  <2>1. p[1] \in 1 .. Len(T) /\ p[2] \in 1 .. w /\ p = <<p[1], p[2]>>
    BY <1>1
  <2>2. p[1] \in Nat /\ p[2] \in Nat /\ p[2] \in K(p[1])
    BY <1>1, <1>4, <2>1
  <2>3. PICK m \in 1 .. Len(T) : \E i \in 1 .. Len(T[m]) : Cov(T, col, m, i, p[1], p[2])
    BY <2>2 DEF RowCols
  <2>4. PICK i \in 1 .. Len(T[m]) : Cov(T, col, m, i, p[1], p[2])
    BY <2>3
  <2>5. <<m, i>> \in Entry(T)
    BY EntryFacts
  <2>6. \A g, n \in 1 .. Len(T) : \A h \in 1 .. Len(T[g]) : \A j \in 1 .. Len(T[n]) :
          \A r, k \in Nat :
            Cov(T, col, g, h, r, k) /\ Cov(T, col, n, j, r, k) => g = n /\ h = j
    BY <1>1, ApartFacts
  <2>7. ASSUME NEW d \in Entry(T) PROVE p \in Covers(T, col, d) <=> d = <<m, i>>
    <3>1. d = <<d[1], d[2]>> /\ d[1] \in 1 .. Len(T) /\ d[2] \in 1 .. Len(T[d[1]])
      BY EntryFacts
    <3>2. p \in Covers(T, col, d) <=> Cov(T, col, d[1], d[2], p[1], p[2])
      BY <1>1, <2>1, <2>2, <3>1, CoversFacts, LayoutIsNat
    <3>3. Cov(T, col, d[1], d[2], p[1], p[2]) => d[1] = m /\ d[2] = i
      BY ONLY <2>2, <2>4, <2>6, <3>1, m \in 1 .. Len(T)
    <3>4. d = <<m, i>> => d[1] = m /\ d[2] = i
      OBVIOUS
    <3>. QED
      BY <2>4, <3>1, <3>2, <3>3, <3>4
  <2>. QED
    BY <2>5, <2>7
<1>6. ASSUME NEW p \in Taken(T, col) PROVE p[2] \in 1 .. w
  <2>1. PICK e \in Entry(T) : p \in Covers(T, col, e)
    BY DEF Taken
  <2>2. e = <<e[1], e[2]>> /\ e[1] \in 1 .. Len(T) /\ e[2] \in 1 .. Len(T[e[1]])
    BY EntryFacts
  <2>3. p = <<p[1], p[2]>>
    BY <2>1 DEF Covers
  <2>4. p[2] \in Nat /\ Cov(T, col, e[1], e[2], p[1], p[2])
    BY <1>1, <2>1, <2>2, <2>3, CoversFacts, LayoutIsNat
  <2>. QED
    BY <1>3, <2>2, <2>4 DEF Cov
<1>. QED
  BY <1>5, <1>6 DEF Tiles, col

(* No entry of a row above reaches row n.                                  *)
Unreached(T, n) == \A m \in 1 .. n - 1 : \A i \in 1 .. Len(T[m]) : m + RSpan(T[m][i]) < n

(* The rows of U are those of T, wider at their ends: by entries that span *)
(* nothing, or in rows that nothing reaches from above by entries of one   *)
(* row, or by a last entry that reaches no row of the table.               *)
WiderRow(T, U, n) ==
  /\ Len(T[n]) <= Len(U[n])
  /\ \A i \in 1 .. Len(T[n]) :
       /\ RSpan(U[n][i]) = RSpan(T[n][i]) /\ CSpan(T[n][i]) <= CSpan(U[n][i])
       /\ \/ CSpan(U[n][i]) = CSpan(T[n][i])
          \/ /\ i = Len(T[n]) /\ Unreached(T, n)
             /\ RSpan(T[n][i]) = 0 \/ n = Len(T)
  /\ \A i \in Len(T[n]) + 1 .. Len(U[n]) :
       /\ RSpan(U[n][i]) = 0
       /\ CSpan(U[n][i]) = 0 \/ Unreached(T, n)
Wider(T, U) == Len(U) = Len(T) /\ \A n \in 1 .. Len(T) : WiderRow(T, U, n)

(* The entries that reach a row below are those they were.                 *)
LEMMA SameReach ==
  ASSUME NEW T \in Table, NEW U \in Table, Wider(T, U),
         NEW m \in 1 .. Len(T), NEW r \in m + 1 .. Len(T), NEW i \in 1 .. Len(U[m])
  PROVE  /\ Reaches(U, <<m, i>>, r) <=> i <= Len(T[m]) /\ Reaches(T, <<m, i>>, r)
         /\ Reaches(U, <<m, i>>, r) => /\ RSpan(U[m][i]) = RSpan(T[m][i])
                                       /\ CSpan(U[m][i]) = CSpan(T[m][i])
<1>1. /\ Len(T) \in Nat /\ m \in Nat /\ Len(U) = Len(T) /\ m \in 1 .. Len(U)
      /\ r \in Nat /\ m < r /\ r <= Len(T)
  BY TableFacts DEF Wider, WiderRow
<1>2. Len(T[m]) \in Nat /\ Len(U[m]) \in Nat
  BY <1>1, TableFacts
<1>3. /\ Reaches(U, <<m, i>>, r) <=> m <= r /\ r <= m + RSpan(U[m][i])
      /\ Reaches(T, <<m, i>>, r) <=> m <= r /\ r <= m + RSpan(T[m][i])
  BY DEF Reaches
<1>4. CASE i <= Len(T[m])
  <2>1. i \in 1 .. Len(T[m])
    BY <1>2, <1>4
  <2>2. RSpan(T[m][i]) \in Nat
    BY <2>1, TableFacts
  <2>3. /\ RSpan(U[m][i]) = RSpan(T[m][i])
        /\ \/ CSpan(U[m][i]) = CSpan(T[m][i])
           \/ RSpan(T[m][i]) = 0 \/ m = Len(T)
    BY <2>1 DEF Wider, WiderRow
  <2>. QED
    BY <1>1, <1>3, <1>4, <2>2, <2>3
<1>5. CASE ~(i <= Len(T[m]))
  <2>1. i \in Len(T[m]) + 1 .. Len(U[m])
    BY <1>2, <1>5
  <2>2. RSpan(U[m][i]) = 0
    BY <2>1 DEF Wider, WiderRow
  <2>. QED
    BY <1>1, <1>3, <1>5, <2>2
<1>. QED
  BY <1>4, <1>5

LEMMA SameBelow ==
  ASSUME NEW T \in Table, NEW U \in Table, NEW c, NEW d, Wider(T, U),
         NEW m \in 1 .. Len(T), \A i \in 1 .. Len(T[m]) : d[m][i] = c[m][i],
         NEW r \in m + 1 .. Len(T), NEW k, NEW i \in 1 .. Len(U[m])
  PROVE  Cov(U, d, m, i, r, k) <=> i <= Len(T[m]) /\ Cov(T, c, m, i, r, k)
<1>1. /\ Reaches(U, <<m, i>>, r) <=> m <= r /\ r <= m + RSpan(U[m][i])
      /\ Reaches(T, <<m, i>>, r) <=> m <= r /\ r <= m + RSpan(T[m][i])
  BY DEF Reaches
<1>2. i <= Len(T[m]) => d[m][i] = c[m][i]
  <2>1. Len(T[m]) \in Nat /\ Len(U) = Len(T)
    BY TableFacts DEF Wider, WiderRow
  <2>2. Len(U[m]) \in Nat
    BY <2>1, TableFacts
  <2>3. i <= Len(T[m]) => i \in 1 .. Len(T[m])
    BY <2>1, <2>2
  <2>. QED
    BY <2>3
<1>. QED
  BY <1>1, <1>2, SameReach DEF Cov

LEMMA SameAbove ==
  ASSUME NEW T \in Table, NEW U \in Table, NEW c, NEW d, Wider(T, U),
         NEW n \in 1 .. Len(T), NEW k,
         \A m \in 1 .. n - 1 : \A i \in 1 .. Len(T[m]) : d[m][i] = c[m][i]
  PROVE  Above(U, d, n, k) <=> Above(T, c, n, k)
<1>1. Len(T) \in Nat /\ n \in Nat /\ Len(U) = Len(T)
  BY TableFacts DEF Wider, WiderRow
<1>2. ASSUME NEW m \in 1 .. n - 1
      PROVE  /\ m \in 1 .. Len(T) /\ n \in m + 1 .. Len(T)
             /\ Len(T[m]) \in Nat /\ Len(U[m]) \in Nat /\ Len(T[m]) <= Len(U[m])
  <2>1. m \in 1 .. Len(T) /\ n \in m + 1 .. Len(T)
    BY <1>1
  <2>. QED
    BY <1>1, <2>1, TableFacts DEF Wider, WiderRow
<1>3. ASSUME Above(U, d, n, k) PROVE Above(T, c, n, k)
  <2>1. PICK m \in 1 .. n - 1 : \E i \in 1 .. Len(U[m]) : Cov(U, d, m, i, n, k)
    BY <1>3 DEF Above
  <2>2. PICK i \in 1 .. Len(U[m]) : Cov(U, d, m, i, n, k)
    BY <2>1
  <2>3. i <= Len(T[m]) /\ Cov(T, c, m, i, n, k)
    BY <1>2, <2>2, SameBelow
  <2>4. i \in 1 .. Len(T[m])
    BY <1>2, <2>3
  <2>. QED
    BY <2>3, <2>4 DEF Above
<1>4. ASSUME Above(T, c, n, k) PROVE Above(U, d, n, k)
  <2>1. PICK m \in 1 .. n - 1 : \E i \in 1 .. Len(T[m]) : Cov(T, c, m, i, n, k)
    BY <1>4 DEF Above
  <2>2. PICK i \in 1 .. Len(T[m]) : Cov(T, c, m, i, n, k)
    BY <2>1
  <2>3. i \in 1 .. Len(U[m]) /\ i <= Len(T[m])
    BY <1>2
  <2>4. Cov(U, d, m, i, n, k)
    BY <1>2, <2>2, <2>3, SameBelow
  <2>. QED
    BY <2>3, <2>4 DEF Above
<1>. QED
  BY <1>3, <1>4

(* Each entry stays at its column.                                         *)
LEMMA SameColumns ==
  ASSUME NEW T \in Table, NEW U \in Table, NEW c, NEW d, Wider(T, U),
         IsLayout(T, c), IsLayout(U, d)
  PROVE  \A n \in 1 .. Len(T) : \A i \in 1 .. Len(T[n]) : d[n][i] = c[n][i]
<1> DEFINE BadRows == {n \in 1 .. Len(T) : \E i \in 1 .. Len(T[n]) : d[n][i] # c[n][i]}
<1>1. /\ Len(T) \in Nat /\ Len(U) = Len(T)
      /\ \A n \in 1 .. Len(T) :
           Len(T[n]) \in Nat /\ Len(U[n]) \in Nat /\ Len(T[n]) <= Len(U[n])
  BY TableFacts DEF Wider, WiderRow
<1>2. ASSUME BadRows # {} PROVE FALSE
  <2>1. BadRows \in SUBSET Nat
    BY <1>1
  <2>2. PICK n \in BadRows : \A m \in BadRows : n <= m
    BY <1>2, <2>1, LeastOf
  <2>3. n \in 1 .. Len(T) /\ n \in Nat
    BY <1>1
  <2>4. \A m \in 1 .. n - 1 : \A i \in 1 .. Len(T[m]) : d[m][i] = c[m][i]
    <3>1. \A m \in 1 .. n - 1 : m \in 1 .. Len(T) /\ ~(n <= m)
      BY <1>1, <2>3
    <3>2. \A m \in 1 .. n - 1 : m \notin BadRows
      BY <2>2, <3>1
    <3>. QED
      BY <3>1, <3>2
  <2>5. \A k : Above(U, d, n, k) <=> Above(T, c, n, k)
    BY <2>3, <2>4, SameAbove
  <2> DEFINE Bad == {i \in 1 .. Len(T[n]) : d[n][i] # c[n][i]}
  <2>6. Bad # {} /\ Bad \in SUBSET Nat
    BY <1>1, <2>3
  <2>7. PICK i \in Bad : \A j \in Bad : i <= j
    BY <2>6, LeastOf
  <2>8. /\ i \in 1 .. Len(T[n]) /\ i \in 1 .. Len(U[n]) /\ n \in 1 .. Len(U)
        /\ i \in Nat /\ d[n][i] # c[n][i]
    BY <1>1, <2>3
  <2>9. Behind(U, d, n, i) = Behind(T, c, n, i)
    <3>1. CASE i = 1
      BY <3>1 DEF Behind
    <3>2. CASE i # 1
      <4>1. i - 1 \in 1 .. Len(T[n]) /\ ~(i <= i - 1) /\ i - 1 # Len(T[n])
        BY <1>1, <2>3, <2>8, <3>2
      <4>2. d[n][i - 1] = c[n][i - 1]
        BY <2>7, <4>1
      <4>3. CSpan(U[n][i - 1]) = CSpan(T[n][i - 1])
        BY <2>3, <4>1 DEF Wider, WiderRow
      <4>. QED
        BY <3>2, <4>2, <4>3 DEF Behind
    <3>. QED
      BY <3>1, <3>2
  <2> DEFINE b == Behind(T, c, n, i)
  <2>10. /\ c[n][i] \in Nat /\ ~Above(T, c, n, c[n][i]) /\ b \in Nat /\ b <= c[n][i]
         /\ \A k \in b .. c[n][i] - 1 : Above(T, c, n, k)
    BY <2>3, <2>8, LayoutFacts
  <2>11. /\ d[n][i] \in Nat /\ ~Above(U, d, n, d[n][i]) /\ b <= d[n][i]
         /\ \A k \in b .. d[n][i] - 1 : Above(U, d, n, k)
    BY <2>8, <2>9, LayoutFacts
  <2> HIDE DEF b, Bad
  <2>12. d[n][i] < c[n][i] \/ c[n][i] < d[n][i]
    BY <2>8, <2>10, <2>11
  <2>13. CASE d[n][i] < c[n][i]
    <3>1. d[n][i] \in b .. c[n][i] - 1
      BY <2>10, <2>11, <2>13
    <3>. QED
      BY <2>5, <2>10, <2>11, <3>1
  <2>14. CASE c[n][i] < d[n][i]
    <3>1. c[n][i] \in b .. d[n][i] - 1
      BY <2>10, <2>11, <2>14
    <3>. QED
      BY <2>5, <2>10, <2>11, <3>1
  <2>. QED
    BY <2>12, <2>13, <2>14
<1>. QED
  BY <1>2

LEMMA ApartWider ==
  ASSUME NEW T \in Table, NEW U \in Table, NEW c, NEW d, Wider(T, U),
         IsLayout(T, c), IsLayout(U, d), Apart(T, c)
  PROVE  Apart(U, d)
<1>1. /\ Len(T) \in Nat /\ Len(U) = Len(T)
      /\ \A n \in 1 .. Len(T) :
           Len(T[n]) \in Nat /\ Len(U[n]) \in Nat /\ Len(T[n]) <= Len(U[n])
  BY TableFacts DEF Wider, WiderRow
<1>2. \A n \in 1 .. Len(T) : \A i \in 1 .. Len(T[n]) : d[n][i] = c[n][i]
  BY SameColumns
<1>3. ASSUME NEW n \in 1 .. Len(T), NEW i \in 1 .. Len(U[n]), NEW j \in 1 .. Len(U[n]),
             NEW r \in Nat, NEW k \in Nat, Cov(U, d, n, i, r, k), Cov(U, d, n, j, r, k)
      PROVE  ~(i < j)
  <2> SUFFICES ASSUME i < j PROVE FALSE
    OBVIOUS
  <2>1. n \in 1 .. Len(U) /\ i \in 1 .. j - 1
    BY <1>1
  <2>2. d[n][i] + CSpan(U[n][i]) < d[n][j]
    BY <2>1, LeftToRight
  <2>3. k <= d[n][i] + CSpan(U[n][i]) /\ d[n][j] <= k
    BY <1>3 DEF Cov
  <2>4. d[n][i] \in Nat /\ CSpan(U[n][i]) \in Nat /\ d[n][j] \in Nat
    BY <2>1, TableFacts, LayoutIsNat
  <2>5. \A p, q, s \in Nat : ~(p + q < s /\ k <= p + q /\ s <= k)
    OBVIOUS
  <2>. QED
    BY <2>2, <2>3, <2>4, <2>5
<1>4. ASSUME NEW m \in 1 .. Len(T), NEW n \in 1 .. Len(T),
             NEW i \in 1 .. Len(U[m]), NEW j \in 1 .. Len(U[n]),
             NEW r \in Nat, NEW k \in Nat, Cov(U, d, m, i, r, k), Cov(U, d, n, j, r, k)
      PROVE  ~(m < n)
  <2> SUFFICES ASSUME m < n PROVE FALSE
    OBVIOUS
  <2>1. m \in Nat /\ n \in Nat /\ m \in 1 .. n - 1 /\ n \in m + 1 .. Len(T) /\ n \in 1 .. Len(U)
    BY <1>1
  <2>2. RSpan(U[m][i]) \in Nat /\ CSpan(U[n][j]) \in Nat /\ d[n][j] \in Nat
    BY <1>1, TableFacts, LayoutIsNat
  <2>3. Cov(U, d, m, i, n, k)
    <3>1. /\ n <= r /\ r <= m + RSpan(U[m][i])
          /\ d[m][i] <= k /\ k <= d[m][i] + CSpan(U[m][i])
      BY <1>4 DEF Cov
    <3> DEFINE below == m + RSpan(U[m][i])
    <3>2. m \in Nat /\ n \in Nat /\ m <= n
      BY <2>1
    <3>3. below \in Nat /\ r <= below
      BY ONLY <2>2, <3>1, <3>2
    <3> HIDE DEF below
    <3>4. n <= below
      BY ONLY <3>1, <3>2, <3>3, r \in Nat
    <3>. QED
      BY <3>1, <3>2, <3>4 DEF Cov, below
  <2>4. i <= Len(T[m]) /\ Cov(T, c, m, i, n, k)
    BY <1>2, <2>1, <2>3, SameBelow
  <2>5. i \in 1 .. Len(T[m])
    BY <1>1, <2>4
  <2>6. ~Unreached(T, n)
    <3>1. ~(m + RSpan(T[m][i]) < n)
      <4>1. RSpan(T[m][i]) \in Nat
        BY <2>5, TableFacts
      <4>. QED
        BY <2>1, <2>4, <4>1 DEF Cov
    <3>. QED
      BY <2>1, <2>5, <3>1 DEF Unreached
  <2>7. d[n][j] <= k /\ k <= d[n][j] + CSpan(U[n][j])
    BY <1>4 DEF Cov
  <2>8. CASE j <= Len(T[n])
    <3>1. j \in 1 .. Len(T[n])
      BY <1>1, <2>8
    <3>2. CSpan(U[n][j]) = CSpan(T[n][j]) /\ d[n][j] = c[n][j] /\ RSpan(T[n][j]) \in Nat
      BY <1>2, <2>6, <3>1, TableFacts DEF Wider, WiderRow
    <3>3. n <= n /\ n <= n + RSpan(T[n][j])
      BY <2>1, <3>2
    <3>4. Cov(T, c, n, j, n, k)
      BY <2>7, <3>2, <3>3 DEF Cov
    <3>5. m = n
      BY <2>1, <2>4, <2>5, <3>1, <3>4, ApartFacts
    <3>. QED
      BY <2>1, <3>5
  <2>9. CASE ~(j <= Len(T[n]))
    <3>1. j \in Len(T[n]) + 1 .. Len(U[n])
      BY <1>1, <2>9
    <3>2. CSpan(U[n][j]) = 0
      BY <2>6, <3>1 DEF Wider, WiderRow
    <3>3. k = d[n][j]
      BY <2>2, <2>7, <3>2
    <3>4. ~Above(U, d, n, d[n][j])
      BY <2>1, LayoutFacts
    <3>. QED
      BY <2>1, <2>3, <3>3, <3>4 DEF Above
  <2>. QED
    BY <2>8, <2>9
<1>5. ASSUME NEW m \in 1 .. Len(U), NEW n \in 1 .. Len(U),
             NEW i \in 1 .. Len(U[m]), NEW j \in 1 .. Len(U[n]),
             NEW r \in Nat, NEW k \in Nat, Cov(U, d, m, i, r, k), Cov(U, d, n, j, r, k)
      PROVE  m = n /\ i = j
  <2>1. m \in 1 .. Len(T) /\ n \in 1 .. Len(T) /\ m \in Nat /\ n \in Nat
    BY <1>1
  <2>2. ~(m < n) /\ ~(n < m)
    BY <1>4, <1>5, <2>1
  <2>3. m = n
    BY <2>1, <2>2
  <2>4. i \in Nat /\ j \in Nat /\ j \in 1 .. Len(U[m])
    BY <1>1, <2>1, <2>3
  <2>5. ~(i < j) /\ ~(j < i)
    BY <1>3, <1>5, <2>1, <2>3, <2>4
  <2>. QED
    BY <2>3, <2>4, <2>5
<1>. QED
  BY <1>5, ApartFacts

(* The places a row has got.                                               *)
Extra(T, U, n) ==
  {s \in Sites(U, n) :
     s[1][1] = n /\ (s[1][2] > Len(T[n]) \/ s[2] > CSpan(T[n][s[1][2]]))}

LEMMA SitesWider ==
  ASSUME NEW T \in Table, NEW U \in Table, Wider(T, U), NEW n \in 1 .. Len(T), NEW v, NEW w \in Nat,
         Counts(Sites(T, n), v), Counts(Extra(T, U, n), w)
  PROVE  Counts(Sites(U, n), v + w)
<1>1. /\ Len(T) \in Nat /\ n \in Nat /\ Len(U) = Len(T)
      /\ \A m \in 1 .. Len(T) :
           Len(T[m]) \in Nat /\ Len(U[m]) \in Nat /\ Len(T[m]) <= Len(U[m])
  BY TableFacts DEF Wider, WiderRow
<1>2. ASSUME NEW s \in Sites(T, n) PROVE s \in Sites(U, n) /\ s \notin Extra(T, U, n)
  <2> DEFINE m == s[1][1]  i == s[1][2]  d == s[2]
  <2>1. /\ s = << <<m, i>>, d>> /\ m \in 1 .. Len(T) /\ i \in 1 .. Len(T[m])
        /\ d \in Nat /\ d <= CSpan(T[m][i]) /\ m <= n /\ n <= m + RSpan(T[m][i])
    BY SiteFacts
  <2> HIDE DEF m, i, d
  <2>2. /\ m \in 1 .. Len(U) /\ i \in 1 .. Len(U[m]) /\ i \in 1 .. Len(T[m])
        /\ i <= Len(T[m]) /\ m \in Nat /\ i \in Nat
    BY <1>1, <2>1
  <2>3. /\ RSpan(U[m][i]) = RSpan(T[m][i]) /\ CSpan(T[m][i]) <= CSpan(U[m][i])
        /\ CSpan(T[m][i]) \in Nat /\ CSpan(U[m][i]) \in Nat
    BY <2>1, <2>2, TableFacts DEF Wider, WiderRow
  <2>4. d <= CSpan(U[m][i])
    BY <2>1, <2>3
  <2>5. s \in Sites(U, n)
    BY <2>1, <2>2, <2>3, <2>4, IsSite
  <2>6. m = n => ~(i > Len(T[n])) /\ ~(d > CSpan(T[n][i]))
    BY <2>1, <2>2, <2>3
  <2>7. s \notin Extra(T, U, n)
    BY <2>6 DEF Extra, m, i, d
  <2>. QED
    BY <2>5, <2>7
<1>3. ASSUME NEW s \in Sites(U, n), s \notin Extra(T, U, n) PROVE s \in Sites(T, n)
  <2> DEFINE m == s[1][1]  i == s[1][2]  d == s[2]
  <2>1. /\ s = << <<m, i>>, d>> /\ m \in 1 .. Len(U) /\ i \in 1 .. Len(U[m])
        /\ d \in Nat /\ d <= CSpan(U[m][i]) /\ m <= n /\ n <= m + RSpan(U[m][i])
    BY SiteFacts
  <2>2. m = n => ~(i > Len(T[n])) /\ ~(d > CSpan(T[n][i]))
    BY <1>3 DEF Extra
  <2> HIDE DEF m, i, d
  <2>3. m \in 1 .. Len(T) /\ m \in Nat
    BY <1>1, <2>1
  <2>4. CASE m = n
    <3>1. i \in 1 .. Len(T[m]) /\ i \in Nat
      BY <1>1, <2>1, <2>2, <2>3, <2>4
    <3>2. CSpan(T[m][i]) \in Nat /\ RSpan(T[m][i]) \in Nat
      BY <2>3, <3>1, TableFacts
    <3>3. d <= CSpan(T[m][i]) /\ m <= n /\ n <= m + RSpan(T[m][i])
      BY <2>1, <2>2, <2>3, <2>4, <3>2
    <3>. QED
      BY <2>1, <2>3, <3>1, <3>3, IsSite
  <2>5. CASE m # n
    <3>1. n \in m + 1 .. Len(T)
      BY <1>1, <2>1, <2>3, <2>5
    <3>2. Reaches(U, <<m, i>>, n)
      BY <2>1 DEF Reaches
    <3>3. /\ i <= Len(T[m])
          /\ RSpan(U[m][i]) = RSpan(T[m][i]) /\ CSpan(U[m][i]) = CSpan(T[m][i])
      BY <2>1, <2>3, <3>1, <3>2, SameReach
    <3>4. i \in 1 .. Len(T[m])
      BY <1>1, <2>1, <2>3, <3>3
    <3>. QED
      BY <2>1, <2>3, <3>3, <3>4, IsSite
  <2>. QED
    BY <2>4, <2>5
<1> DEFINE A == Sites(T, n)  B == Extra(T, U, n)
<1>4. B \subseteq Sites(U, n)
  BY DEF Extra
<1>5. Sites(U, n) = A \cup B /\ A \cap B = {}
  <2>1. \A s : s \in Sites(U, n) <=> s \in A \/ s \in B
    BY <1>2, <1>3, <1>4
  <2>. QED
    BY <1>2, <2>1
<1> HIDE DEF A, B
<1>6. /\ IsFiniteSet(A \cup B)
      /\ Cardinality(A \cup B) = Cardinality(A) + Cardinality(B) - Cardinality({})
  BY <1>5, FS_Union DEF Counts, A, B
<1>7. Cardinality(A) = v /\ Cardinality(B) = w /\ v \in Nat
  BY FS_CardinalityType DEF Counts, A, B
<1>8. Cardinality(A \cup B) = v + w
  BY <1>6, <1>7, FS_EmptySet
<1>. QED
  BY <1>5, <1>6, <1>8 DEF Counts

LEMMA ExtraFacts ==
  ASSUME NEW T, NEW U \in Table, NEW n \in 1 .. Len(U)
  PROVE  /\ \A s \in Extra(T, U, n) :
              /\ s = << <<n, s[1][2]>>, s[2]>>
              /\ s[1][2] \in 1 .. Len(U[n]) /\ s[2] \in Nat /\ s[2] <= CSpan(U[n][s[1][2]])
              /\ s[1][2] > Len(T[n]) \/ s[2] > CSpan(T[n][s[1][2]])
         /\ \A i \in 1 .. Len(U[n]) : \A d \in Nat :
              d <= CSpan(U[n][i]) /\ (i > Len(T[n]) \/ d > CSpan(T[n][i]))
                => << <<n, i>>, d>> \in Extra(T, U, n)
<1>1. n \in Nat
  BY TableFacts
<1>2. ASSUME NEW s \in Extra(T, U, n)
      PROVE  /\ s = << <<n, s[1][2]>>, s[2]>>
             /\ s[1][2] \in 1 .. Len(U[n]) /\ s[2] \in Nat /\ s[2] <= CSpan(U[n][s[1][2]])
             /\ s[1][2] > Len(T[n]) \/ s[2] > CSpan(T[n][s[1][2]])
  <2>1. s \in Sites(U, n) /\ s[1][1] = n
    BY DEF Extra
  <2>2. s[1][2] > Len(T[n]) \/ s[2] > CSpan(T[n][s[1][2]])
    BY DEF Extra
  <2>3. /\ s = <<s[1], s[2]>> /\ s[1] = <<n, s[1][2]>>
        /\ s[1][2] \in 1 .. Len(U[n]) /\ s[2] \in Nat /\ s[2] <= CSpan(U[n][s[1][2]])
    BY <2>1, SiteFacts
  <2>4. s = << <<n, s[1][2]>>, s[2]>>
    BY <2>3
  <2>. QED
    BY <2>2, <2>3, <2>4
<1>3. ASSUME NEW i \in 1 .. Len(U[n]), NEW d \in Nat,
             d <= CSpan(U[n][i]), i > Len(T[n]) \/ d > CSpan(T[n][i])
      PROVE  << <<n, i>>, d>> \in Extra(T, U, n)
  <2> DEFINE s == << <<n, i>>, d>>
  <2>1. RSpan(U[n][i]) \in Nat
    BY TableFacts
  <2>2. n <= n /\ n <= n + RSpan(U[n][i])
    BY <1>1, <2>1
  <2>3. s \in Sites(U, n)
    BY <1>3, <2>2, IsSite
  <2>4. s[1][1] = n /\ s[1][2] = i /\ s[2] = d
    OBVIOUS
  <2> HIDE DEF s
  <2>5. s \in Extra(T, U, n)
    BY <1>3, <2>3, <2>4 DEF Extra
  <2>. QED
    BY <2>5 DEF s
<1>. QED
  BY <1>2, <1>3

(* What roundOffTableDefinition makes of a row's entries, g places short:  *)
(* g entries more, or its last entry g columns wider, or one more entry.   *)
FilledUp(p, q, g) ==
  /\ Len(q) = Len(p) + g /\ \A i \in 1 .. Len(p) : q[i] = p[i]
  /\ \A i \in Len(p) + 1 .. Len(q) : CSpan(q[i]) = 0 /\ RSpan(q[i]) = 0
LastWider(p, q, g) ==
  /\ Len(q) = Len(p) /\ Len(p) # 0 /\ \A i \in 1 .. Len(p) - 1 : q[i] = p[i]
  /\ CSpan(q[Len(p)]) = CSpan(p[Len(p)]) + g /\ RSpan(q[Len(p)]) = RSpan(p[Len(p)])
OneMore(p, q, g) ==
  /\ Len(q) = Len(p) + 1 /\ g # 0 /\ \A i \in 1 .. Len(p) : q[i] = p[i]
  /\ CSpan(q[Len(q)]) = g - 1 /\ RSpan(q[Len(q)]) = 0

LEMMA BlockCounts ==
  ASSUME NEW A, NEW a \in Nat, NEW b \in Nat, a <= b + 1
  PROVE  /\ Counts({A} \X (a .. b), b + 1 - a)
         /\ Counts(({A} \X (a .. b)) \X {0}, b + 1 - a)
<1> DEFINE S == {A} \X (a .. b)
           I == a .. b
<1>1. IsFiniteSet({A}) /\ Cardinality({A}) = 1 /\ IsFiniteSet({0}) /\ Cardinality({0}) = 1
  BY FS_Singleton
<1>2. IsFiniteSet(I) /\ Cardinality(I) = b + 1 - a
  BY FS_Interval
<1> HIDE DEF I
<1>3. IsFiniteSet({A} \X I) /\ Cardinality({A} \X I) = 1 * (b + 1 - a)
  <2>1. IsFiniteSet({A} \X I) /\ Cardinality({A} \X I) = Cardinality({A}) * Cardinality(I)
    BY ONLY <1>1, <1>2, FS_Product
  <2>. QED
    BY ONLY <1>1, <1>2, <2>1
<1> HIDE DEF S
<1>4. IsFiniteSet(S) /\ Cardinality(S) = b + 1 - a
  BY <1>3 DEF S, I
<1>5. IsFiniteSet(S \X {0}) /\ Cardinality(S \X {0}) = (b + 1 - a) * 1
  BY <1>1, <1>4, FS_Product
<1>6. (b + 1 - a) * 1 = b + 1 - a
  OBVIOUS
<1>. QED
  BY <1>4, <1>5, <1>6 DEF Counts, S, I

LEMMA ExtraCounts ==
  ASSUME NEW T \in Table, NEW U \in Table, Len(U) = Len(T), NEW n \in 1 .. Len(T), NEW g \in Nat,
         FilledUp(T[n], U[n], g) \/ LastWider(T[n], U[n], g) \/ OneMore(T[n], U[n], g)
  PROVE  Counts(Extra(T, U, n), g)
<1> DEFINE E == Extra(T, U, n)
           p == T[n]
           q == U[n]
<1>1. /\ Len(p) \in Nat /\ Len(q) \in Nat /\ n \in 1 .. Len(U)
      /\ \A i \in 1 .. Len(p) : CSpan(p[i]) \in Nat
      /\ \A i \in 1 .. Len(q) : CSpan(q[i]) \in Nat
  BY TableFacts
<1>2. /\ \A s \in E :
           /\ s = << <<n, s[1][2]>>, s[2]>>
           /\ s[1][2] \in 1 .. Len(q) /\ s[2] \in Nat /\ s[2] <= CSpan(q[s[1][2]])
           /\ s[1][2] > Len(p) \/ s[2] > CSpan(p[s[1][2]])
      /\ \A i \in 1 .. Len(q) : \A d \in Nat :
           d <= CSpan(q[i]) /\ (i > Len(p) \/ d > CSpan(p[i])) => << <<n, i>>, d>> \in E
  BY <1>1, ExtraFacts
<1> HIDE DEF E, p, q
<1>3. CASE FilledUp(p, q, g)
  <2> DEFINE B == ({n} \X (Len(p) + 1 .. Len(p) + g)) \X {0}
  <2>1. /\ Len(q) = Len(p) + g /\ \A i \in 1 .. Len(p) : q[i] = p[i]
        /\ \A i \in Len(p) + 1 .. Len(q) : CSpan(q[i]) = 0
    BY <1>3 DEF FilledUp
  <2>2. ASSUME NEW s \in E PROVE s \in B
    <3> DEFINE i == s[1][2]  d == s[2]
    <3>1. /\ s = << <<n, i>>, d>> /\ i \in 1 .. Len(q) /\ d \in Nat /\ d <= CSpan(q[i])
          /\ i > Len(p) \/ d > CSpan(p[i])
      BY <1>2
    <3> HIDE DEF i, d
    <3>2. i > Len(p)
      <4> SUFFICES ASSUME ~(i > Len(p)) PROVE FALSE
        OBVIOUS
      <4>1. i \in 1 .. Len(p)
        BY <1>1, <3>1
      <4>2. q[i] = p[i] /\ CSpan(p[i]) \in Nat
        BY <1>1, <2>1, <4>1
      <4>. QED
        BY <1>1, <3>1, <4>1, <4>2
    <3>3. i \in Len(p) + 1 .. Len(p) + g
      BY <1>1, <2>1, <3>1, <3>2
    <3>4. d = 0
      BY <2>1, <3>1, <3>3
    <3>. QED
      BY <3>1, <3>3, <3>4
  <2>3. ASSUME NEW s \in B PROVE s \in E
    <3>1. PICK i \in Len(p) + 1 .. Len(p) + g : s = << <<n, i>>, 0>>
      OBVIOUS
    <3>2. i \in 1 .. Len(q) /\ i > Len(p) /\ CSpan(q[i]) = 0
      BY <1>1, <2>1
    <3>. QED
      BY <1>2, <3>1, <3>2
  <2>4. E = B
    BY <2>2, <2>3
  <2>5. /\ Len(p) + 1 \in Nat /\ Len(p) + g \in Nat /\ Len(p) + 1 <= (Len(p) + g) + 1
        /\ (Len(p) + g) + 1 - (Len(p) + 1) = g
    BY <1>1
  <2>6. Counts(B, (Len(p) + g) + 1 - (Len(p) + 1))
    BY <2>5, BlockCounts
  <2> HIDE DEF B
  <2>. QED
    BY ONLY <2>4, <2>5, <2>6 DEF E
<1>4. CASE LastWider(p, q, g)
  <2> DEFINE l == Len(p)
             c == CSpan(p[l])
             B == {<<n, l>>} \X (c + 1 .. c + g)
  <2>1. /\ Len(q) = l /\ l # 0 /\ \A i \in 1 .. l - 1 : q[i] = p[i]
        /\ CSpan(q[l]) = c + g
    BY <1>4 DEF LastWider
  <2>2. l \in Nat /\ l \in 1 .. Len(p) /\ l \in 1 .. Len(q) /\ c \in Nat /\ ~(l > Len(p))
    BY <1>1, <2>1
  <2> HIDE DEF l, c
  <2>3. ASSUME NEW s \in E PROVE s \in B
    <3> DEFINE i == s[1][2]  d == s[2]
    <3>1. /\ s = << <<n, i>>, d>> /\ i \in 1 .. Len(q) /\ d \in Nat /\ d <= CSpan(q[i])
          /\ i > Len(p) \/ d > CSpan(p[i])
      BY <1>2
    <3> HIDE DEF i, d
    <3>2. d > CSpan(p[i]) /\ i \in 1 .. Len(p)
      BY <1>1, <2>1, <3>1 DEF l
    <3>3. i = l
      <4> SUFFICES ASSUME i # l PROVE FALSE
        OBVIOUS
      <4>1. i \in 1 .. l - 1
        BY <2>1, <2>2, <3>1
      <4>2. q[i] = p[i] /\ CSpan(p[i]) \in Nat
        BY <1>1, <2>1, <3>2, <4>1
      <4>. QED
        BY <3>1, <3>2, <4>2
    <3>4. d \in c + 1 .. c + g
      BY <2>1, <2>2, <3>1, <3>2, <3>3 DEF c
    <3>. QED
      BY <3>1, <3>3, <3>4
  <2>4. ASSUME NEW s \in B PROVE s \in E
    <3>1. PICK d \in c + 1 .. c + g : s = << <<n, l>>, d>>
      OBVIOUS
    <3>2. d \in Nat /\ d <= CSpan(q[l]) /\ d > CSpan(p[l])
      BY <2>1, <2>2 DEF c
    <3>. QED
      BY <1>2, <2>2, <3>1, <3>2
  <2>5. E = B
    BY <2>3, <2>4
  <2>6. c + 1 \in Nat /\ c + g \in Nat /\ c + 1 <= (c + g) + 1 /\ (c + g) + 1 - (c + 1) = g
    BY <2>2
  <2>7. Counts(B, (c + g) + 1 - (c + 1))
    BY <2>6, BlockCounts
  <2> HIDE DEF B
  <2>. QED
    BY ONLY <2>5, <2>6, <2>7 DEF E
<1>5. CASE OneMore(p, q, g)
  <2> DEFINE l == Len(q)
             B == {<<n, l>>} \X (0 .. g - 1)
  <2>1. /\ l = Len(p) + 1 /\ g # 0 /\ \A i \in 1 .. Len(p) : q[i] = p[i]
        /\ CSpan(q[l]) = g - 1
    BY <1>5 DEF OneMore
  <2>2. l \in Nat /\ l \in 1 .. Len(q) /\ l > Len(p) /\ g - 1 \in Nat
    BY <1>1, <2>1
  <2>3. ASSUME NEW s \in E PROVE s \in B
    <3> DEFINE i == s[1][2]  d == s[2]
    <3>1. /\ s = << <<n, i>>, d>> /\ i \in 1 .. Len(q) /\ d \in Nat /\ d <= CSpan(q[i])
          /\ i > Len(p) \/ d > CSpan(p[i])
      BY <1>2
    <3> HIDE DEF i, d, l
    <3>2. i = l
      <4> SUFFICES ASSUME i # l PROVE FALSE
        OBVIOUS
      <4>1. i \in 1 .. Len(p)
        BY <1>1, <2>1, <3>1 DEF l
      <4>2. q[i] = p[i] /\ CSpan(p[i]) \in Nat
        BY <1>1, <2>1, <4>1
      <4>. QED
        BY <1>1, <3>1, <4>1, <4>2
    <3>3. d \in 0 .. g - 1
      BY <2>1, <2>2, <3>1, <3>2
    <3>. QED
      BY <3>1, <3>2, <3>3
  <2>4. ASSUME NEW s \in B PROVE s \in E
    <3>1. PICK d \in 0 .. g - 1 : s = << <<n, l>>, d>>
      OBVIOUS
    <3>2. d \in Nat /\ d <= CSpan(q[l])
      BY <2>1, <2>2
    <3>. QED
      BY <1>2, <2>2, <3>1, <3>2
  <2>5. E = B
    BY <2>3, <2>4
  <2>6. 0 <= (g - 1) + 1 /\ (g - 1) + 1 - 0 = g
    BY <2>2
  <2>7. Counts(B, (g - 1) + 1 - 0)
    BY <2>2, <2>6, BlockCounts
  <2> HIDE DEF B
  <2>. QED
    BY ONLY <2>5, <2>6, <2>7 DEF E
<1>. QED
  BY <1>3, <1>4, <1>5 DEF E, p, q

Grown(p, q, g, fill) ==
  \/ g = 0 /\ q = p
  \/ g # 0 /\ fill /\ FilledUp(p, q, g)
  \/ g # 0 /\ ~fill /\ (LastWider(p, q, g) \/ OneMore(p, q, g))

(* Rows with fewer columns than another, and those they leave alone        *)
ShortIn(T, col, n) ==
  \E p \in Taken(T, col) : \E k \in 1 .. p[2] : <<n, k>> \notin Taken(T, col)
PlainIn(T, n) ==
  /\ RSpan(T[n][Len(T[n])]) = 0 \/ n = Len(T)
  /\ Unreached(T, n)

LEMMA FewerIsShort ==
  ASSUME NEW T \in Table, NEW col, IsLayout(T, col), Apart(T, col),
         NEW n \in 1 .. Len(T), NEW r \in 1 .. Len(T), NEW v \in Nat, NEW w \in Nat, v < w,
         Counts(Sites(T, n), v), Counts(Sites(T, r), w)
  PROVE  ShortIn(T, col, n)
<1> DEFINE N == RowCols(T, col, n)
           R == RowCols(T, col, r)
<1>1. n \in Nat /\ r \in Nat
  BY TableFacts
<1>2. IsFiniteSet(N) /\ Cardinality(N) = v /\ Cardinality(R) = w
  BY <1>1, ColumnsOfSites DEF Counts
<1>3. \E k \in R : k \notin N
  <2> SUFFICES ASSUME \A k \in R : k \in N PROVE FALSE
    OBVIOUS
  <2> HIDE DEF N, R
  <2>1. R \in SUBSET N
    OBVIOUS
  <2>2. w <= v
    BY <1>2, <2>1, FS_Subset
  <2>. QED
    BY <2>2
<1>4. PICK k \in R : k \notin N
  BY <1>3
<1>5. k \in Nat
  BY DEF RowCols
<1>6. PICK m \in 1 .. Len(T) : \E i \in 1 .. Len(T[m]) : Cov(T, col, m, i, r, k)
  BY DEF RowCols
<1>7. PICK i \in 1 .. Len(T[m]) : Cov(T, col, m, i, r, k)
  BY <1>6
<1>8. <<r, k>> \in Taken(T, col)
  <2>1. <<m, i>> \in Entry(T)
    BY EntryFacts
  <2>2. <<r, k>> \in Covers(T, col, <<m, i>>)
    BY <1>1, <1>5, <1>7, CoversFacts, LayoutIsNat
  <2>. QED
    BY <2>1, <2>2 DEF Taken
<1>9. <<n, k>> \notin Taken(T, col)
  <2> SUFFICES ASSUME <<n, k>> \in Taken(T, col) PROVE k \in N
    BY <1>4
  <2>1. PICK e \in Entry(T) : <<n, k>> \in Covers(T, col, e)
    BY DEF Taken
  <2>2. e = <<e[1], e[2]>> /\ e[1] \in 1 .. Len(T) /\ e[2] \in 1 .. Len(T[e[1]])
    BY EntryFacts
  <2>3. Cov(T, col, e[1], e[2], n, k)
    BY <2>1, <2>2, CoversFacts, LayoutIsNat
  <2>. QED
    BY <1>5, <2>2, <2>3 DEF RowCols
<1>10. k \in 1 .. k
  <2>1. col[m][i] \in Nat \ {0} /\ col[m][i] <= k
    BY <1>7, LayoutFacts DEF Cov
  <2>. QED
    BY <1>5, <2>1
<1>11. <<r, k>>[2] = k
  OBVIOUS
<1>. QED
  BY <1>8, <1>9, <1>10, <1>11 DEF ShortIn

(* A row that has got what it was short of is as Wider asks for.           *)
LEMMA GrownIsWider ==
  ASSUME NEW T \in Table, NEW U \in Table, Len(U) = Len(T), NEW fill \in BOOLEAN,
         NEW n \in 1 .. Len(T), NEW g \in Nat, Grown(T[n], U[n], g, fill),
         g # 0 /\ ~fill => PlainIn(T, n)
  PROVE  WiderRow(T, U, n) /\ Counts(Extra(T, U, n), g)
<1> DEFINE p == T[n]  q == U[n]  l == Len(T[n])
<1>1. /\ l \in Nat /\ n \in 1 .. Len(U)
      /\ \A i \in 1 .. l : CSpan(p[i]) \in Nat /\ CSpan(p[i]) <= CSpan(p[i])
  <2>1. l \in Nat /\ n \in 1 .. Len(U) /\ \A i \in 1 .. l : CSpan(p[i]) \in Nat
    BY TableFacts
  <2>2. \A a \in Nat : a <= a
    OBVIOUS
  <2>. QED
    BY <2>1, <2>2
<1>2. CASE FilledUp(p, q, g)
  <2>1. Counts(Extra(T, U, n), g)
    BY <1>2, ExtraCounts
  <2>2. /\ Len(q) = l + g /\ \A i \in 1 .. l : q[i] = p[i]
        /\ \A i \in l + 1 .. Len(q) : CSpan(q[i]) = 0 /\ RSpan(q[i]) = 0
    BY <1>2 DEF FilledUp
  <2>3. l <= Len(q)
    BY <1>1, <2>2
  <2>. QED
    BY <1>1, <2>1, <2>2, <2>3 DEF WiderRow
<1>3. CASE LastWider(p, q, g) /\ PlainIn(T, n)
  <2>1. Counts(Extra(T, U, n), g)
    BY <1>3, ExtraCounts
  <2>2. /\ Len(q) = l /\ l # 0 /\ \A i \in 1 .. l - 1 : q[i] = p[i]
        /\ CSpan(q[l]) = CSpan(p[l]) + g /\ RSpan(q[l]) = RSpan(p[l])
        /\ RSpan(p[l]) = 0 \/ n = Len(T)
        /\ Unreached(T, n)
    BY <1>3 DEF LastWider, PlainIn
  <2> HIDE DEF p, q, l
  <2>3. \A i \in 1 .. l : i \in 1 .. l - 1 \/ i = l
    BY <1>1
  <2>4. l \in 1 .. l /\ CSpan(p[l]) <= CSpan(q[l])
    BY <1>1, <2>2
  <2>5. l <= Len(q) /\ l + 1 .. Len(q) = {}
    BY <1>1, <2>2
  <2>6. \A i \in 1 .. l :
              /\ RSpan(q[i]) = RSpan(p[i]) /\ CSpan(p[i]) <= CSpan(q[i])
              /\ \/ CSpan(q[i]) = CSpan(p[i])
                 \/ /\ i = l /\ Unreached(T, n)
                    /\ RSpan(p[i]) = 0 \/ n = Len(T)
    BY <1>1, <2>2, <2>3, <2>4
  <2>. QED
    BY <2>1, <2>5, <2>6 DEF p, q, l, WiderRow
<1>4. CASE OneMore(p, q, g) /\ PlainIn(T, n)
  <2>1. Counts(Extra(T, U, n), g)
    BY <1>4, ExtraCounts
  <2>2. /\ Len(q) = l + 1 /\ \A i \in 1 .. l : q[i] = p[i]
        /\ RSpan(q[Len(q)]) = 0 /\ Unreached(T, n)
    BY <1>4 DEF OneMore, PlainIn
  <2> HIDE DEF p, q, l
  <2>3. l <= Len(q) /\ \A i \in l + 1 .. Len(q) : i = Len(q)
    BY <1>1, <2>2
  <2>. QED
    BY <1>1, <2>1, <2>2, <2>3 DEF p, q, l, WiderRow
<1>5. FilledUp(p, q, g) \/ ((LastWider(p, q, g) \/ OneMore(p, q, g)) /\ PlainIn(T, n))
  <2>1. CASE g = 0 /\ q = p
    <3>1. Len(q) = l + g /\ l + 1 .. Len(q) = {}
      BY <1>1, <2>1
    <3>. QED
      BY <2>1, <3>1 DEF FilledUp
  <2>2. CASE g # 0
    BY <2>2 DEF Grown
  <2>. QED
    BY <2>1, <2>2 DEF Grown
<1>. QED
  BY <1>2, <1>3, <1>4, <1>5

(* The entries of a table whose spans do not meet, with what each row was  *)
(* short of the longest one, fill the grid.                                *)
LEMMA GrownTiles ==
  ASSUME NEW T \in Table, NEW U \in Table, Len(U) = Len(T), NEW fill \in BOOLEAN, NEW w \in Nat,
         IsLayout(T, Columns(T)), Apart(T, Columns(T)), IsLayout(U, Columns(U)),
         \A n \in 1 .. Len(T) : \E v \in 0 .. w :
           Counts(Sites(T, n), v) /\ Grown(T[n], U[n], w - v, fill),
         \E r \in 1 .. Len(T) : Counts(Sites(T, r), w),
         fill \/ \A n \in 1 .. Len(T) : ShortIn(T, Columns(T), n) => PlainIn(T, n)
  PROVE  Tiles(U, w)
<1>1. PICK r \in 1 .. Len(T) : Counts(Sites(T, r), w)
  OBVIOUS
<1>2. ASSUME NEW n \in 1 .. Len(T)
      PROVE  \E v, g \in Nat :
               /\ v + g = w /\ Counts(Sites(T, n), v) /\ Grown(T[n], U[n], g, fill)
               /\ g # 0 /\ ~fill => PlainIn(T, n)
  <2>1. PICK v \in 0 .. w : Counts(Sites(T, n), v) /\ Grown(T[n], U[n], w - v, fill)
    OBVIOUS
  <2>2. v \in Nat /\ w - v \in Nat /\ v + (w - v) = w /\ (w - v # 0 => v < w)
    OBVIOUS
  <2>3. w - v # 0 /\ ~fill => PlainIn(T, n)
    <3> SUFFICES ASSUME w - v # 0, ~fill PROVE PlainIn(T, n)
      OBVIOUS
    <3>1. ShortIn(T, Columns(T), n)
      BY <1>1, <2>1, <2>2, FewerIsShort
    <3>. QED
      BY <3>1
  <2>. QED
    BY <2>1, <2>2, <2>3
<1>3. Wider(T, U)
  <2>1. ASSUME NEW n \in 1 .. Len(T) PROVE WiderRow(T, U, n)
    <3>1. PICK g \in Nat : Grown(T[n], U[n], g, fill) /\ (g # 0 /\ ~fill => PlainIn(T, n))
      BY <1>2
    <3>2. g # 0 /\ ~fill => PlainIn(T, n)
      BY <3>1
    <3>. QED
      BY <3>1, <3>2, GrownIsWider
  <2>. QED
    BY <2>1 DEF Wider
<1>4. \A n \in 1 .. Len(U) : Counts(Sites(U, n), w)
  <2> SUFFICES ASSUME NEW n \in 1 .. Len(T) PROVE Counts(Sites(U, n), w)
    OBVIOUS
  <2>1. PICK v \in Nat : \E g \in Nat :
               /\ v + g = w /\ Counts(Sites(T, n), v) /\ Grown(T[n], U[n], g, fill)
               /\ g # 0 /\ ~fill => PlainIn(T, n)
    BY <1>2
  <2>2. PICK g \in Nat :
               /\ v + g = w /\ Counts(Sites(T, n), v) /\ Grown(T[n], U[n], g, fill)
               /\ g # 0 /\ ~fill => PlainIn(T, n)
    BY <2>1
  <2>3. Counts(Extra(T, U, n), g)
    BY <2>2, GrownIsWider
  <2>. QED
    BY <1>3, <2>2, <2>3, SitesWider
<1>5. Apart(U, Columns(U))
  BY <1>3, ApartWider
<1>. QED
  BY <1>4, <1>5, FullRowsTile

----------------------------------------------------------------------------
(* The entries of a row, and of what roundOffTableDefinition makes of it.  *)

(* A row's entries are its cells from left to right: those at g[1], g[2],  *)
(* and so on, if g lists the places of its cells in their order.           *)
LEMMA EntriesInOrder ==
  ASSUME NEW row \in Row, NEW l \in Nat, NEW g \in [1 .. l -> DOMAIN row],
         \A i, j \in 1 .. l : i < j => g[i] < g[j],
         \A i \in 1 .. l : row[g[i]] # None,
         \A k \in DOMAIN row : row[k] # None => \E i \in 1 .. l : g[i] = k
  PROVE  Entries(row) = [j \in 1 .. l |-> row[g[j]]]
<1> DEFINE cells == {k \in DOMAIN row : row[k] # None}
           Upto(k) == {h \in cells : h <= k}
           Nth(j) == CHOOSE k \in cells : Cardinality({h \in cells : h <= k}) = j
<1>1. Len(row) \in Nat /\ DOMAIN row = 1 .. Len(row)
  BY LenProperties DEF Row
<1>2. Entries(row) = [j \in 1 .. Cardinality(cells) |-> row[Nth(j)]]
  BY DEF Entries
<1>3. /\ \A i \in 1 .. l : g[i] \in cells
      /\ \A k \in cells : \E i \in 1 .. l : g[i] = k
      /\ \A k \in cells : k \in Nat
  BY <1>1
<1> HIDE DEF cells
<1>4. \A i, j \in 1 .. l : /\ i \in Nat /\ g[i] \in Nat
                           /\ g[i] <= g[j] <=> i <= j
                           /\ g[i] = g[j] => i = j
  <2> SUFFICES ASSUME NEW i \in 1 .. l, NEW j \in 1 .. l
               PROVE  /\ i \in Nat /\ g[i] \in Nat
                      /\ g[i] <= g[j] <=> i <= j
                      /\ g[i] = g[j] => i = j
    OBVIOUS
  <2>1. i \in Nat /\ j \in Nat /\ g[i] \in Nat /\ g[j] \in Nat
    BY <1>3
  <2>2. (i < j => g[i] < g[j]) /\ (j < i => g[j] < g[i]) /\ (i = j => g[i] = g[j])
    OBVIOUS
  <2>. QED
    BY <2>1, <2>2
<1>5. ASSUME NEW A \in SUBSET (1 .. l), NEW B, IsFiniteSet(A),
             \A a \in A : g[a] \in B, \A b \in B : \E a \in A : g[a] = b
      PROVE  Cardinality(B) = Cardinality(A)
  <2> DEFINE f == [a \in A |-> g[a]]
  <2>1. f \in [A -> B]
    BY <1>5
  <2>2. \A a, b \in A : f[a] = f[b] => a = b
    BY <1>4
  <2>3. \A b \in B : \E a \in A : f[a] = b
    BY <1>5
  <2> HIDE DEF f
  <2>4. f \in Bijection(A, B)
    BY <2>1, <2>2, <2>3, Fun_IsBij
  <2>5. ExistsBijection(A, B)
    BY <2>4 DEF ExistsBijection
  <2>. QED
    BY <1>5, <2>5, FS_Bijection
<1>6. Cardinality(cells) = l
  <2>1. IsFiniteSet(1 .. l) /\ Cardinality(1 .. l) = l
    BY FS_Interval
  <2>2. Cardinality(cells) = Cardinality(1 .. l)
    BY <1>3, <1>5, <2>1
  <2>. QED
    BY <2>1, <2>2
<1>7. ASSUME NEW i \in 1 .. l PROVE Cardinality(Upto(g[i])) = i
  <2>1. i \in Nat /\ 1 .. i \in SUBSET (1 .. l)
    BY <1>4
  <2>2. IsFiniteSet(1 .. i) /\ Cardinality(1 .. i) = i
    BY <2>1, FS_Interval
  <2>3. \A a \in 1 .. i : g[a] \in Upto(g[i])
    BY <1>3, <1>4, <2>1
  <2>4. \A b \in Upto(g[i]) : \E a \in 1 .. i : g[a] = b
    <3> SUFFICES ASSUME NEW b \in Upto(g[i]) PROVE \E a \in 1 .. i : g[a] = b
      OBVIOUS
    <3>1. b \in cells /\ b <= g[i]
      OBVIOUS
    <3>2. PICK a \in 1 .. l : g[a] = b
      BY <1>3, <3>1
    <3>3. a <= i /\ a \in Nat
      BY <1>4, <3>1, <3>2
    <3>4. a \in 1 .. i
      BY <2>1, <3>3
    <3>. QED
      BY <3>2, <3>4
  <2> HIDE DEF Upto
  <2>5. Cardinality(Upto(g[i])) = Cardinality(1 .. i)
    BY <1>5, <2>1, <2>2, <2>3, <2>4
  <2>. QED
    BY <2>2, <2>5
<1>8. ASSUME NEW j \in 1 .. l
      PROVE  Nth(j) = g[j]
  <2>1. g[j] \in cells /\ Cardinality(Upto(g[j])) = j
    BY <1>3, <1>7
  <2>2. \A k \in cells : Cardinality(Upto(k)) = j => k = g[j]
    <3> SUFFICES ASSUME NEW k \in cells, Cardinality(Upto(k)) = j PROVE k = g[j]
      OBVIOUS
    <3>1. PICK i \in 1 .. l : g[i] = k
      BY <1>3
    <3>2. Cardinality(Upto(g[i])) = i
      BY <1>7
    <3> HIDE DEF Upto
    <3>. QED
      BY <3>1, <3>2
  <2>. QED
    BY <2>1, <2>2
<1>9. Entries(row) = [j \in 1 .. l |-> row[Nth(j)]]
  BY <1>2, <1>6
<1> HIDE DEF Nth
<1>. QED
  BY <1>8, <1>9

(* The table as the author wrote it                                        *)
LEMMA WrittenFacts ==
  ASSUME item \in Seq(Item)
  PROVE  /\ Written \in Table /\ Len(Written) = Len(item) /\ Len(item) \in Nat
         /\ \A n \in 1 .. Len(item) :
              /\ Written[n] = ParsedRow(n)
              /\ Len(Written[n]) \in Nat \ {0} /\ DOMAIN item[n].cells = 1 .. Len(Written[n])
              /\ \A i \in 1 .. Len(Written[n]) :
                   Written[n][i] # None /\ Content(Written[n][i]) = <<n, i>>
<1>1. Len(item) \in Nat /\ DOMAIN item = 1 .. Len(item)
  BY LenProperties
<1>2. Written = [n \in 1 .. Len(item) |-> ParsedRow(n)]
  BY <1>1 DEF Written
<1>3. ASSUME NEW n \in 1 .. Len(item)
      PROVE  /\ ParsedRow(n) \in Seq(Cell)
             /\ Len(ParsedRow(n)) \in Nat \ {0}
             /\ DOMAIN item[n].cells = 1 .. Len(ParsedRow(n))
             /\ \A i \in 1 .. Len(ParsedRow(n)) :
                  ParsedRow(n)[i] # None /\ Content(ParsedRow(n)[i]) = <<n, i>>
  <2> DEFINE cells == item[n].cells
             row == ParsedRow(n)
  <2>1. cells \in Seq(Nat \X Nat) /\ cells # <<>>
    <3>1. item[n] \in Item
      BY ElementOfSeq
    <3>. QED
      BY <3>1, FlatTableAssumption
  <2>2. Len(cells) \in Nat \ {0} /\ DOMAIN cells = 1 .. Len(cells)
    BY <2>1, LenProperties, EmptySeq
  <2>3. row = [i \in 1 .. Len(cells) |-> <<cells[i][1], cells[i][2], <<n, i>> >>]
    BY <2>2 DEF ParsedRow
  <2> HIDE DEF cells, row
  <2>4. \A i \in 1 .. Len(cells) : /\ row[i] = <<cells[i][1], cells[i][2], <<n, i>> >>
                                   /\ row[i] \in Cell
    <3> SUFFICES ASSUME NEW i \in 1 .. Len(cells)
                 PROVE  <<cells[i][1], cells[i][2], <<n, i>> >> \in Cell
      BY <2>3
    <3>1. cells[i] \in Nat \X Nat
      BY <2>1, ElementOfSeq
    <3>2. cells[i][1] \in Nat /\ cells[i][2] \in Nat /\ <<n, i>> \in Nat \X Nat
      BY <1>1, <2>2, <3>1
    <3>. QED
      BY <3>2, CellType
  <2>5. row \in [1 .. Len(cells) -> Cell]
    BY <2>3, <2>4
  <2>6. row \in Seq(Cell) /\ Len(row) = Len(cells)
    BY <2>2, <2>5
  <2>7. \A i \in 1 .. Len(cells) : row[i] # None /\ Content(row[i]) = <<n, i>>
    <3> SUFFICES ASSUME NEW i \in 1 .. Len(cells)
                 PROVE  row[i] # None /\ Content(row[i]) = <<n, i>>
      OBVIOUS
    <3>1. row[i] = <<cells[i][1], cells[i][2], <<n, i>> >>
      BY <2>4
    <3>. QED
      BY <3>1, CellIsNotNone
  <2>. QED
    BY <2>2, <2>6, <2>7 DEF cells, row
<1>4. Written \in [1 .. Len(item) -> Seq(Cell)]
  BY <1>2, <1>3
<1>5. Written \in Table /\ Len(Written) = Len(item)
  BY <1>1, <1>4 DEF Table
<1>6. \A n \in 1 .. Len(item) : Written[n] = ParsedRow(n)
  BY <1>2
<1>. QED
  BY <1>1, <1>3, <1>5, <1>6

(* What stands in row n are its cells as they were written.                *)
AsWritten(n, row) ==
  \A k \in DOMAIN row : row[k] # None => \E i \in 1 .. Len(Written[n]) : row[k] = Written[n][i]

LEMMA PlacesOfCells ==
  ASSUME item \in Seq(Item), NEW n \in 1 .. Len(item), NEW row \in Row,
         Kept(DOMAIN item[n].cells, n, row), AsWritten(n, row)
  PROVE  \E g \in [1 .. Len(Written[n]) -> DOMAIN row] :
           /\ \A i, j \in 1 .. Len(Written[n]) : i < j => g[i] < g[j]
           /\ \A i \in 1 .. Len(Written[n]) : row[g[i]] # None /\ row[g[i]] = Written[n][i]
           /\ \A k \in DOMAIN row : row[k] # None => \E i \in 1 .. Len(Written[n]) : g[i] = k
<1> DEFINE l == Len(Written[n])
           At(k, i) == row[k] # None /\ Content(row[k]) = <<n, i>>
           g == [i \in 1 .. l |-> CHOOSE k \in DOMAIN row : At(k, i)]
<1>1. /\ l \in Nat /\ DOMAIN item[n].cells = 1 .. l
      /\ \A i \in 1 .. l : Written[n][i] # None /\ Content(Written[n][i]) = <<n, i>>
  BY WrittenFacts
<1>2. Len(row) \in Nat /\ DOMAIN row = 1 .. Len(row)
  BY LenProperties DEF Row
<1> HIDE DEF l
<1>3. \A i \in 1 .. l : g[i] \in DOMAIN row /\ At(g[i], i)
  <2>1. \A i \in 1 .. l : \E k \in DOMAIN row : At(k, i)
    BY <1>1 DEF Kept, Holds
  <2> HIDE DEF At
  <2>. QED
    BY <2>1
<1> HIDE DEF g
<1>4. \A k \in DOMAIN row : row[k] # None => \E i \in 1 .. l : row[k] = Written[n][i] /\ At(k, i)
  BY <1>1 DEF AsWritten, l
<1>5. \A k, h \in DOMAIN row : \A i, j \in 1 .. l : At(k, i) /\ At(h, j) /\ k < h => i < j
  <2> SUFFICES ASSUME NEW k \in DOMAIN row, NEW h \in DOMAIN row, NEW i \in 1 .. l,
                      NEW j \in 1 .. l, At(k, i), At(h, j), k < h
               PROVE  i < j
    OBVIOUS
  <2>1. Content(row[k]) # Nothing /\ Content(row[h]) # Nothing
    BY DEF Nothing
  <2>2. Content(row[k])[2] = i /\ Content(row[h])[2] = j
    OBVIOUS
  <2>3. InOrder(row)
    BY DEF Kept
  <2>. QED
    BY <2>1, <2>2, <2>3 DEF InOrder
<1>6. \A k, h \in DOMAIN row : \A i \in 1 .. l : At(k, i) /\ At(h, i) => k = h
  <2> SUFFICES ASSUME NEW k \in DOMAIN row, NEW h \in DOMAIN row, NEW i \in 1 .. l,
                      At(k, i), At(h, i)
               PROVE  k = h
    OBVIOUS
  <2>1. ~(i < i)
    BY <1>1
  <2>2. ~(k < h) /\ ~(h < k)
    BY <1>5, <2>1
  <2>. QED
    BY <1>2, <2>2
<1>7. \A k \in DOMAIN row : \A i, j \in 1 .. l : At(k, i) /\ At(k, j) => i = j
  OBVIOUS
<1> HIDE DEF At
<1>8. \A i, j \in 1 .. l : i < j => g[i] < g[j]
  <2> SUFFICES ASSUME NEW i \in 1 .. l, NEW j \in 1 .. l, i < j PROVE g[i] < g[j]
    OBVIOUS
  <2>1. ~(j < i) /\ i # j
    BY <1>1
  <2>2. ~(g[j] < g[i])
    BY <1>3, <1>5, <2>1
  <2>3. g[i] # g[j]
    BY <1>3, <1>7, <2>1
  <2>4. g[i] \in Nat /\ g[j] \in Nat
    BY <1>2, <1>3
  <2>. QED
    BY <2>2, <2>3, <2>4
<1>9. \A i \in 1 .. l : row[g[i]] # None /\ row[g[i]] = Written[n][i]
  <2> SUFFICES ASSUME NEW i \in 1 .. l PROVE row[g[i]] # None /\ row[g[i]] = Written[n][i]
    OBVIOUS
  <2>1. g[i] \in DOMAIN row /\ At(g[i], i) /\ row[g[i]] # None
    BY <1>3 DEF At
  <2>2. PICK j \in 1 .. l : row[g[i]] = Written[n][j] /\ At(g[i], j)
    BY <1>4, <2>1
  <2>3. i = j
    BY <1>7, <2>1, <2>2
  <2>. QED
    BY <2>1, <2>2, <2>3
<1>10. \A k \in DOMAIN row : row[k] # None => \E i \in 1 .. l : g[i] = k
  BY <1>3, <1>4, <1>6
<1>11. g \in [1 .. l -> DOMAIN row]
  BY <1>3 DEF g
<1>. QED
  BY <1>8, <1>9, <1>10, <1>11 DEF l

LEMMA EntriesKeep ==
  ASSUME item \in Seq(Item), NEW n \in 1 .. Len(item), NEW row \in Row,
         Kept(DOMAIN item[n].cells, n, row), AsWritten(n, row)
  PROVE  Entries(row) = Written[n]
<1> DEFINE l == Len(Written[n])
<1>1. l \in Nat /\ Written[n] \in Seq(Cell)
  BY WrittenFacts, TableFacts
<1>2. PICK g \in [1 .. l -> DOMAIN row] :
        /\ \A i, j \in 1 .. l : i < j => g[i] < g[j]
        /\ \A i \in 1 .. l : row[g[i]] # None /\ row[g[i]] = Written[n][i]
        /\ \A k \in DOMAIN row : row[k] # None => \E i \in 1 .. l : g[i] = k
  BY PlacesOfCells
<1>3. Entries(row) = [j \in 1 .. l |-> row[g[j]]]
  BY <1>1, <1>2, EntriesInOrder
<1>4. [j \in 1 .. l |-> row[g[j]]] = [j \in 1 .. l |-> Written[n][j]]
  BY <1>2
<1>5. Written[n] = [j \in 1 .. l |-> Written[n][j]]
  BY <1>1, LenProperties
<1>. QED
  BY <1>3, <1>4, <1>5

LEMMA EntriesFilled ==
  ASSUME item \in Seq(Item), NEW n \in 1 .. Len(item), NEW row \in Row, row # <<>>,
         Kept(DOMAIN item[n].cells, n, row), AsWritten(n, row), NEW w \in Nat \ {0}
  PROVE  FilledUp(Written[n], Entries(Filled(row, w)), w)
<1> DEFINE l == Len(Written[n])
           new == Filled(row, w)
           m == Len(row)
<1>1. l \in Nat /\ m \in Nat /\ DOMAIN row = 1 .. m
  BY WrittenFacts, LenProperties DEF Row
<1>2. PICK g \in [1 .. l -> DOMAIN row] :
        /\ \A i, j \in 1 .. l : i < j => g[i] < g[j]
        /\ \A i \in 1 .. l : row[g[i]] # None /\ row[g[i]] = Written[n][i]
        /\ \A k \in DOMAIN row : row[k] # None => \E i \in 1 .. l : g[i] = k
  BY PlacesOfCells
<1>3. /\ new \in Row /\ Len(new) = m + w
      /\ \A j \in 1 .. m : new[j] = row[j]
      /\ \A j \in m + 1 .. m + w : new[j] = <<0, 0, Nothing>>
  BY FilledProperties
<1> HIDE DEF l, new, m
<1>4. DOMAIN new = 1 .. m + w
  BY <1>3, LenProperties DEF Row
<1> DEFINE h == [j \in 1 .. l + w |-> IF j <= l THEN g[j] ELSE m + (j - l)]
<1>5. \A j \in 1 .. l : j \in 1 .. l + w /\ h[j] = g[j] /\ g[j] \in 1 .. m
  BY <1>1
<1>6. \A j \in l + 1 .. l + w :
        j \in 1 .. l + w /\ h[j] = m + (j - l) /\ h[j] \in m + 1 .. m + w
  BY <1>1
<1>7. \A j \in 1 .. l + w : j \in 1 .. l \/ j \in l + 1 .. l + w
  BY <1>1
<1> HIDE DEF h
<1>8. \A j \in 1 .. l : h[j] \in DOMAIN new /\ new[h[j]] # None /\ new[h[j]] = Written[n][j]
  BY <1>1, <1>2, <1>3, <1>4, <1>5
<1>9. \A j \in l + 1 .. l + w : h[j] \in DOMAIN new /\ new[h[j]] # None /\ new[h[j]] = <<0, 0, Nothing>>
  <2>1. <<0, 0, Nothing>> # None
    BY CellIsNotNone
  <2>2. m + 1 .. m + w \subseteq DOMAIN new
    BY <1>1, <1>4
  <2>3. \A k \in m + 1 .. m + w : new[k] = <<0, 0, Nothing>>
    BY <1>3
  <2>. QED
    BY <1>6, <2>1, <2>2, <2>3
<1>10. h \in [1 .. l + w -> DOMAIN new]
  BY <1>7, <1>8, <1>9 DEF h
<1>11. \A i, j \in 1 .. l + w : i < j => h[i] < h[j]
  <2> SUFFICES ASSUME NEW i \in 1 .. l + w, NEW j \in 1 .. l + w, i < j PROVE h[i] < h[j]
    OBVIOUS
  <2>1. CASE j \in 1 .. l
    <3>1. i \in 1 .. l
      BY <1>1, <2>1
    <3>. QED
      BY <1>2, <1>5, <2>1, <3>1
  <2>2. CASE i \in 1 .. l /\ j \in l + 1 .. l + w
    BY <1>1, <1>5, <1>6, <2>2
  <2>3. CASE i \in l + 1 .. l + w
    <3>1. j \in l + 1 .. l + w
      BY <1>1, <2>3
    <3>2. h[i] = m + (i - l) /\ h[j] = m + (j - l)
      BY <1>6, <2>3, <3>1
    <3>. QED
      BY <1>1, <3>2
  <2>. QED
    BY <1>7, <2>1, <2>2, <2>3
<1>12. \A k \in DOMAIN new : new[k] # None => \E i \in 1 .. l + w : h[i] = k
  <2> SUFFICES ASSUME NEW k \in 1 .. m + w, new[k] # None PROVE \E i \in 1 .. l + w : h[i] = k
    BY <1>4
  <2>1. CASE k \in 1 .. m
    <3>1. row[k] # None
      BY <1>3, <2>1
    <3>2. PICK i \in 1 .. l : g[i] = k
      BY <1>1, <1>2, <2>1, <3>1
    <3>. QED
      BY <1>5, <3>2
  <2>2. CASE k \notin 1 .. m
    <3> DEFINE i == l + (k - m)
    <3>1. i \in l + 1 .. l + w /\ m + (i - l) = k
      BY <1>1, <2>2
    <3>. QED
      BY <1>6, <3>1
  <2>. QED
    BY <2>1, <2>2
<1>13. l + w \in Nat /\ \A j \in 1 .. l + w : new[h[j]] # None
  BY <1>1, <1>7, <1>8, <1>9
<1>14. Entries(new) = [j \in 1 .. l + w |-> new[h[j]]]
  <2> DEFINE e == l + w
  <2>1. /\ e \in Nat /\ h \in [1 .. e -> DOMAIN new]
        /\ \A i, j \in 1 .. e : i < j => h[i] < h[j]
        /\ \A i \in 1 .. e : new[h[i]] # None
        /\ \A k \in DOMAIN new : new[k] # None => \E i \in 1 .. e : h[i] = k
    BY <1>10, <1>11, <1>12, <1>13
  <2> HIDE DEF e
  <2>2. new \in Row
    BY <1>3
  <2>3. Entries(new) = [j \in 1 .. e |-> new[h[j]]]
    BY ONLY <2>1, <2>2, EntriesInOrder, Zenon
  <2>. QED
    BY <2>3 DEF e
<1>15. Len(Entries(new)) = l + w
  BY <1>13, <1>14
<1>16. \A j \in 1 .. l : Entries(new)[j] = Written[n][j]
  BY <1>5, <1>8, <1>14
<1>17. \A j \in l + 1 .. l + w : CSpan(Entries(new)[j]) = 0 /\ RSpan(Entries(new)[j]) = 0
  BY <1>6, <1>9, <1>14 DEF CSpan, RSpan
<1>. QED
  BY <1>15, <1>16, <1>17 DEF FilledUp, l, new

LEMMA EntriesStretched ==
  ASSUME item \in Seq(Item), NEW n \in 1 .. Len(item), NEW row \in Row, row # <<>>,
         Kept(DOMAIN item[n].cells, n, row), AsWritten(n, row), NEW w \in Nat \ {0}
  PROVE  \/ LastWider(Written[n], Entries(Stretched(row, w)), w)
         \/ OneMore(Written[n], Entries(Stretched(row, w)), w)
<1> DEFINE l == Len(Written[n])
           new == Stretched(row, w)
           m == Len(row)
<1>1. l \in Nat /\ l # 0 /\ m \in Nat /\ m # 0 /\ DOMAIN row = 1 .. m
  BY WrittenFacts, LenProperties, EmptySeq DEF Row
<1>2. PICK g \in [1 .. l -> DOMAIN row] :
        /\ \A i, j \in 1 .. l : i < j => g[i] < g[j]
        /\ \A i \in 1 .. l : row[g[i]] # None /\ row[g[i]] = Written[n][i]
        /\ \A k \in DOMAIN row : row[k] # None => \E i \in 1 .. l : g[i] = k
  BY PlacesOfCells
<1>3. /\ new \in Row /\ \A j \in 1 .. m - 1 : new[j] = row[j]
      /\ row[m] = None => /\ Len(new) = m + 1 /\ new[m] = None
                          /\ new[m + 1] = <<w - 1, 0, Nothing>>
      /\ row[m] # None => /\ Len(new) = m
                          /\ new[m] = <<CSpan(row[m]) + w, RSpan(row[m]), Content(row[m])>>
  BY StretchedProperties
<1> HIDE DEF l, new, m
<1>4. DOMAIN new = 1 .. Len(new)
  BY <1>3, LenProperties DEF Row
<1>5. \A i \in 1 .. l : g[i] \in 1 .. m
  BY <1>1
<1>6. CASE row[m] # None
  <2>1. g[l] = m
    <3>1. PICK i \in 1 .. l : g[i] = m
      <4>1. m \in DOMAIN row
        BY <1>1
      <4>. QED
        BY <1>2, <1>6, <4>1
    <3>2. ~(i < l)
      <4> SUFFICES ASSUME i < l PROVE FALSE
        OBVIOUS
      <4>1. l \in 1 .. l /\ g[i] < g[l]
        BY <1>1, <1>2
      <4>. QED
        BY <1>1, <1>5, <3>1, <4>1
    <3>3. i = l
      BY <1>1, <3>2
    <3>. QED
      BY <3>1, <3>3
  <2>2. \A i \in 1 .. l - 1 : g[i] \in 1 .. m - 1
    <3> SUFFICES ASSUME NEW i \in 1 .. l - 1 PROVE g[i] \in 1 .. m - 1
      OBVIOUS
    <3>1. i \in 1 .. l /\ l \in 1 .. l /\ i < l
      BY <1>1
    <3>2. g[i] < g[l]
      BY <1>2, <3>1
    <3>. QED
      BY <1>1, <1>5, <2>1, <3>1, <3>2
  <2>3. Len(new) = m /\ \A j \in 1 .. m : row[j] # None => new[j] # None
    <3>1. new[m] # None
      BY <1>3, <1>6, CellIsNotNone
    <3>2. \A j \in 1 .. m : j \in 1 .. m - 1 \/ j = m
      BY <1>1
    <3>. QED
      BY <1>3, <1>6, <3>1, <3>2
  <2>4. g \in [1 .. l -> DOMAIN new] /\ \A i \in 1 .. l : new[g[i]] # None
    BY <1>1, <1>2, <1>4, <1>5, <2>3
  <2>5. \A k \in DOMAIN new : new[k] # None => \E i \in 1 .. l : g[i] = k
    <3> SUFFICES ASSUME NEW k \in 1 .. m, new[k] # None PROVE row[k] # None
      BY <1>1, <1>2, <1>4, <2>3
    <3>1. k \in 1 .. m - 1 \/ k = m
      BY <1>1
    <3>. QED
      BY <1>3, <1>6, <3>1
  <2>6. Entries(new) = [j \in 1 .. l |-> new[g[j]]]
    <3>1. \A i, j \in 1 .. l : i < j => g[i] < g[j]
      BY <1>2
    <3>2. new \in Row /\ l \in Nat
      BY <1>1, <1>3
    <3>. QED
      BY ONLY <2>4, <2>5, <3>1, <3>2, EntriesInOrder
  <2>7. Len(Entries(new)) = l
    BY <1>1, <2>6
  <2>8. \A i \in 1 .. l - 1 : Entries(new)[i] = Written[n][i]
    <3> SUFFICES ASSUME NEW i \in 1 .. l - 1 PROVE Entries(new)[i] = Written[n][i]
      OBVIOUS
    <3>1. i \in 1 .. l
      BY <1>1
    <3>. QED
      BY <1>2, <1>3, <2>2, <2>6, <3>1
  <2>9. /\ CSpan(Entries(new)[l]) = CSpan(Written[n][l]) + w
        /\ RSpan(Entries(new)[l]) = RSpan(Written[n][l])
    <3>1. l \in 1 .. l
      BY <1>1
    <3>2. Entries(new)[l] = new[m] /\ row[m] = Written[n][l]
      BY <1>2, <2>1, <2>6, <3>1
    <3>3. Entries(new)[l] = <<CSpan(Written[n][l]) + w, RSpan(Written[n][l]), Content(Written[n][l])>>
      BY <1>3, <1>6, <3>2
    <3>. QED
      BY <3>3 DEF CSpan, RSpan
  <2>. QED
    BY <1>1, <2>7, <2>8, <2>9 DEF LastWider, l, new
<1>7. CASE row[m] = None
  <2> DEFINE h == [j \in 1 .. l + 1 |-> IF j <= l THEN g[j] ELSE m + 1]
  <2>1. Len(new) = m + 1 /\ DOMAIN new = 1 .. m + 1 /\ new[m] = None
    BY <1>3, <1>4, <1>7
  <2>2. \A i \in 1 .. l : g[i] \in 1 .. m - 1
    <3> SUFFICES ASSUME NEW i \in 1 .. l PROVE g[i] \in 1 .. m - 1
      OBVIOUS
    <3>1. g[i] # m
      BY <1>2, <1>7
    <3>. QED
      BY <1>1, <1>5, <3>1
  <2>3. \A j \in 1 .. l : /\ j \in 1 .. l + 1 /\ h[j] = g[j] /\ h[j] \in DOMAIN new
                          /\ new[h[j]] # None /\ new[h[j]] = Written[n][j]
    <3> SUFFICES ASSUME NEW j \in 1 .. l
                 PROVE  /\ j \in 1 .. l + 1 /\ h[j] = g[j] /\ h[j] \in DOMAIN new
                        /\ new[h[j]] # None /\ new[h[j]] = Written[n][j]
      OBVIOUS
    <3>1. j \in 1 .. l + 1 /\ h[j] = g[j]
      BY <1>1
    <3>2. g[j] \in 1 .. m - 1 /\ g[j] \in 1 .. m + 1 /\ new[g[j]] = row[g[j]]
      BY <1>1, <1>3, <2>2
    <3>. QED
      BY <1>2, <2>1, <3>1, <3>2
  <2>4. /\ l + 1 \in 1 .. l + 1 /\ h[l + 1] = m + 1 /\ h[l + 1] \in DOMAIN new
        /\ new[h[l + 1]] # None /\ new[h[l + 1]] = <<w - 1, 0, Nothing>>
    <3>1. l + 1 \in 1 .. l + 1 /\ h[l + 1] = m + 1 /\ m + 1 \in 1 .. m + 1
      BY <1>1
    <3>2. new[m + 1] = <<w - 1, 0, Nothing>>
      BY <1>3, <1>7
    <3>3. <<w - 1, 0, Nothing>> # None
      BY CellIsNotNone
    <3>. QED
      BY <2>1, <3>1, <3>2, <3>3
  <2>5. \A j \in 1 .. l + 1 : j \in 1 .. l \/ j = l + 1
    BY <1>1
  <2>6. h \in [1 .. l + 1 -> DOMAIN new]
    BY <2>3, <2>4, <2>5
  <2> HIDE DEF h
  <2>7. \A i, j \in 1 .. l + 1 : i < j => h[i] < h[j]
    <3> SUFFICES ASSUME NEW i \in 1 .. l + 1, NEW j \in 1 .. l + 1, i < j PROVE h[i] < h[j]
      OBVIOUS
    <3>1. i \in 1 .. l
      BY <1>1
    <3>2. CASE j \in 1 .. l
      BY <1>2, <2>3, <3>1, <3>2
    <3>3. CASE j = l + 1
      BY <1>1, <2>2, <2>3, <2>4, <3>1, <3>3
    <3>. QED
      BY <2>5, <3>2, <3>3
  <2>8. \A k \in DOMAIN new : new[k] # None => \E i \in 1 .. l + 1 : h[i] = k
    <3> SUFFICES ASSUME NEW k \in 1 .. m + 1, new[k] # None PROVE \E i \in 1 .. l + 1 : h[i] = k
      BY <2>1
    <3>1. CASE k \in 1 .. m - 1
      <4>1. k \in 1 .. m /\ row[k] # None
        BY <1>1, <1>3, <3>1
      <4>2. PICK i \in 1 .. l : g[i] = k
        BY <1>1, <1>2, <4>1
      <4>. QED
        BY <2>3, <4>2
    <3>2. k # m
      BY <2>1
    <3>3. k \in 1 .. m - 1 \/ k = m + 1
      BY <1>1, <3>2
    <3>. QED
      BY <2>4, <3>1, <3>3
  <2>9. l + 1 \in Nat /\ \A j \in 1 .. l + 1 : new[h[j]] # None
    BY <1>1, <2>3, <2>4, <2>5
  <2>10. Entries(new) = [j \in 1 .. l + 1 |-> new[h[j]]]
    <3> DEFINE L == l + 1
    <3>1. /\ h \in [1 .. L -> DOMAIN new] /\ \A i, j \in 1 .. L : i < j => h[i] < h[j]
          /\ \A k \in DOMAIN new : new[k] # None => \E i \in 1 .. L : h[i] = k
          /\ L \in Nat /\ \A j \in 1 .. L : new[h[j]] # None
      BY <2>6, <2>7, <2>8, <2>9
    <3>2. new \in Row
      BY <1>3
    <3> HIDE DEF L
    <3>3. Entries(new) = [j \in 1 .. L |-> new[h[j]]]
      BY ONLY <3>1, <3>2, EntriesInOrder
    <3>. QED
      BY <3>3 DEF L
  <2>11. Len(Entries(new)) = l + 1
    BY <2>9, <2>10
  <2>12. \A j \in 1 .. l : Entries(new)[j] = Written[n][j]
    BY <2>3, <2>10
  <2>13. CSpan(Entries(new)[l + 1]) = w - 1 /\ RSpan(Entries(new)[l + 1]) = 0
    BY <2>4, <2>10 DEF CSpan, RSpan
  <2>. QED
    BY <1>1, <2>11, <2>12, <2>13 DEF OneMore, l, new
<1>. QED
  BY <1>6, <1>7

----------------------------------------------------------------------------
(* The builder's loops: what a row has of the places of its entries.       *)

(* The loop over x has come to the author's cell i of row m and passed it. *)
Done(m, i) ==
  \/ m < y
  \/ m = y /\ \E k \in 1 .. x - 1 : rows[y][k] # None /\ Content(rows[y][k]) = <<m, i>>

(* A row has one place for each of its cells from the start, and gets the  *)
(* others of a cell when the loops pass it.                                *)
SoFar(r) ==
  {s \in Sites(Written, r) : Done(s[1][1], s[1][2]) \/ (s[1][1] = r /\ s[2] = 0)}

Unrounded(n, row) == AsWritten(n, row) /\ Counts(Sites(Written, n), Len(row))
Rounded(n, row) ==
  \E v \in 0 .. max_cols :
    /\ Counts(Sites(Written, n), v)
    /\ Grown(Written[n], Entries(row), max_cols - v, fill_cells)
Widest == \E n \in 1 .. Len(item) : Counts(Sites(Written, n), max_cols)

SpansCounted ==
  /\ phase = "parse" => max_cols = 0 /\ \A n \in DOMAIN rows : rows[n] = ParsedRow(n)
  /\ phase \in {"span", "count", "fill", "build", "done"} => Len(rows) = Len(item)
  /\ phase = "span" =>
       /\ max_cols = 0
       /\ \A n \in DOMAIN rows : AsWritten(n, rows[n]) /\ Counts(SoFar(n), Len(rows[n]))
RowsRounded ==
  /\ phase = "count" =>
       /\ \A n \in DOMAIN rows : Unrounded(n, rows[n])
       /\ (y = 1 /\ max_cols = 0) \/ \E n \in 1 .. y - 1 : max_cols = Len(rows[n])
  /\ phase = "fill" =>
       /\ Widest
       /\ \A n \in y .. Len(rows) : Unrounded(n, rows[n])
       /\ \A n \in 1 .. y - 1 : Rounded(n, rows[n])
  /\ phase \in {"build", "done"} => Widest /\ \A n \in DOMAIN rows : Rounded(n, rows[n])
RowsBuilt ==
  /\ phase \in {"parse", "span", "count", "fill"} => thead = <<>> /\ tbody = <<>>
  /\ phase = "build" => /\ Built = [n \in 1 .. y - 1 |-> Entries(rows[n])]
                        /\ y <= header_rows + 1 => tbody = <<>>
  /\ phase = "done" => Built = [n \in 1 .. Len(rows) |-> Entries(rows[n])]

GridInv == SpansCounted /\ RowsRounded /\ RowsBuilt
LoopInv == FlatInv /\ Places /\ TableTyped /\ GridInv

LEMMA LoopFacts ==
  ASSUME LoopInv
  PROVE  /\ item \in Seq(Item) /\ Len(item) \in Nat /\ Len(rows) \in Nat
         /\ DOMAIN rows = 1 .. Len(rows) /\ Len(rows) <= Len(item)
         /\ x \in Nat \ {0} /\ y \in Nat \ {0} /\ max_cols \in Nat
         /\ \A n \in 1 .. Len(rows) :
              /\ n \in 1 .. Len(item) /\ rows[n] \in Row /\ rows[n] # <<>>
              /\ Len(rows[n]) \in Nat \ {0} /\ DOMAIN rows[n] = 1 .. Len(rows[n])
              /\ Kept(DOMAIN item[n].cells, n, rows[n])
<1>1. FlatInv
  BY DEF LoopInv
<1>2. /\ item \in Seq(Item) /\ rows \in Seq(Row)
      /\ x \in Nat \ {0} /\ y \in Nat \ {0} /\ max_cols \in Nat
  BY <1>1 DEF FlatInv, Typed
<1>3. Len(item) \in Nat /\ Len(rows) \in Nat /\ DOMAIN rows = 1 .. Len(rows) /\ Len(rows) <= Len(item)
  BY <1>1, <1>2, LenProperties DEF FlatInv, Flow
<1>4. ASSUME NEW n \in 1 .. Len(rows)
      PROVE  /\ n \in 1 .. Len(item) /\ rows[n] \in Row /\ rows[n] # <<>>
             /\ Len(rows[n]) \in Nat \ {0} /\ DOMAIN rows[n] = 1 .. Len(rows[n])
             /\ Kept(DOMAIN item[n].cells, n, rows[n])
  <2>1. n \in 1 .. Len(item) /\ rows[n] \in Row
    BY <1>2, <1>3, ElementOfSeq
  <2>2. rows[n] # <<>> /\ Kept(DOMAIN item[n].cells, n, rows[n])
    BY <1>1, <1>3 DEF FlatInv, RowsNotEmpty, KeptRows
  <2>3. Len(rows[n]) \in Nat \ {0} /\ DOMAIN rows[n] = 1 .. Len(rows[n])
    BY <2>1, <2>2, LenProperties, EmptySeq DEF Row
  <2>. QED
    BY <2>1, <2>2, <2>3
<1>. QED
  BY <1>2, <1>3, <1>4

LEMMA WrittenStays ==
  ASSUME UNCHANGED options
  PROVE  item' = item /\ fill_cells' = fill_cells /\ header_rows' = header_rows
         /\ Written' = Written
BY DEF options, Written, ParsedRow

LEMMA CountsUnion ==
  ASSUME NEW A, NEW B, NEW a, NEW b, Counts(A, a), Counts(B, b), A \cap B = {}
  PROVE  Counts(A \cup B, a + b)
<1>1. IsFiniteSet(A) /\ Cardinality(A) = a /\ IsFiniteSet(B) /\ Cardinality(B) = b
  BY DEF Counts
<1>2. a \in Nat /\ b \in Nat
  BY <1>1, FS_CardinalityType
<1>3. /\ IsFiniteSet(A \cup B)
      /\ Cardinality(A \cup B) = Cardinality(A) + Cardinality(B) - Cardinality({})
  BY <1>1, FS_Union
<1>4. Cardinality(A \cup B) = a + b
  BY <1>1, <1>2, <1>3, FS_EmptySet
<1>. QED
  BY <1>3, <1>4 DEF Counts

(* A row as it is parsed has one place for each cell.                      *)
LEMMA ParsedCounts ==
  ASSUME item \in Seq(Item), NEW n \in 1 .. Len(item)
  PROVE  /\ AsWritten(n, ParsedRow(n))
         /\ Counts({s \in Sites(Written, n) : s[1][1] = n /\ s[2] = 0}, Len(ParsedRow(n)))
<1> DEFINE l == Len(Written[n])
           S == {s \in Sites(Written, n) : s[1][1] = n /\ s[2] = 0}
           B == ({n} \X (1 .. l)) \X {0}
<1>1. /\ Written \in Table /\ Len(Written) = Len(item) /\ Len(item) \in Nat
      /\ Written[n] = ParsedRow(n) /\ l \in Nat
  BY WrittenFacts
<1>2. \A i \in 1 .. l : CSpan(Written[n][i]) \in Nat /\ RSpan(Written[n][i]) \in Nat
  BY <1>1, TableFacts
<1>3. ASSUME NEW s \in S PROVE s \in B
  <2>1. s \in Sites(Written, n) /\ s[1][1] = n /\ s[2] = 0
    OBVIOUS
  <2>2. s = <<s[1], s[2]>> /\ s[1] = <<s[1][1], s[1][2]>> /\ s[1][2] \in 1 .. Len(Written[s[1][1]])
    BY <1>1, <2>1, SiteFacts
  <2>. QED
    BY <2>1, <2>2
<1>4. ASSUME NEW s \in B PROVE s \in S
  <2>1. PICK i \in 1 .. l : s = << <<n, i>>, 0>>
    OBVIOUS
  <2>2. n \in Nat /\ n <= n /\ n <= n + RSpan(Written[n][i]) /\ 0 <= CSpan(Written[n][i])
    BY <1>1, <1>2
  <2>3. s \in Sites(Written, n)
    BY <1>1, <2>1, <2>2, IsSite
  <2>. QED
    BY <2>1, <2>3
<1>5. S = B
  BY <1>3, <1>4
<1> HIDE DEF S, B, l
<1>6. Counts(B, l + 1 - 1)
  <2>1. 1 \in Nat /\ l \in Nat /\ 1 <= l + 1
    BY <1>1
  <2>. QED
    BY ONLY <2>1, BlockCounts DEF B
<1>7. l + 1 - 1 = l
  BY <1>1
<1>8. Counts(S, Len(ParsedRow(n)))
  BY <1>1, <1>5, <1>6, <1>7 DEF l
<1>9. AsWritten(n, ParsedRow(n))
  <2>1. DOMAIN Written[n] = 1 .. Len(Written[n])
    BY <1>1, TableFacts
  <2>. QED
    BY <1>1, <2>1 DEF AsWritten
<1>. QED
  BY <1>8, <1>9 DEF S

LEMMA ParseRowGrid == LoopInv /\ ParseRow => GridInv'
<1> SUFFICES ASSUME LoopInv, ParseRow PROVE GridInv'
  OBVIOUS
<1>1. /\ item \in Seq(Item) /\ Len(item) \in Nat /\ Len(rows) \in Nat /\ y \in Nat \ {0}
      /\ DOMAIN rows = 1 .. Len(rows) /\ \A n \in 1 .. Len(rows) : n \in 1 .. Len(item)
      /\ rows \in Seq(Row)
  BY LoopFacts DEF LoopInv, FlatInv, Typed
<1>2. /\ Written' = Written /\ item' = item
  BY WrittenStays DEF ParseRow
<1>3. /\ phase = "parse" /\ rows' = Append(rows, ParsedRow(y))
      /\ \/ y < Len(item) /\ y' = y + 1 /\ phase' = "parse"
         \/ ~(y < Len(item)) /\ y' = 1 /\ phase' = "span"
      /\ x' = x /\ max_cols' = max_cols /\ thead' = thead /\ tbody' = tbody
  BY DEF ParseRow
<1>4. y \in 1 .. Len(item) /\ Len(rows) = y - 1 /\ x = 1
  <2>1. item # <<>>
    BY DEF ParseRow
  <2>. QED
    BY <1>1, <1>3, <2>1 DEF LoopInv, FlatInv, Flow, Places
<1>5. max_cols = 0 /\ \A n \in 1 .. Len(rows) : rows[n] = ParsedRow(n)
  BY <1>1, <1>3 DEF LoopInv, GridInv, SpansCounted
<1>6. Len(rows') = y /\ DOMAIN rows' = 1 .. y /\ \A n \in 1 .. y : rows'[n] = ParsedRow(n)
  <2>1. ParsedRow(y) \in Row
    BY <1>1, <1>4, ParsedProperties
  <2>2. /\ rows' \in Seq(Row) /\ Len(rows') = Len(rows) + 1
        /\ \A n \in 1 .. Len(rows) : rows'[n] = rows[n]
        /\ rows'[Len(rows) + 1] = ParsedRow(y)
    BY <1>1, <1>3, <2>1, AppendProperties
  <2>3. Len(rows') = y /\ DOMAIN rows' = 1 .. y
    BY <1>1, <1>4, <2>2, LenProperties
  <2>4. \A n \in 1 .. y : n \in 1 .. Len(rows) \/ n = Len(rows) + 1
    BY <1>1, <1>4
  <2>5. Len(rows) + 1 = y
    BY <1>1, <1>4
  <2>. QED
    BY <1>5, <2>2, <2>3, <2>4, <2>5
<1>7. \A n : ParsedRow(n)' = ParsedRow(n)
  BY <1>2 DEF ParsedRow
<1>8. phase' = "span" => Len(rows') = Len(item')
  BY <1>1, <1>2, <1>3, <1>4, <1>6
<1>9. ASSUME phase' = "span", NEW n \in 1 .. y
      PROVE  AsWritten(n, rows[n])' /\ Counts(SoFar(n), Len(rows[n]))'
  <2>1. n \in 1 .. Len(item)
    BY <1>1, <1>4
  <2>2. /\ AsWritten(n, ParsedRow(n))
        /\ Counts({s \in Sites(Written, n) : s[1][1] = n /\ s[2] = 0}, Len(ParsedRow(n)))
    BY <1>1, <2>1, ParsedCounts
  <2>3. y' = 1 /\ x' = 1
    BY <1>3, <1>4, <1>9
  <2>4. \A m \in Nat \ {0} : \A i : ~Done(m, i)'
    BY <2>3 DEF Done
  <2>5. \A s \in Sites(Written, n) : s[1][1] \in Nat \ {0}
    <3>1. Written \in Table /\ Len(Written) \in Nat
      BY <1>1, WrittenFacts, TableFacts
    <3>. QED
      BY <3>1, SiteFacts
  <2>6. SoFar(n)' = {s \in Sites(Written, n) : s[1][1] = n /\ s[2] = 0}
    <3>1. SoFar(n)' = {s \in Sites(Written, n) :
                         Done(s[1][1], s[1][2])' \/ (s[1][1] = n /\ s[2] = 0)}
      BY <1>2 DEF SoFar
    <3>. QED
      BY <2>4, <2>5, <3>1
  <2>7. rows'[n] = ParsedRow(n)
    BY <1>6
  <2>8. AsWritten(n, rows[n])'
    BY <1>2, <2>2, <2>7 DEF AsWritten
  <2>. QED
    BY <2>2, <2>6, <2>7, <2>8
<1>10. SpansCounted'
  <2>1. CASE phase' = "parse"
    BY <1>3, <1>5, <1>6, <1>7, <2>1 DEF SpansCounted
  <2>2. CASE phase' = "span"
    BY <1>3, <1>5, <1>6, <1>8, <1>9, <2>2 DEF SpansCounted
  <2>. QED
    BY <1>3, <2>1, <2>2
<1>11. RowsRounded' /\ RowsBuilt'
  BY <1>3 DEF RowsRounded, RowsBuilt, LoopInv, GridInv
<1>. QED
  BY <1>10, <1>11 DEF GridInv

(* Nones put into a row leave its cells as they were written.              *)
LEMMA InsertAsWritten ==
  ASSUME NEW n, NEW row \in Row, AsWritten(n, row), NEW i \in Nat \ {0}, NEW m \in Nat
  PROVE  AsWritten(n, InsertNones(row, i, m))
<1> DEFINE k == IF i > Len(row) + 1 THEN Len(row) + 1 ELSE i
           new == InsertNones(row, i, m)
<1>1. Len(row) \in Nat /\ DOMAIN row = 1 .. Len(row)
  BY LenProperties DEF Row
<1>2. /\ new \in Row /\ Len(new) = Len(row) + m
      /\ k \in 1 .. Len(row) + 1
      /\ \A j \in 1 .. k - 1 : new[j] = row[j]
      /\ \A j \in k .. k + m - 1 : new[j] = None
      /\ \A j \in k .. Len(row) : new[j + m] = row[j]
  BY InsertProperties
<1>3. DOMAIN new = 1 .. Len(row) + m
  BY <1>2, LenProperties DEF Row
<1> HIDE DEF k, new
<1>4. \A j \in DOMAIN new : new[j] # None => \E h \in DOMAIN row : new[j] = row[h]
  <2> SUFFICES ASSUME NEW j \in DOMAIN new, new[j] # None
               PROVE  \E h \in DOMAIN row : new[j] = row[h]
    OBVIOUS
  <2>1. j \in 1 .. k - 1 \/ j \in k + m .. Len(row) + m
    BY <1>1, <1>2, <1>3
  <2>2. CASE j \in 1 .. k - 1
    BY <1>1, <1>2, <2>2
  <2>3. CASE j \in k + m .. Len(row) + m
    <3>1. j - m \in k .. Len(row) /\ j - m \in DOMAIN row /\ (j - m) + m = j
      BY <1>1, <1>2, <2>3
    <3>2. new[(j - m) + m] = row[j - m]
      BY <1>2, <3>1
    <3>. QED
      BY <3>1, <3>2
  <2>. QED
    BY <2>1, <2>2, <2>3
<1>5. AsWritten(n, new)
  BY <1>4 DEF AsWritten
<1>. QED
  BY <1>5 DEF new

(* What SpanCell adds to the places of row r: those of the cell it passes, *)
(* but for the one its own row has had from the start.                     *)
Passed(i, r) == {s \in Sites(Written, r) : s[1] = <<y, i>> /\ (r = y => s[2] # 0)}

LEMMA PassedCounts ==
  ASSUME item \in Seq(Item), y \in 1 .. Len(item), NEW i \in 1 .. Len(Written[y]),
         NEW r \in 1 .. Len(item)
  PROVE  LET c == CSpan(Written[y][i])  d == RSpan(Written[y][i])
         IN Counts(Passed(i, r), IF r = y THEN c ELSE IF r > y /\ r <= y + d THEN c + 1 ELSE 0)
<1> DEFINE c == CSpan(Written[y][i])
           d == RSpan(Written[y][i])
           P == Passed(i, r)
           e == <<y, i>>
<1>1. /\ Written \in Table /\ Len(Written) = Len(item) /\ Len(item) \in Nat
      /\ y \in Nat /\ r \in Nat
  BY WrittenFacts
<1>2. c \in Nat /\ d \in Nat
  BY <1>1, TableFacts
<1>3. \A s \in P : /\ s = <<e, s[2]>> /\ s[2] \in Nat /\ s[2] <= c /\ y <= r /\ r <= y + d
                   /\ r = y => s[2] # 0
  <2> SUFFICES ASSUME NEW s \in P
               PROVE  /\ s = <<e, s[2]>> /\ s[2] \in Nat /\ s[2] <= c /\ y <= r /\ r <= y + d
                      /\ r = y => s[2] # 0
    OBVIOUS
  <2>1. s \in Sites(Written, r) /\ s[1] = <<y, i>> /\ (r = y => s[2] # 0)
    BY DEF Passed
  <2>2. s[1][1] = y /\ s[1][2] = i
    BY <2>1
  <2>3. /\ s = <<s[1], s[2]>> /\ s[2] \in Nat /\ s[2] <= CSpan(Written[s[1][1]][s[1][2]])
        /\ s[1][1] <= r /\ r <= s[1][1] + RSpan(Written[s[1][1]][s[1][2]])
    BY <1>1, <2>1, SiteFacts
  <2>. QED
    BY <2>1, <2>2, <2>3
<1>4. \A a \in Nat : a <= c /\ y <= r /\ r <= y + d /\ (r = y => a # 0) => <<e, a>> \in P
  <2> SUFFICES ASSUME NEW a \in Nat, a <= c, y <= r, r <= y + d, r = y => a # 0
               PROVE  <<e, a>> \in P
    OBVIOUS
  <2>1. <<e, a>> \in Sites(Written, r)
    BY <1>1, IsSite
  <2>2. <<e, a>>[1] = <<y, i>> /\ <<e, a>>[2] = a
    OBVIOUS
  <2>. QED
    BY <2>1, <2>2 DEF Passed
<1> HIDE DEF P, c, d, e
<1>5. CASE r = y
  <2>1. \A s : s \in P <=> s \in {e} \X (1 .. c)
    <3>1. ASSUME NEW s \in P PROVE s \in {e} \X (1 .. c)
      <4>1. s = <<e, s[2]>> /\ s[2] \in 1 .. c
        BY <1>2, <1>3, <1>5
      <4>. QED
        BY <4>1
    <3>2. ASSUME NEW s \in {e} \X (1 .. c) PROVE s \in P
      <4>1. PICK a \in 1 .. c : s = <<e, a>>
        OBVIOUS
      <4>2. a \in Nat /\ a <= c /\ a # 0 /\ y <= r /\ r <= y + d
        BY <1>1, <1>2, <1>5
      <4>. QED
        BY <1>4, <4>1, <4>2
    <3>. QED
      BY <3>1, <3>2
  <2>2. P = {e} \X (1 .. c)
    BY <2>1
  <2>3. 1 \in Nat /\ c \in Nat /\ 1 <= c + 1
    BY <1>2
  <2>4. Counts({e} \X (1 .. c), c + 1 - 1)
    BY ONLY <2>3, BlockCounts
  <2>5. c + 1 - 1 = c
    BY <1>2
  <2>6. Counts(P, c)
    BY <2>2, <2>4, <2>5
  <2>. QED
    BY <1>5, <2>6 DEF c, P
<1>6. CASE r > y /\ r <= y + d
  <2>1. \A s : s \in P <=> s \in {e} \X (0 .. c)
    <3>1. ASSUME NEW s \in P PROVE s \in {e} \X (0 .. c)
      <4>1. s = <<e, s[2]>> /\ s[2] \in 0 .. c
        BY <1>2, <1>3
      <4>. QED
        BY <4>1
    <3>2. ASSUME NEW s \in {e} \X (0 .. c) PROVE s \in P
      <4>1. PICK a \in 0 .. c : s = <<e, a>>
        OBVIOUS
      <4>2. a \in Nat /\ a <= c /\ y <= r /\ r <= y + d /\ r # y
        BY <1>1, <1>2, <1>6
      <4>. QED
        BY <1>4, <4>1, <4>2
    <3>. QED
      BY <3>1, <3>2
  <2>2. P = {e} \X (0 .. c)
    BY <2>1
  <2>3. 0 \in Nat /\ c \in Nat /\ 0 <= c + 1
    BY <1>2
  <2>4. Counts({e} \X (0 .. c), c + 1 - 0)
    BY ONLY <2>3, BlockCounts
  <2>5. c + 1 - 0 = c + 1
    BY <1>2
  <2>6. Counts(P, c + 1)
    BY <2>2, <2>4, <2>5
  <2>7. r # y
    BY <1>1, <1>6
  <2>. QED
    BY <1>6, <2>6, <2>7 DEF c, d, P
<1>7. CASE r # y /\ ~(r > y /\ r <= y + d)
  <2>1. P = {}
    <3>1. ~(y <= r /\ r <= y + d)
      BY <1>1, <1>7
    <3>. QED
      BY <1>3, <3>1
  <2>2. Counts(P, 0)
    BY <2>1, FS_EmptySet DEF Counts
  <2>. QED
    BY <1>7, <2>2 DEF c, d, P
<1>. QED
  BY <1>5, <1>6, <1>7

LEMMA SpanCellGrid == LoopInv /\ SpanCell => GridInv'
<1> SUFFICES ASSUME LoopInv, SpanCell PROVE GridInv'
  OBVIOUS
<1>1. /\ item \in Seq(Item) /\ Len(item) \in Nat /\ Len(rows) \in Nat
      /\ DOMAIN rows = 1 .. Len(rows) /\ x \in Nat \ {0} /\ y \in Nat \ {0}
      /\ \A n \in 1 .. Len(rows) :
           /\ n \in 1 .. Len(item) /\ rows[n] \in Row /\ rows[n] # <<>>
           /\ Len(rows[n]) \in Nat \ {0} /\ DOMAIN rows[n] = 1 .. Len(rows[n])
           /\ Kept(DOMAIN item[n].cells, n, rows[n])
  BY LoopFacts
<1>2. /\ phase = "span" /\ y <= Len(rows) /\ x <= Len(rows[y])
      /\ rows' = IF rows[y][x] = None THEN rows
                 ELSE [r \in DOMAIN rows |-> Covered(rows[y][x], r)]
      /\ x' = x + 1 /\ y' = y /\ phase' = phase /\ max_cols' = max_cols
      /\ thead' = thead /\ tbody' = tbody
  BY DEF SpanCell
<1>3. Written' = Written /\ item' = item
  BY WrittenStays DEF SpanCell
<1>4. /\ Len(rows) = Len(item) /\ max_cols = 0
      /\ \A n \in 1 .. Len(rows) : AsWritten(n, rows[n]) /\ Counts(SoFar(n), Len(rows[n]))
  BY <1>1, <1>2 DEF LoopInv, GridInv, SpansCounted
<1>5. /\ Written \in Table /\ Len(Written) = Len(item)
      /\ \A n \in 1 .. Len(item) :
           /\ Len(Written[n]) \in Nat \ {0} /\ DOMAIN item[n].cells = 1 .. Len(Written[n])
           /\ \A i \in 1 .. Len(Written[n]) :
                Written[n][i] # None /\ Content(Written[n][i]) = <<n, i>>
  BY <1>1, WrittenFacts
<1>6. y \in 1 .. Len(rows) /\ x \in 1 .. Len(rows[y]) /\ y \in 1 .. Len(item)
  BY <1>1, <1>2
<1>7. \A r : SoFar(r)' = {s \in Sites(Written, r) :
                            Done(s[1][1], s[1][2])' \/ (s[1][1] = r /\ s[2] = 0)}
  BY <1>3 DEF SoFar
<1>8. ASSUME DOMAIN rows' = 1 .. Len(rows), Len(rows') = Len(rows),
             \A n \in 1 .. Len(rows) : AsWritten(n, rows'[n]) /\ Counts(SoFar(n)', Len(rows'[n]))
      PROVE  GridInv'
  <2>1. \A n \in DOMAIN rows' : AsWritten(n, rows[n])' /\ Counts(SoFar(n), Len(rows[n]))'
    <3> SUFFICES ASSUME NEW n \in 1 .. Len(rows)
                 PROVE  AsWritten(n, rows[n])' /\ Counts(SoFar(n), Len(rows[n]))'
      BY <1>8
    <3>1. AsWritten(n, rows'[n]) /\ Counts(SoFar(n)', Len(rows'[n]))
      BY <1>8
    <3>. QED
      BY <1>3, <3>1 DEF AsWritten
  <2>2. SpansCounted'
    BY <1>2, <1>3, <1>4, <1>8, <2>1 DEF SpansCounted
  <2>3. RowsRounded' /\ RowsBuilt'
    BY <1>2 DEF RowsRounded, RowsBuilt, LoopInv, GridInv
  <2>. QED
    BY <2>2, <2>3 DEF GridInv
<1>9. CASE rows[y][x] = None
  <2>1. rows' = rows
    BY <1>2, <1>9
  <2>2. \A m, i : Done(m, i)' <=> Done(m, i)
    <3>1. ASSUME NEW i
          PROVE  (\E k \in 1 .. x : rows[y][k] # None /\ Content(rows[y][k]) = <<y, i>>)
                   <=> \E k \in 1 .. x - 1 : rows[y][k] # None /\ Content(rows[y][k]) = <<y, i>>
      <4>1. \A k \in 1 .. x - 1 : k \in 1 .. x
        BY <1>1
      <4>2. \A k \in 1 .. x : k # x => k \in 1 .. x - 1
        BY <1>1
      <4>. QED
        BY <1>9, <4>1, <4>2
    <3>2. 1 .. x' - 1 = 1 .. x
      BY <1>1, <1>2
    <3>. QED
      BY <1>2, <2>1, <3>1, <3>2 DEF Done
  <2>3. \A n : SoFar(n)' = SoFar(n)
    BY <1>7, <2>2 DEF SoFar
  <2>. QED
    BY <1>1, <1>4, <1>8, <2>1, <2>3
<1>10. CASE rows[y][x] # None
  <2> DEFINE cell == rows[y][x]
  <2>1. PICK i \in 1 .. Len(Written[y]) : cell = Written[y][i]
    BY <1>1, <1>4, <1>6, <1>10 DEF AsWritten
  <2> DEFINE c == CSpan(cell)
             d == RSpan(cell)
  <2>2. c \in Nat /\ d \in Nat /\ Content(cell) = <<y, i>>
    BY <1>5, <1>6, <2>1, TableFacts
  <2>3. rows' = [r \in 1 .. Len(rows) |-> Covered(cell, r)]
    BY <1>1, <1>2, <1>10
  <2>4. \A r \in 1 .. Len(rows) :
          rows'[r] = IF r = y THEN InsertNones(rows[r], x + 1, c)
                     ELSE IF r > y /\ r <= y + d THEN InsertNones(rows[r], x, c + 1)
                     ELSE rows[r]
    <3>1. \A r \in 1 .. Len(rows) : r = y => ~(r > y)
      BY <1>1
    <3>. QED
      BY <2>3, <3>1 DEF Covered
  <2> HIDE DEF cell, c, d
  <2>5. \A n \in 1 .. Len(rows) :
          /\ AsWritten(n, rows'[n])
          /\ Len(rows'[n]) = Len(rows[n]) +
               (IF n = y THEN c ELSE IF n > y /\ n <= y + d THEN c + 1 ELSE 0)
    <3> SUFFICES ASSUME NEW n \in 1 .. Len(rows)
                 PROVE  /\ AsWritten(n, rows'[n])
                        /\ Len(rows'[n]) = Len(rows[n]) +
                             (IF n = y THEN c ELSE IF n > y /\ n <= y + d THEN c + 1 ELSE 0)
      OBVIOUS
    <3>1. rows[n] \in Row /\ AsWritten(n, rows[n]) /\ Len(rows[n]) \in Nat
      BY <1>1, <1>4
    <3> DEFINE old == rows[n]  next == x + 1  one == c + 1
    <3> HIDE DEF old, next, one
    <3>2. /\ old \in Row /\ AsWritten(n, old)
          /\ next \in Nat \ {0} /\ x \in Nat \ {0} /\ one \in Nat /\ c \in Nat
      BY <1>1, <2>2, <3>1 DEF old, next, one
    <3>3. AsWritten(n, InsertNones(old, next, c)) /\ AsWritten(n, InsertNones(old, x, one))
      BY ONLY <3>2, InsertAsWritten
    <3>4. /\ Len(InsertNones(old, next, c)) = Len(old) + c
          /\ Len(InsertNones(old, x, one)) = Len(old) + one
      BY ONLY <3>2, InsertProperties
    <3>. QED
      BY <2>4, <3>1, <3>3, <3>4 DEF old, next, one
  <2>6. \A k \in 1 .. x : rows'[y][k] = rows[y][k]
    <3> DEFINE k == IF x + 1 > Len(rows[y]) + 1 THEN Len(rows[y]) + 1 ELSE x + 1
               new == InsertNones(rows[y], x + 1, c)
    <3>1. rows[y] \in Row /\ x + 1 \in Nat \ {0} /\ c \in Nat
      BY <1>1, <1>6, <2>2
    <3>2. k = x + 1
      BY <1>1, <1>6
    <3>3. \A j \in 1 .. k - 1 : new[j] = rows[y][j]
      BY <3>1, InsertProperties
    <3>4. k - 1 = x
      BY <1>1, <3>2
    <3>5. rows'[y] = new
      BY <1>6, <2>4
    <3> HIDE DEF k, new
    <3>. QED
      BY <3>3, <3>4, <3>5
  <2>7. ~Done(y, i)
    <3> SUFFICES ASSUME NEW k \in 1 .. x - 1, rows[y][k] # None, Content(rows[y][k]) = <<y, i>>
                 PROVE  FALSE
      BY <1>1 DEF Done
    <3>1. k \in DOMAIN rows[y] /\ x \in DOMAIN rows[y] /\ k < x
      BY <1>1, <1>6
    <3>2. Content(rows[y][k]) # Nothing /\ Content(rows[y][x]) # Nothing
      BY <2>2 DEF Nothing, cell
    <3>3. Content(rows[y][k])[2] < Content(rows[y][x])[2]
      BY <1>1, <1>6, <1>10, <3>1, <3>2 DEF Kept, InOrder
    <3>4. Content(rows[y][k])[2] = i /\ Content(rows[y][x])[2] = i
      BY <2>2 DEF cell
    <3>5. ~(i < i)
      BY <1>5, <1>6
    <3>. QED
      BY <3>3, <3>4, <3>5
  <2>8. \A m, j : Done(m, j)' <=> Done(m, j) \/ (m = y /\ j = i)
    <3>1. 1 .. x' - 1 = 1 .. x
      BY <1>1, <1>2
    <3>2. ASSUME NEW j
          PROVE  (\E k \in 1 .. x : rows[y][k] # None /\ Content(rows[y][k]) = <<y, j>>)
                   <=> \/ \E k \in 1 .. x - 1 : rows[y][k] # None /\ Content(rows[y][k]) = <<y, j>>
                       \/ j = i
      <4>1. \A k \in 1 .. x - 1 : k \in 1 .. x
        BY <1>1
      <4>2. \A k \in 1 .. x : k # x => k \in 1 .. x - 1
        BY <1>1
      <4>3. x \in 1 .. x
        BY <1>1
      <4>4. Content(rows[y][x]) = <<y, j>> <=> j = i
        BY <2>2 DEF cell
      <4>. QED
        BY <1>10, <4>1, <4>2, <4>3, <4>4
    <3>3. ASSUME NEW j
          PROVE  (\E k \in 1 .. x' - 1 : rows'[y][k] # None /\ Content(rows'[y][k]) = <<y, j>>)
                   <=> \E k \in 1 .. x : rows[y][k] # None /\ Content(rows[y][k]) = <<y, j>>
      BY <2>6, <3>1
    <3>4. ~(y < y)
      BY <1>1
    <3>. QED
      BY <1>2, <3>2, <3>3, <3>4 DEF Done
  <2>9. ASSUME NEW r \in 1 .. Len(rows)
        PROVE  SoFar(r)' = SoFar(r) \cup Passed(i, r) /\ SoFar(r) \cap Passed(i, r) = {}
    <3>1. ASSUME NEW s \in Sites(Written, r)
          PROVE  /\ s \in SoFar(r)' <=> s \in SoFar(r) \/ s \in Passed(i, r)
                 /\ ~(s \in SoFar(r) /\ s \in Passed(i, r))
      <4>1. s[1] = <<s[1][1], s[1][2]>>
        BY <1>5, SiteFacts
      <4>2. s[1] = <<y, i>> <=> s[1][1] = y /\ s[1][2] = i
        BY <4>1
      <4>3. s \in SoFar(r)' <=> \/ Done(s[1][1], s[1][2]) \/ s[1] = <<y, i>>
                                \/ s[1][1] = r /\ s[2] = 0
        BY <1>7, <2>8, <4>2
      <4>4. s \in SoFar(r) <=> Done(s[1][1], s[1][2]) \/ (s[1][1] = r /\ s[2] = 0)
        BY DEF SoFar
      <4>5. s \in Passed(i, r) <=> s[1] = <<y, i>> /\ (r = y => s[2] # 0)
        BY DEF Passed
      <4>6. s[1] = <<y, i>> => ~Done(s[1][1], s[1][2])
        BY <2>7, <4>2
      <4>. QED
        BY <4>2, <4>3, <4>4, <4>5, <4>6
    <3>2. /\ SoFar(r)' \subseteq Sites(Written, r) /\ SoFar(r) \subseteq Sites(Written, r)
          /\ Passed(i, r) \subseteq Sites(Written, r)
      BY <1>7 DEF SoFar, Passed
    <3>3. \A s : s \in SoFar(r)' <=> s \in SoFar(r) \cup Passed(i, r)
      BY <3>1, <3>2
    <3>. QED
      BY <3>1, <3>2, <3>3
  <2>10. \A n \in 1 .. Len(rows) : Counts(SoFar(n)', Len(rows'[n]))
    <3> SUFFICES ASSUME NEW n \in 1 .. Len(rows) PROVE Counts(SoFar(n)', Len(rows'[n]))
      OBVIOUS
    <3> DEFINE b == IF n = y THEN c ELSE IF n > y /\ n <= y + d THEN c + 1 ELSE 0
    <3>1. Counts(Passed(i, n), b)
      BY <1>1, <1>6, <2>1, PassedCounts DEF c, d
    <3>2. Counts(SoFar(n), Len(rows[n]))
      BY <1>4
    <3>3. Len(rows'[n]) = Len(rows[n]) + b
      BY <2>5
    <3> HIDE DEF b
    <3>4. Counts(SoFar(n) \cup Passed(i, n), Len(rows[n]) + b)
      BY <2>9, <3>1, <3>2, CountsUnion
    <3>. QED
      BY <2>9, <3>3, <3>4
  <2>11. DOMAIN rows' = 1 .. Len(rows) /\ Len(rows') = Len(rows)
    BY <1>1, <2>3
  <2>. QED
    BY <1>8, <2>5, <2>10, <2>11
<1>. QED
  BY <1>9, <1>10

LEMMA NextRowGrid == LoopInv /\ NextRow => GridInv'
<1> SUFFICES ASSUME LoopInv, NextRow PROVE GridInv'
  OBVIOUS
<1>1. /\ item \in Seq(Item) /\ Len(item) \in Nat /\ Len(rows) \in Nat
      /\ DOMAIN rows = 1 .. Len(rows) /\ x \in Nat \ {0} /\ y \in Nat \ {0}
      /\ \A n \in 1 .. Len(rows) :
           /\ n \in 1 .. Len(item) /\ DOMAIN rows[n] = 1 .. Len(rows[n])
           /\ Len(rows[n]) \in Nat
           /\ Kept(DOMAIN item[n].cells, n, rows[n])
  BY LoopFacts
<1>2. /\ phase = "span" /\ y <= Len(rows) /\ x > Len(rows[y]) /\ rows' = rows
      /\ x' = 1 /\ y' = y + 1 /\ phase' = phase /\ max_cols' = max_cols
      /\ thead' = thead /\ tbody' = tbody
  BY DEF NextRow
<1>3. Written' = Written /\ item' = item
  BY WrittenStays DEF NextRow
<1>4. /\ Len(rows) = Len(item) /\ max_cols = 0
      /\ \A n \in 1 .. Len(rows) : AsWritten(n, rows[n]) /\ Counts(SoFar(n), Len(rows[n]))
  BY <1>1, <1>2 DEF LoopInv, GridInv, SpansCounted
<1>5. /\ Written \in Table /\ Len(Written) = Len(item)
      /\ \A n \in 1 .. Len(item) : DOMAIN item[n].cells = 1 .. Len(Written[n])
  BY <1>1, WrittenFacts
<1>6. ASSUME NEW m \in 1 .. Len(item), NEW i \in 1 .. Len(Written[m])
      PROVE  Done(m, i)' <=> Done(m, i)
  <2>1. Done(m, i)' <=> m < y + 1
    BY <1>2 DEF Done
  <2>2. m \in Nat
    BY <1>1
  <2>3. CASE m = y
    <3>1. Holds(rows[m], m, i)
      BY <1>1, <1>4, <1>5 DEF Kept
    <3>2. PICK k \in DOMAIN rows[m] : rows[m][k] # None /\ Content(rows[m][k]) = <<m, i>>
      BY <3>1 DEF Holds
    <3>3. k \in 1 .. x - 1
      BY <1>1, <1>2, <1>4, <2>3, <3>2
    <3>. QED
      BY <1>1, <2>1, <2>3, <3>2, <3>3 DEF Done
  <2>4. CASE m # y
    BY <1>1, <2>1, <2>2, <2>4 DEF Done
  <2>. QED
    BY <2>3, <2>4
<1>7. ASSUME NEW n \in 1 .. Len(rows) PROVE SoFar(n)' = SoFar(n)
  <2>1. SoFar(n)' = {s \in Sites(Written, n) :
                       Done(s[1][1], s[1][2])' \/ (s[1][1] = n /\ s[2] = 0)}
    BY <1>3 DEF SoFar
  <2>2. \A s \in Sites(Written, n) : Done(s[1][1], s[1][2])' <=> Done(s[1][1], s[1][2])
    <3> SUFFICES ASSUME NEW s \in Sites(Written, n)
                 PROVE  Done(s[1][1], s[1][2])' <=> Done(s[1][1], s[1][2])
      OBVIOUS
    <3> DEFINE m == s[1][1]  i == s[1][2]
    <3>1. m \in 1 .. Len(item) /\ i \in 1 .. Len(Written[m])
      BY <1>5, SiteFacts
    <3> HIDE DEF m, i
    <3>2. Done(m, i)' <=> Done(m, i)
      BY <1>6, <3>1
    <3>. QED
      BY <3>2 DEF m, i
  <2>. QED
    BY <2>1, <2>2 DEF SoFar
<1>8. SpansCounted'
  <2>1. \A n \in DOMAIN rows' : AsWritten(n, rows[n])' /\ Counts(SoFar(n), Len(rows[n]))'
    <3> SUFFICES ASSUME NEW n \in 1 .. Len(rows)
                 PROVE  AsWritten(n, rows[n])' /\ Counts(SoFar(n), Len(rows[n]))'
      BY <1>1, <1>2
    <3>1. AsWritten(n, rows[n]) /\ Counts(SoFar(n), Len(rows[n]))
      BY <1>4
    <3>. QED
      BY <1>2, <1>3, <1>7, <3>1 DEF AsWritten
  <2>. QED
    BY <1>2, <1>3, <1>4, <2>1 DEF SpansCounted
<1>9. RowsRounded' /\ RowsBuilt'
  BY <1>2 DEF RowsRounded, RowsBuilt, LoopInv, GridInv
<1>. QED
  BY <1>8, <1>9 DEF GridInv

LEMMA AllSpannedGrid == LoopInv /\ AllSpanned => GridInv'
<1> SUFFICES ASSUME LoopInv, AllSpanned PROVE GridInv'
  OBVIOUS
<1>1. /\ item \in Seq(Item) /\ Len(item) \in Nat /\ Len(rows) \in Nat
      /\ DOMAIN rows = 1 .. Len(rows) /\ y \in Nat \ {0}
  BY LoopFacts
<1>2. /\ phase = "span" /\ y > Len(rows) /\ phase' = "count" /\ y' = 1 /\ rows' = rows
      /\ max_cols' = max_cols /\ thead' = thead /\ tbody' = tbody
  BY DEF AllSpanned
<1>3. Written' = Written /\ item' = item
  BY WrittenStays DEF AllSpanned
<1>4. /\ Len(rows) = Len(item) /\ max_cols = 0
      /\ \A n \in 1 .. Len(rows) : AsWritten(n, rows[n]) /\ Counts(SoFar(n), Len(rows[n]))
  BY <1>1, <1>2 DEF LoopInv, GridInv, SpansCounted
<1>5. Written \in Table /\ Len(Written) = Len(item)
  BY <1>1, WrittenFacts
<1>6. ASSUME NEW n \in 1 .. Len(rows) PROVE SoFar(n) = Sites(Written, n)
  <2>1. \A s \in Sites(Written, n) : Done(s[1][1], s[1][2])
    <3> SUFFICES ASSUME NEW s \in Sites(Written, n) PROVE s[1][1] < y
      BY DEF Done
    <3>1. s[1][1] \in 1 .. Len(item)
      BY <1>5, SiteFacts
    <3>. QED
      BY <1>1, <1>2, <1>4, <3>1
  <2>. QED
    BY <2>1 DEF SoFar
<1>7. \A n \in DOMAIN rows' : Unrounded(n, rows[n])'
  <2> SUFFICES ASSUME NEW n \in 1 .. Len(rows) PROVE Unrounded(n, rows[n])'
    BY <1>1, <1>2
  <2>1. AsWritten(n, rows[n]) /\ Counts(Sites(Written, n), Len(rows[n]))
    BY <1>4, <1>6
  <2>. QED
    BY <1>2, <1>3, <2>1 DEF Unrounded, AsWritten
<1>8. SpansCounted'
  BY <1>2, <1>3, <1>4 DEF SpansCounted
<1>9. RowsRounded'
  BY <1>2, <1>4, <1>7 DEF RowsRounded
<1>10. RowsBuilt'
  BY <1>2 DEF RowsBuilt, LoopInv, GridInv
<1>. QED
  BY <1>8, <1>9, <1>10 DEF GridInv

LEMMA CountRowGrid == LoopInv /\ CountRow => GridInv'
<1> SUFFICES ASSUME LoopInv, CountRow PROVE GridInv'
  OBVIOUS
<1>1. /\ item \in Seq(Item) /\ Len(item) \in Nat /\ Len(rows) \in Nat
      /\ DOMAIN rows = 1 .. Len(rows) /\ y \in Nat \ {0} /\ max_cols \in Nat
      /\ \A n \in 1 .. Len(rows) : n \in 1 .. Len(item) /\ Len(rows[n]) \in Nat \ {0}
  BY LoopFacts
<1>2. /\ phase = "count" /\ rows' = rows /\ thead' = thead /\ tbody' = tbody
      /\ max_cols' = IF y <= Len(rows) /\ max_cols < Len(rows[y]) THEN Len(rows[y]) ELSE max_cols
      /\ \/ y < Len(rows) /\ y' = y + 1 /\ phase' = "count"
         \/ ~(y < Len(rows)) /\ y' = 1 /\ phase' = "fill"
  BY DEF CountRow
<1>3. Written' = Written /\ item' = item
  BY WrittenStays DEF CountRow
<1>4. y \in 1 .. Len(rows)
  BY <1>1, <1>2 DEF LoopInv, FlatInv, Flow
<1>5. /\ Len(rows) = Len(item)
      /\ \A n \in 1 .. Len(rows) : Unrounded(n, rows[n])
      /\ (y = 1 /\ max_cols = 0) \/ \E n \in 1 .. y - 1 : max_cols = Len(rows[n])
  BY <1>1, <1>2 DEF LoopInv, GridInv, SpansCounted, RowsRounded
<1>6. \E n \in 1 .. y : max_cols' = Len(rows[n])
  <2>1. y \in 1 .. y /\ \A n \in 1 .. y - 1 : n \in 1 .. y
    BY <1>1
  <2>2. Len(rows[y]) \in Nat \ {0}
    BY <1>1, <1>4
  <2>3. CASE max_cols < Len(rows[y])
    BY <1>2, <1>4, <2>1, <2>3
  <2>4. CASE ~(max_cols < Len(rows[y]))
    <3>1. max_cols # 0
      BY <2>2, <2>4
    <3>2. PICK n \in 1 .. y - 1 : max_cols = Len(rows[n])
      BY <1>5, <3>1
    <3>3. max_cols' = max_cols
      BY <1>2, <2>4
    <3>. QED
      BY <2>1, <3>2, <3>3
  <2>. QED
    BY <2>3, <2>4
<1>7. \A n \in 1 .. Len(rows) : Unrounded(n, rows[n])'
  <2> SUFFICES ASSUME NEW n \in 1 .. Len(rows) PROVE Unrounded(n, rows[n])'
    OBVIOUS
  <2>1. AsWritten(n, rows[n]) /\ Counts(Sites(Written, n), Len(rows[n]))
    BY <1>5 DEF Unrounded
  <2>. QED
    BY <1>2, <1>3, <2>1 DEF Unrounded, AsWritten
<1>8. SpansCounted' /\ RowsBuilt'
  BY <1>2, <1>3, <1>5 DEF SpansCounted, RowsBuilt, LoopInv, GridInv
<1>9. CASE phase' = "count"
  <2>1. y' - 1 = y
    BY <1>1, <1>2, <1>9
  <2>2. RowsRounded'
    BY <1>1, <1>2, <1>6, <1>7, <1>9, <2>1 DEF RowsRounded
  <2>. QED
    BY <1>8, <2>2 DEF GridInv
<1>10. CASE phase' = "fill"
  <2>1. PICK n \in 1 .. y : max_cols' = Len(rows[n])
    BY <1>6
  <2>2. n \in 1 .. Len(rows) /\ n \in 1 .. Len(item)
    BY <1>1, <1>4
  <2>3. Counts(Sites(Written, n), Len(rows[n]))
    BY <1>5, <2>2 DEF Unrounded
  <2>4. Counts(Sites(Written, n), max_cols)'
    BY <1>3, <2>1, <2>3
  <2>5. Widest'
    BY <1>3, <2>2, <2>4 DEF Widest
  <2>6. y' = 1 /\ 1 .. y' - 1 = {}
    BY <1>2, <1>10
  <2>7. RowsRounded'
    BY <1>2, <1>7, <1>10, <2>5, <2>6 DEF RowsRounded
  <2>. QED
    BY <1>8, <2>7 DEF GridInv
<1>. QED
  BY <1>2, <1>9, <1>10

LEMMA RoundOffRowGrid == LoopInv /\ RoundOffRow => GridInv'
<1> SUFFICES ASSUME LoopInv, RoundOffRow PROVE GridInv'
  OBVIOUS
<1> DEFINE missing == max_cols - Len(rows[y])
<1>1. /\ item \in Seq(Item) /\ Len(item) \in Nat /\ Len(rows) \in Nat
      /\ DOMAIN rows = 1 .. Len(rows) /\ y \in Nat \ {0} /\ max_cols \in Nat
      /\ \A n \in 1 .. Len(rows) :
           /\ n \in 1 .. Len(item) /\ rows[n] \in Row /\ rows[n] # <<>>
           /\ Len(rows[n]) \in Nat /\ Kept(DOMAIN item[n].cells, n, rows[n])
  BY LoopFacts
<1>2. /\ phase = "fill" /\ max_cols' = max_cols /\ thead' = thead /\ tbody' = tbody
      /\ rows' = CASE missing = 0                -> rows
                   [] missing > 0 /\ ~fill_cells -> [rows EXCEPT ![y] = Stretched(@, missing)]
                   [] missing > 0 /\ fill_cells  -> [rows EXCEPT ![y] = Filled(@, missing)]
      /\ \/ y < Len(rows) /\ y' = y + 1 /\ phase' = "fill"
         \/ ~(y < Len(rows)) /\ y' = 1 /\ phase' = "build"
  BY DEF RoundOffRow
<1>3. Written' = Written /\ item' = item /\ fill_cells' = fill_cells
  BY WrittenStays DEF RoundOffRow
<1>4. y \in 1 .. Len(rows) /\ Len(rows[y]) <= max_cols
  BY <1>1, <1>2 DEF LoopInv, FlatInv, Flow, Widths
<1>5. /\ Len(rows) = Len(item) /\ Widest
      /\ \A n \in y .. Len(rows) : Unrounded(n, rows[n])
      /\ \A n \in 1 .. y - 1 : Rounded(n, rows[n])
      /\ thead = <<>> /\ tbody = <<>>
  BY <1>2 DEF LoopInv, GridInv, SpansCounted, RowsRounded, RowsBuilt
<1>6. missing \in Nat
  BY <1>1, <1>4
<1> HIDE DEF missing
<1>7. /\ DOMAIN rows' = 1 .. Len(rows) /\ Len(rows') = Len(rows)
      /\ \A n \in 1 .. Len(rows) : n # y => rows'[n] = rows[n]
      /\ missing = 0 => rows'[y] = rows[y]
      /\ missing # 0 /\ ~fill_cells => rows'[y] = Stretched(rows[y], missing)
      /\ missing # 0 /\ fill_cells => rows'[y] = Filled(rows[y], missing)
  <2>0. rows = [n \in 1 .. Len(rows) |-> rows[n]]
    BY RowsTyped, LenProperties DEF LoopInv, FlatInv, Typed
  <2>1. CASE missing = 0
    BY <1>1, <1>2, <2>1
  <2>2. CASE missing # 0 /\ ~fill_cells
    <3>1. rows' = [rows EXCEPT ![y] = Stretched(rows[y], missing)]
      BY <1>2, <1>6, <2>2
    <3>. QED
      BY <1>1, <1>4, <2>0, <2>2, <3>1
  <2>3. CASE missing # 0 /\ fill_cells
    <3>1. rows' = [rows EXCEPT ![y] = Filled(rows[y], missing)]
      BY <1>2, <1>6, <2>3
    <3>. QED
      BY <1>1, <1>4, <2>0, <2>3, <3>1
  <2>. QED
    BY <2>1, <2>2, <2>3
<1>8. Grown(Written[y], Entries(rows'[y]), missing, fill_cells)
  <2>1. /\ y \in 1 .. Len(item) /\ rows[y] \in Row /\ rows[y] # <<>>
        /\ Kept(DOMAIN item[y].cells, y, rows[y])
    BY <1>1, <1>4
  <2>2. AsWritten(y, rows[y])
    <3>1. y \in y .. Len(rows)
      BY <1>1, <1>4
    <3>. QED
      BY <1>5, <3>1 DEF Unrounded
  <2>3. CASE missing = 0
    BY <1>1, <1>7, <2>1, <2>2, <2>3, EntriesKeep DEF Grown
  <2>4. CASE missing # 0 /\ ~fill_cells
    <3>1. missing \in Nat \ {0}
      BY <1>6, <2>4
    <3>. QED
      BY <1>1, <1>7, <2>1, <2>2, <2>4, <3>1, EntriesStretched DEF Grown
  <2>5. CASE missing # 0 /\ fill_cells
    <3>1. missing \in Nat \ {0}
      BY <1>6, <2>5
    <3>. QED
      BY <1>1, <1>7, <2>1, <2>2, <2>5, <3>1, EntriesFilled DEF Grown
  <2>. QED
    BY <2>3, <2>4, <2>5
<1>9. ASSUME NEW n \in 1 .. Len(rows), n = y PROVE Rounded(n, rows[n])'
  <2>1. n \in y .. Len(rows)
    BY <1>1, <1>4, <1>9
  <2>2. Counts(Sites(Written, n), Len(rows[n]))
    BY <1>5, <2>1 DEF Unrounded
  <2>3. Len(rows[n]) \in 0 .. max_cols
    BY <1>1, <1>4, <1>9
  <2>4. \E v \in 0 .. max_cols :
          /\ Counts(Sites(Written, n), v)
          /\ Grown(Written[n], Entries(rows'[n]), max_cols - v, fill_cells)
    BY <1>8, <1>9, <2>2, <2>3 DEF missing
  <2>. QED
    BY <1>2, <1>3, <2>4 DEF Rounded
<1>10. ASSUME NEW n \in 1 .. y - 1 PROVE Rounded(n, rows[n])'
  <2>1. rows'[n] = rows[n]
    BY <1>1, <1>4, <1>7
  <2>2. Rounded(n, rows[n])
    BY <1>5
  <2>. QED
    BY <1>2, <1>3, <2>1, <2>2 DEF Rounded
<1>11. ASSUME NEW n \in y + 1 .. Len(rows) PROVE Unrounded(n, rows[n])'
  <2>1. n \in y .. Len(rows) /\ n \in 1 .. Len(rows) /\ n # y
    BY <1>1, <1>4
  <2>2. rows'[n] = rows[n]
    BY <1>7, <2>1
  <2>3. Unrounded(n, rows[n])
    BY <1>5, <2>1
  <2>. QED
    BY <1>3, <2>2, <2>3 DEF Unrounded, AsWritten
<1>12. \A n \in 1 .. y : Rounded(n, rows[n])'
  <2> SUFFICES ASSUME NEW n \in 1 .. y PROVE Rounded(n, rows[n])'
    OBVIOUS
  <2>1. n \in 1 .. Len(rows) /\ (n # y => n \in 1 .. y - 1)
    BY <1>1, <1>4
  <2>. QED
    BY <1>9, <1>10, <2>1
<1>13. Widest'
  BY <1>2, <1>3, <1>5 DEF Widest
<1>14. SpansCounted'
  BY <1>2, <1>3, <1>5, <1>7 DEF SpansCounted
<1>15. CASE phase' = "fill"
  <2>1. y' - 1 = y /\ y' = y + 1
    BY <1>1, <1>2, <1>15
  <2>2. RowsRounded'
    BY <1>7, <1>11, <1>12, <1>13, <1>15, <2>1 DEF RowsRounded
  <2>3. RowsBuilt'
    BY <1>2, <1>5, <1>15 DEF RowsBuilt
  <2>. QED
    BY <1>14, <2>2, <2>3 DEF GridInv
<1>16. CASE phase' = "build"
  <2>1. y = Len(rows) /\ y' = 1
    BY <1>1, <1>2, <1>4, <1>16
  <2>2. RowsRounded'
    BY <1>7, <1>12, <1>13, <1>16, <2>1 DEF RowsRounded
  <2>3. RowsBuilt'
    <3>1. thead' = <<>> /\ tbody' = <<>> /\ <<>> \o <<>> = <<>>
      BY <1>2, <1>5, ConcatEmptySeq, EmptySeq
    <3>2. Built' = <<>>
      BY <3>1 DEF Built
    <3>3. y' - 1 = 0
      BY <2>1
    <3>4. [n \in 1 .. 0 |-> Entries(rows'[n])] = <<>>
      OBVIOUS
    <3>5. Built' = [n \in 1 .. y' - 1 |-> Entries(rows'[n])]
      BY <3>2, <3>3, <3>4
    <3>. QED
      BY <1>16, <3>1, <3>5 DEF RowsBuilt
  <2>. QED
    BY <1>14, <2>2, <2>3 DEF GridInv
<1>. QED
  BY <1>2, <1>15, <1>16

LEMMA BuildRowGrid == LoopInv /\ BuildRow => GridInv'
<1> SUFFICES ASSUME LoopInv, BuildRow PROVE GridInv'
  OBVIOUS
<1>1. /\ Len(rows) \in Nat /\ DOMAIN rows = 1 .. Len(rows) /\ y \in Nat \ {0}
  BY LoopFacts
<1>2. /\ phase = "build" /\ phase' = "build" /\ y <= Len(rows) /\ y' = y + 1
      /\ rows' = rows /\ max_cols' = max_cols
      /\ \/ y <= header_rows /\ thead' = Append(thead, Entries(rows[y])) /\ tbody' = tbody
         \/ ~(y <= header_rows) /\ tbody' = Append(tbody, Entries(rows[y])) /\ thead' = thead
  BY DEF BuildRow
<1>3. Written' = Written /\ item' = item /\ fill_cells' = fill_cells /\ header_rows' = header_rows
  BY WrittenStays DEF BuildRow
<1>4. /\ Len(rows) = Len(item) /\ Widest /\ \A n \in DOMAIN rows : Rounded(n, rows[n])
      /\ Built = [n \in 1 .. y - 1 |-> Entries(rows[n])]
      /\ y <= header_rows + 1 => tbody = <<>>
  BY <1>2 DEF LoopInv, GridInv, SpansCounted, RowsRounded, RowsBuilt
<1>5. /\ thead \in Seq(Seq(Cell)) /\ tbody \in Seq(Seq(Cell)) /\ header_rows \in Nat
  BY FlatTableAssumption DEF LoopInv, TableTyped
<1> DEFINE e == Entries(rows[y])
<1>6. e \in Seq(Cell)
  BY <1>1, <1>2, LoopFacts, EntriesOfRow
<1> HIDE DEF e
<1>7. Built' = Append(Built, e)
  <2>1. CASE y <= header_rows
    <3>1. tbody = <<>> /\ tbody' = <<>> /\ thead' = Append(thead, e)
      BY <1>1, <1>2, <1>4, <1>5, <2>1 DEF e
    <3>2. thead' \in Seq(Seq(Cell))
      BY <1>5, <1>6, <3>1, AppendProperties
    <3>3. Built = thead /\ Built' = thead'
      BY <1>5, <3>1, <3>2, ConcatEmptySeq DEF Built
    <3>. QED
      BY <3>1, <3>3
  <2>2. CASE ~(y <= header_rows)
    <3>1. tbody' = Append(tbody, e) /\ thead' = thead
      BY <1>2, <2>2 DEF e
    <3> DEFINE S == Seq(Cell)
    <3>2. thead \in Seq(S) /\ tbody \in Seq(S) /\ e \in S
      BY <1>5, <1>6
    <3> HIDE DEF S
    <3>3. <<e>> \in Seq(S)
      BY <3>2
    <3>4. thead \o tbody \in Seq(S)
      BY <3>2, ConcatProperties
    <3>5. Append(tbody, e) = tbody \o <<e>>
      BY <3>2, AppendIsConcat
    <3>6. Append(thead \o tbody, e) = (thead \o tbody) \o <<e>>
      BY ONLY <3>2, <3>4, AppendIsConcat
    <3>7. (thead \o tbody) \o <<e>> = thead \o (tbody \o <<e>>)
      BY ONLY <3>2, <3>3, ConcatAssociative
    <3>. QED
      BY <3>1, <3>5, <3>6, <3>7 DEF Built
  <2>. QED
    BY <2>1, <2>2
<1>8. Built' = [n \in 1 .. y |-> Entries(rows[n])]
  <2>1. Len(Built) = y - 1 /\ Built \in Seq(Seq(Cell))
    <3>1. y - 1 \in Nat
      BY <1>1
    <3>2. Built \in Seq(Seq(Cell))
      BY <1>5, ConcatProperties DEF Built
    <3>. QED
      BY <1>4, <3>1, <3>2
  <2>2. /\ Built' \in Seq(Seq(Cell)) /\ Len(Built') = y
        /\ \A n \in 1 .. y - 1 : Built'[n] = Built[n]
        /\ Built'[y] = e
    <3>1. /\ Append(Built, e) \in Seq(Seq(Cell)) /\ Len(Append(Built, e)) = Len(Built) + 1
          /\ \A n \in 1 .. Len(Built) : Append(Built, e)[n] = Built[n]
          /\ Append(Built, e)[Len(Built) + 1] = e
      BY <1>6, <2>1, AppendProperties
    <3>2. Len(Built) + 1 = y
      BY <1>1, <2>1
    <3>. QED
      BY <1>7, <2>1, <3>1, <3>2
  <2>3. \A n \in 1 .. y : Built'[n] = Entries(rows[n])
    <3>1. \A n \in 1 .. y : n \in 1 .. y - 1 \/ n = y
      BY <1>1
    <3>2. \A n \in 1 .. y - 1 : Built[n] = Entries(rows[n])
      BY <1>4
    <3>. QED
      BY <2>2, <3>1, <3>2 DEF e
  <2>4. Built' = [n \in 1 .. y |-> Built'[n]]
    BY <2>2, LenProperties
  <2>. QED
    BY <2>3, <2>4
<1>9. RowsBuilt'
  <2>1. y' - 1 = y
    BY <1>1, <1>2
  <2>2. Built' = [n \in 1 .. y' - 1 |-> Entries(rows'[n])]
    BY <1>2, <1>8, <2>1
  <2>3. y' <= header_rows' + 1 => tbody' = <<>>
    <3>1. y' <= header_rows' + 1 => y <= header_rows
      BY <1>1, <1>2, <1>3, <1>5
    <3>2. y <= header_rows => y <= header_rows + 1
      BY <1>1, <1>5
    <3>. QED
      BY <1>2, <1>4, <3>1, <3>2
  <2>. QED
    BY <1>2, <2>2, <2>3 DEF RowsBuilt
<1>10. SpansCounted'
  BY <1>2, <1>3, <1>4 DEF SpansCounted
<1>11. RowsRounded'
  <2>1. Widest'
    BY <1>2, <1>3, <1>4 DEF Widest
  <2>2. \A n \in DOMAIN rows' : Rounded(n, rows[n])'
    BY <1>2, <1>3, <1>4 DEF Rounded
  <2>. QED
    BY <1>2, <2>1, <2>2 DEF RowsRounded
<1>. QED
  BY <1>9, <1>10, <1>11 DEF GridInv

LEMMA TableBuiltGrid == LoopInv /\ TableBuilt => GridInv'
<1> SUFFICES ASSUME LoopInv, TableBuilt PROVE GridInv'
  OBVIOUS
<1>1. Len(rows) \in Nat /\ y \in Nat
  BY LoopFacts
<1>2. /\ phase = "build" /\ phase' = "done" /\ y > Len(rows) /\ rows' = rows
      /\ max_cols' = max_cols /\ thead' = thead /\ tbody' = tbody
  BY DEF TableBuilt
<1>3. Written' = Written /\ item' = item /\ fill_cells' = fill_cells
  BY WrittenStays DEF TableBuilt
<1>4. y - 1 = Len(rows)
  BY <1>1, <1>2 DEF LoopInv, Places
<1>5. RowsBuilt'
  BY <1>2, <1>4 DEF RowsBuilt, LoopInv, GridInv, Built
<1>6. SpansCounted'
  BY <1>2, <1>3 DEF SpansCounted, LoopInv, GridInv
<1>7. RowsRounded'
  <2>1. Widest /\ \A n \in DOMAIN rows : Rounded(n, rows[n])
    BY <1>2 DEF LoopInv, GridInv, RowsRounded
  <2>2. Widest'
    BY <1>2, <1>3, <2>1 DEF Widest
  <2>3. \A n \in DOMAIN rows' : Rounded(n, rows[n])'
    BY <1>2, <1>3, <2>1 DEF Rounded
  <2>. QED
    BY <1>2, <2>2, <2>3 DEF RowsRounded
<1>. QED
  BY <1>5, <1>6, <1>7 DEF GridInv

LEMMA ErrorGrid == LoopInv /\ RaiseError => GridInv'
<1> SUFFICES ASSUME RaiseError PROVE GridInv'
  OBVIOUS
<1>1. phase' = "error"
  BY DEF RaiseError
<1>2. SpansCounted'
  BY <1>1 DEF SpansCounted
<1>3. RowsRounded'
  BY <1>1 DEF RowsRounded
<1>4. RowsBuilt'
  BY <1>1 DEF RowsBuilt
<1>. QED
  BY <1>2, <1>3, <1>4 DEF GridInv

LEMMA StutterGrid == LoopInv /\ UNCHANGED vars => GridInv'
<1> SUFFICES ASSUME LoopInv, UNCHANGED vars PROVE GridInv'
  OBVIOUS
<1>1. /\ phase' = phase /\ rows' = rows /\ x' = x /\ y' = y /\ max_cols' = max_cols
      /\ thead' = thead /\ tbody' = tbody /\ UNCHANGED options
  BY DEF vars, options
<1>2. Written' = Written /\ item' = item /\ fill_cells' = fill_cells /\ header_rows' = header_rows
  BY <1>1, WrittenStays
<1>3. SpansCounted'
  <2>1. \A n \in DOMAIN rows : ParsedRow(n)' = ParsedRow(n)
    BY <1>2 DEF ParsedRow
  <2>2. \A n \in DOMAIN rows : AsWritten(n, rows[n]) => AsWritten(n, rows[n])'
    BY <1>1, <1>2 DEF AsWritten
  <2>3. \A n \in DOMAIN rows : SoFar(n)' = SoFar(n)
    BY <1>1, <1>2 DEF SoFar, Done
  <2>4. SpansCounted
    BY DEF LoopInv, GridInv
  <2>. QED
    BY <1>1, <1>2, <2>1, <2>2, <2>3, <2>4 DEF SpansCounted
<1>4. RowsRounded'
  <2>1. Widest' <=> Widest
    BY <1>1, <1>2 DEF Widest
  <2>2. \A n \in DOMAIN rows : Unrounded(n, rows[n]) => Unrounded(n, rows[n])'
    BY <1>1, <1>2 DEF Unrounded, AsWritten
  <2>3. \A n \in DOMAIN rows : Rounded(n, rows[n]) => Rounded(n, rows[n])'
    BY <1>1, <1>2 DEF Rounded
  <2>4. RowsRounded
    BY DEF LoopInv, GridInv
  <2>5. /\ Len(rows) \in Nat /\ DOMAIN rows = 1 .. Len(rows) /\ y \in Nat \ {0}
        /\ phase = "fill" => y <= Len(rows)
    BY LoopFacts DEF LoopInv, FlatInv, Flow
  <2>6. phase = "fill" => /\ \A n \in y .. Len(rows) : n \in DOMAIN rows
                          /\ \A n \in 1 .. y - 1 : n \in DOMAIN rows
    BY <2>5
  <2>. QED
    BY <1>1, <2>1, <2>2, <2>3, <2>4, <2>6 DEF RowsRounded
<1>5. RowsBuilt'
  BY <1>1, <1>2 DEF RowsBuilt, Built, LoopInv, GridInv
<1>. QED
  BY <1>3, <1>4, <1>5 DEF GridInv

LEMMA InitGrid == Init => GridInv
<1> SUFFICES ASSUME Init PROVE GridInv
  OBVIOUS
<1>1. /\ phase = "parse" /\ rows = <<>> /\ max_cols = 0 /\ thead = <<>> /\ tbody = <<>>
  BY DEF Init
<1>2. DOMAIN rows = {}
  BY <1>1
<1>. QED
  BY <1>1, <1>2 DEF GridInv, SpansCounted, RowsRounded, RowsBuilt

LEMMA NextGrid == LoopInv /\ [Next]_vars => GridInv'
<1> SUFFICES ASSUME LoopInv, [Next]_vars PROVE GridInv'
  OBVIOUS
<1>1. CASE NoContent \/ NotAList \/ WrongWidths
  BY <1>1, ErrorGrid DEF NoContent, NotAList, WrongWidths
<1>2. CASE ParseRow
  BY <1>2, ParseRowGrid
<1>3. CASE SpanCell
  BY <1>3, SpanCellGrid
<1>4. CASE NextRow
  BY <1>4, NextRowGrid
<1>5. CASE AllSpanned
  BY <1>5, AllSpannedGrid
<1>6. CASE CountRow
  BY <1>6, CountRowGrid
<1>7. CASE RoundOffRow
  BY <1>7, RoundOffRowGrid
<1>8. CASE BuildRow
  BY <1>8, BuildRowGrid
<1>9. CASE TableBuilt
  BY <1>9, TableBuiltGrid
<1>10. CASE UNCHANGED vars
  BY <1>10, StutterGrid
<1>. QED
  BY <1>1, <1>2, <1>3, <1>4, <1>5, <1>6, <1>7, <1>8, <1>9, <1>10 DEF Next

(* At every step of the loops a row has one place for each column that the *)
(* cells met so far take up in it, its own cells included; the longest row *)
(* is max_cols, and what the others lack is added behind their last cells. *)
THEOREM GridIsCounted == Spec => []GridInv
<1>1. Init => GridInv /\ Places /\ TableTyped
  BY InitGrid DEF Init, Places, InLoop, TableTyped
<1>2. FlatInv /\ Places /\ TableTyped /\ GridInv /\ [Next]_vars => GridInv'
  BY NextGrid DEF LoopInv
<1>. QED
  BY <1>1, <1>2, PlacesKeep, TableTypedKeeps, FlatInvariance, PTL DEF Spec

LEMMA PlainRows ==
  ASSUME item \in Seq(Item), ShortRowsArePlain, NEW n \in 1 .. Len(Written),
         ShortIn(Written, Columns(Written), n)
  PROVE  PlainIn(Written, n)
<1>1. /\ Written \in Table /\ Len(Written) = Len(item) /\ DOMAIN item = 1 .. Len(item)
  BY WrittenFacts, LenProperties
<1>2. Short(n)
  BY DEF Short, ShortIn
<1>3. /\ RSpan(Written[n][Len(Written[n])]) = 0 \/ n = Len(item)
      /\ \A e \in Entry(Written) : e[1] < n => e[1] + RSpan(Written[e[1]][e[2]]) < n
  BY <1>1, <1>2 DEF ShortRowsArePlain
<1>4. Unreached(Written, n)
  <2> SUFFICES ASSUME NEW m \in 1 .. n - 1, NEW i \in 1 .. Len(Written[m])
               PROVE  m + RSpan(Written[m][i]) < n
    BY DEF Unreached
  <2>1. m < n /\ m \in 1 .. Len(Written)
    BY <1>1, TableFacts
  <2> DEFINE e == <<m, i>>
  <2>2. e \in Entry(Written) /\ e[1] = m /\ e[2] = i
    BY <1>1, <2>1, EntryFacts
  <2>. QED
    BY <1>3, <2>1, <2>2
<1>. QED
  BY <1>1, <1>3, <1>4 DEF PlainIn

LEMMA GridIsTiled == LoopInv => TilesGrid
<1> SUFFICES ASSUME LoopInv, phase = "done", LaidOut, SpansAreApart,
                    fill_cells \/ ShortRowsArePlain
             PROVE  Tiles(Built, max_cols)
  BY DEF TilesGrid
<1> DEFINE T == Written
           U == Built
<1>1. /\ item \in Seq(Item) /\ max_cols \in Nat /\ Len(rows) \in Nat /\ DOMAIN rows = 1 .. Len(rows)
      /\ \A n \in 1 .. Len(rows) : rows[n] \in Row
  BY LoopFacts
<1>2. /\ Len(rows) = Len(item) /\ Widest /\ \A n \in DOMAIN rows : Rounded(n, rows[n])
      /\ U = [n \in 1 .. Len(rows) |-> Entries(rows[n])]
  BY DEF LoopInv, GridInv, SpansCounted, RowsRounded, RowsBuilt
<1>3. T \in Table /\ Len(T) = Len(item)
  BY <1>1, WrittenFacts
<1>4. U \in Table /\ Len(U) = Len(T)
  <2>1. \A n \in 1 .. Len(rows) : Entries(rows[n]) \in Seq(Cell)
    BY <1>1, EntriesOfRow
  <2>2. U \in [1 .. Len(rows) -> Seq(Cell)]
    BY <1>2, <2>1
  <2>3. U \in Table
    BY <1>1, <2>2 DEF Table
  <2>. QED
    BY <1>1, <1>2, <1>3, <2>2, <2>3
<1>5. \A n \in 1 .. Len(T) : \E v \in 0 .. max_cols :
        Counts(Sites(T, n), v) /\ Grown(T[n], U[n], max_cols - v, fill_cells)
  <2> SUFFICES ASSUME NEW n \in 1 .. Len(T)
               PROVE  \E v \in 0 .. max_cols :
                        Counts(Sites(T, n), v) /\ Grown(T[n], U[n], max_cols - v, fill_cells)
    OBVIOUS
  <2>1. n \in DOMAIN rows /\ U[n] = Entries(rows[n])
    BY <1>1, <1>2, <1>3
  <2>2. Rounded(n, rows[n])
    BY <1>2, <2>1
  <2>. QED
    BY <2>1, <2>2 DEF Rounded
<1>6. \E r \in 1 .. Len(T) : Counts(Sites(T, r), max_cols)
  BY <1>2, <1>3 DEF Widest
<1>7. fill_cells \/ \A n \in 1 .. Len(T) : ShortIn(T, Columns(T), n) => PlainIn(T, n)
  BY <1>1, PlainRows
<1>8. IsLayout(T, Columns(T)) /\ Apart(T, Columns(T)) /\ IsLayout(U, Columns(U))
  BY DEF LaidOut, SpansAreApart
<1>9. fill_cells \in BOOLEAN
  BY DEF LoopInv, FlatInv, Typed
<1> HIDE DEF T, U
<1>10. Tiles(U, max_cols)
  BY <1>1, <1>3, <1>4, <1>5, <1>6, <1>7, <1>8, <1>9, GrownTiles
<1>. QED
  BY <1>10 DEF U

(* The table that is written out covers its grid: in a table of any size   *)
(* whose written spans do not meet, laid out as browsers do, each place of *)
(* max_cols columns belongs to one entry and none lies beyond, if missing  *)
(* cells are filled in or no row span touches the rows that lack cells.    *)
THEOREM TilesGridAlways == Spec => []TilesGrid
<1>1. Init => Places /\ TableTyped
  BY DEF Init, Places, InLoop, TableTyped
<1>2. FlatInv /\ Places /\ TableTyped /\ GridInv => TilesGrid
  BY GridIsTiled DEF LoopInv
<1>. QED
  BY <1>1, <1>2, PlacesKeep, TableTypedKeeps, FlatInvariance, GridIsCounted, PTL DEF Spec
=============================================================================
