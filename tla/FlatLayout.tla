----------------------------- MODULE FlatLayout -----------------------------
(***************************************************************************)
(* What the entries of a flat table amount to, as docutils' writers and    *)
(* browsers lay them out: row by row, each entry at the first column that  *)
(* is free, covering the columns and rows it spans.                        *)
(***************************************************************************)
EXTENDS FlatTable

CONSTANT Columns(_)   \* the columns a table's entries are put at, row by row

Entry(table) == UNION {{n} \X (DOMAIN table[n]) : n \in DOMAIN table}

(* The places of the entry number e[2] of row e[1].                        *)
Covers(table, col, e) ==
  LET n == e[1]  k == col[n][e[2]]  entry == table[n][e[2]]
  IN (n .. n + RSpan(entry)) \X (k .. k + CSpan(entry))

Taken(table, col) == UNION {Covers(table, col, e) : e \in Entry(table)}

(* An entry of a row above is in the way.                                  *)
FromAbove(table, col, n, k) ==
  \E e \in Entry(table) : e[1] < n /\ <<n, k>> \in Covers(table, col, e)

(* The first column behind the entry before.                               *)
Behind(table, col, n, j) ==
  IF j = 1 THEN 1 ELSE col[n][j - 1] + CSpan(table[n][j - 1]) + 1

(* Each entry is at the first column behind the one before that no entry   *)
(* of a row above covers.                                                  *)
IsLayout(table, col) ==
  \A e \in Entry(table) :
    LET n == e[1]  k == col[n][e[2]]  first == Behind(table, col, n, e[2])
    IN /\ k \in Nat /\ first <= k /\ ~FromAbove(table, col, n, k)
       /\ \A i \in first .. k - 1 : FromAbove(table, col, n, i)

(* No place is covered twice.                                              *)
Apart(table, col) ==
  \A d, e \in Entry(table) :
    d # e => Covers(table, col, d) \cap Covers(table, col, e) = {}

(* Each place of the grid is covered by one entry, and no other column.    *)
Tiles(table, width) ==
  LET col == Columns(table) IN
  /\ \A p \in (DOMAIN table) \X (1 .. width) :
       \E e \in Entry(table) :
         \A d \in Entry(table) : p \in Covers(table, col, d) <=> d = e
  /\ \A p \in Taken(table, col) : p[2] \in 1 .. width

(* The table as the author wrote it, and the one that is written out.      *)
Written == [n \in DOMAIN item |-> ParsedRow(n)]
Built == thead \o tbody

(* The spans the author wrote do not meet.                                 *)
SpansAreApart == Apart(Written, Columns(Written))

(* Rows that do not reach the column another reaches                       *)
Short(n) ==
  LET taken == Taken(Written, Columns(Written))
  IN \E p \in taken : \E k \in 1 .. p[2] : <<n, k>> \notin taken

(* No row that lacks cells is reached by a span from above, or ends with a *)
(* cell that spans rows below.                                             *)
ShortRowsArePlain ==
  \A n \in DOMAIN item : Short(n) =>
    /\ RSpan(Written[n][Len(Written[n])]) = 0 \/ n = Len(item)
    /\ \A e \in Entry(Written) : e[1] < n => e[1] + RSpan(Written[e[1]][e[2]]) < n

LaidOut == IsLayout(Written, Columns(Written)) /\ IsLayout(Built, Columns(Built))

(* The entries of a table whose spans do not meet cover each place of the  *)
(* grid of max_cols columns once: none is covered twice or left out, and   *)
(* no row is pushed over the edge, if missing cells are filled in, or are  *)
(* spanned in rows that have nothing to do with row spans.                 *)
TilesGrid ==
  phase = "done" /\ LaidOut /\ SpansAreApart /\ (fill_cells \/ ShortRowsArePlain)
    => Tiles(Built, max_cols)

(* The rightmost cell of a row spans the missing cells on its right side,  *)
(* as the directive's description promises without exception, and so the   *)
(* entries cover the grid once in any table whose spans do not meet.       *)
AutoSpanFits ==
  phase = "done" /\ LaidOut /\ SpansAreApart => Tiles(Built, max_cols)
=============================================================================
