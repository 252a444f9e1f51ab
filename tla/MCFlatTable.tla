----------------------------- MODULE MCFlatTable -----------------------------
EXTENDS FlatLayout, SequencesExt

(* The layout of a table, computed: entries are placed one by one behind   *)
(* the one before, over the columns that are taken in the row.             *)
FirstFree(n, k, taken) ==
  CHOOSE j \in k .. k + Cardinality(taken) :
    <<n, j>> \notin taken /\ \A i \in k .. j - 1 : <<n, i>> \in taken

PlaceEntry(n, acc, entry) ==
  LET k == FirstFree(n, acc.next, acc.taken)
      covers == (n .. n + RSpan(entry)) \X (k .. k + CSpan(entry))
  IN [taken |-> acc.taken \cup covers,
      next  |-> k + CSpan(entry) + 1,
      cols  |-> Append(acc.cols, k)]

PlaceRow(table, acc, n) ==
  LET row == FoldLeft(LAMBDA a, entry : PlaceEntry(n, a, entry),
                      [taken |-> acc.taken, next |-> 1, cols |-> <<>>], table[n])
  IN [taken |-> row.taken, cols |-> Append(acc.cols, row.cols)]

MCColumns(table) ==
  FoldLeft(LAMBDA a, n : PlaceRow(table, a, n), [taken |-> {}, cols |-> <<>>],
           [n \in 1 .. Len(table) |-> n]).cols

Spans == ((0 .. 1) \X (0 .. 1)) \cup {<<1, 2>>}
MCItem ==
  [lists : {1}, other : {FALSE}, cells : UNION {[1 .. n -> Spans] : n \in 1 .. 2}]
    \cup [lists : {0, 2}, other : {FALSE}, cells : {<< <<0, 0>> >>}]
    \cup [lists : {1}, other : {TRUE}, cells : {<< <<0, 0>> >>}]

(* What is computed is a layout, for each list of rows without others.     *)
MCRow == UNION {[1 .. n -> {<<s[1], s[2], Nothing>> : s \in Spans}] : n \in 1 .. 2}
ASSUME MCColumnsAssumption ==
  \A table \in UNION {[1 .. n -> MCRow] : n \in 0 .. 3} :
    IsLayout(table, MCColumns(table))
=============================================================================
