----------------------------- MODULE RowCursor -----------------------------
(***************************************************************************)
(* What a reader of rows promises to its caller: it stands at a row, any   *)
(* question about that row is answered from it as often as it is asked,    *)
(* and next() goes to the row after it.  No row is lost, none comes twice. *)
(***************************************************************************)
EXTENDS Naturals, Sequences

CONSTANTS
  Columns,    \* the column numbers a caller asks for
  Text(_),    \* the answer with the text of an item
  NoItem,     \* the answer for a column or a row that is not there
  NoAnswer,   \* there is no answer about the row the cursor has gone to
  Eof(_)      \* the answer whether there are no more rows

VARIABLES
  rows,       \* the row the cursor stands at, and those after it
  answer      \* what the last call returned

Item(row, n) == IF n < Len(row) THEN Text(row[n + 1]) ELSE NoItem

get(n) ==
  /\ answer' = IF rows = <<>> THEN NoItem ELSE Item(Head(rows), n)
  /\ UNCHANGED rows

at_eof ==
  /\ answer' = Eof(rows = <<>>)
  /\ UNCHANGED rows

next ==
  /\ rows' = IF rows = <<>> THEN rows ELSE Tail(rows)
  /\ answer' = NoAnswer

Next == (\E n \in Columns : get(n)) \/ at_eof \/ next

Spec == [][Next]_<<rows, answer>>
=============================================================================
